----------------------------- MODULE MCDeltaLog -----------------------------
(* Small instances of DeltaScan and DeltaLog for TLC: one field that is     *)
(* absent, 1, true or 2, where 1 == True in Python, and one subscription    *)
(* for each predicate of a small set.                                       *)
EXTENDS DeltaScan, TLC

CONSTANTS one, true, two

OneIsTrue == {<<one, true>>, <<true, one>>}
Numbers == (one :> 1) @@ (true :> 1) @@ (two :> 2)

Atoms == {Became("f", v) : v \in Values} \cup {AtLeast("f", v) : v \in Values}
MCPredicates ==
    Atoms \cup {Equals("f", v) : v \in Values} \cup {Always}
    \cup {And(Became("f", v), AtLeast("f", two)) : v \in Values}
    \cup {Or(Became("f", v), Equals("f", two)) : v \in Values}
MCWhen == [p \in MCPredicates |-> p]
MCDepth == [p \in MCPredicates |-> IF p.op \in {"and", "or"} THEN 1 ELSE 0]

=============================================================================
