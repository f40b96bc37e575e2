--------------------------- MODULE OutboxContract ---------------------------
(* What the outbox promises, without leases, attempts, clocks or workers   *)
(* (docs/DELIVERY.md): an intent staged by a commit stays owed until its   *)
(* handler has succeeded or delivery gives up on it, what is done stays    *)
(* done, giving up is undone only by an operator's redrive, and every      *)
(* intent owed is resolved.  A report that comes after the lease weakens   *)
(* this for its intents: they are given up or owed as the last report says.*)
EXTENDS Naturals

CONSTANT Intents

VARIABLES
    phase,     \* "unborn", "owed", "dead" or "done"
    handled,   \* the intents whose handler has succeeded
    late,      \* the intents on which a report came after its lease
    redrives   \* how often an operator has asked for a redrive

vars == <<phase, handled, late, redrives>>

Init ==
    /\ phase = [i \in Intents |-> "unborn"]
    /\ handled = {}
    /\ late = {}
    /\ redrives = 0

(* The intents of S go from one phase to another, together.                *)
Move(S, from, to) ==
    /\ \A i \in S : phase[i] = from
    /\ phase' = [i \in Intents |-> IF i \in S THEN to ELSE phase[i]]
    /\ UNCHANGED <<handled, late>>

Stage(S) == Move(S, "unborn", "owed") /\ UNCHANGED redrives
Redrive(S) == Move(S, "dead", "owed") /\ redrives' = redrives + 1

(* The handler succeeds, as often as it takes and as late as it likes.     *)
Handle(i) ==
    /\ phase[i] # "unborn"
    /\ handled' = handled \cup {i}
    /\ UNCHANGED <<phase, late, redrives>>

(* A worker reports on a batch B: D is done, G is given up, the rest is    *)
(* to be tried again.                                                      *)
Report(B, D, G) ==
    /\ D \subseteq handled
    /\ late' \in {late, late \cup B}
    /\ \A i \in B : phase[i] \in IF i \in late' THEN {"owed", "dead", "done"} ELSE {"owed"}
    /\ phase' = [i \in Intents |->
          IF i \notin B \/ phase[i] = "done" THEN phase[i]
          ELSE IF i \in D THEN "done" ELSE IF i \in G THEN "dead" ELSE "owed"]
    /\ UNCHANGED <<handled, redrives>>

Next ==
    \/ \E S \in SUBSET Intents : Stage(S) \/ Redrive(S)
    \/ \E i \in Intents : Handle(i)
    \/ \E B \in SUBSET Intents : \E D \in SUBSET B : \E G \in SUBSET (B \ D) :
          Report(B, D, G)

(* Nothing stays owed for ever.                                            *)
Resolved == \A i \in Intents : phase[i] = "owed" ~> phase[i] # "owed"

Safe == Init /\ [][Next]_vars
=============================================================================
