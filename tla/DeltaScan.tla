------------------------------ MODULE DeltaScan ------------------------------
(***************************************************************************)
(* What the derived projections read off the log of DeltaLog: each row's   *)
(* document and which of its keys changed, so that a predicate declared    *)
(* once can filter intents when a write is planned                         *)
(* (p03_predicates_plan.py) and rows when the log is scanned               *)
(* (p06_delta_scan_cost.py).  The predicates are the combinators of        *)
(* p09_predicate_fingerprint.py, values and not functions.                 *)
(*                                                                         *)
(* Python's == decides here, as in Delta.encode, so values which Lax pairs *)
(* are equal.                                                              *)
(***************************************************************************)
EXTENDS DeltaLog

CONSTANTS
    Number,     \* [Values -> Int], what a value is to >=
    Predicates, \* with every term they are made of
    Depth,      \* [Predicates -> Nat], how deep the tree is
    Subs,       \* subscriptions
    When        \* [Subs -> Predicates]

(* A predicate is a tree, whose terms are predicates of their own.         *)
ASSUME ScanAssumption ==
    /\ When \in [Subs -> Predicates] /\ Depth \in [Predicates -> Nat]
    /\ \A p \in Predicates :
          /\ p.op \in {"became", "equals", "at_least", "and", "or"}
          /\ p.op \in {"and", "or"} => \A q \in p.terms : q \in Predicates /\ Depth[q] < Depth[p]

(* planning.changed_keys, over the documents of two revisions.             *)
ChangedKeys(before, after) ==
    {f \in DOMAIN before \cup DOMAIN after :
        f \in DOMAIN before \cap DOMAIN after => ~Unchanged(before[f], after[f])}

(* PredicateView: what is known of a commit when it is planned and when it *)
(* is scanned.  There is no document before the first.                     *)
View(before, after) ==
    [kind |-> IF before.ok THEN "change" ELSE "create", state |-> after,
     changed |-> IF before.ok THEN ChangedKeys(before.doc, after) ELSE DOMAIN after]

-----------------------------------------------------------------------------
(* Predicates and their evaluation.                                        *)

Became(f, v) == [op |-> "became", key |-> f, value |-> v]
Equals(f, v) == [op |-> "equals", key |-> f, value |-> v]
AtLeast(f, v) == [op |-> "at_least", key |-> f, value |-> v]
And(p, q) == [op |-> "and", terms |-> {p, q}]
Or(p, q) == [op |-> "or", terms |-> {p, q}]
Always == [op |-> "and", terms |-> {}]      \* no predicate at all

IsValue(view, p) == p.key \in DOMAIN view.state /\ Unchanged(view.state[p.key], p.value)

Evaluate(predicate, view) ==
    LET holds[p \in Predicates] ==
          \/ p.op = "became" /\ p.key \in view.changed /\ IsValue(view, p)
          \/ p.op = "equals" /\ IsValue(view, p)
          \/ /\ p.op = "at_least" /\ p.key \in DOMAIN view.state
             /\ Number[view.state[p.key]] >= Number[p.value]
          \/ p.op = "and" /\ \A q \in p.terms : holds[q]
          \/ p.op = "or" /\ \E q \in p.terms : holds[q]
    IN  holds[predicate]

-----------------------------------------------------------------------------
(* The planner.                                                            *)

NoDocument == Undecodable

(* plan_view: from the caller's base, which the compare-and-swap makes the *)
(* previous revision, and the new state.                                   *)
PlanView(n) == View(IF n = 0 THEN NoDocument ELSE Decoded(DigestAt(n - 1)), DigestAt(n))

(* filtered_intents: the subscriptions that get a row in the outbox.       *)
FilteredIntents(view) == {s \in Subs : Evaluate(When[s], view)}

-----------------------------------------------------------------------------
(* The scan, a page of the log at a time.                                  *)

(* scan_snapshot: the payload is the document, the predecessor's takes a   *)
(* query of its own for each row.                                          *)
SnapshotView(n) ==
    View(IF n = 0 THEN NoDocument ELSE Decoded(log[n].payload), log[n + 1].payload)

(* scan_snapshot_batched: the predecessors of a page in one query.         *)
BatchedView(page, n) ==
    LET wanted == {m - 1 : m \in {k \in page : k > 0}}
        prev == [m \in wanted |-> log[m + 1].payload]
    IN  View(IF n = 0 THEN NoDocument ELSE Decoded(prev[n - 1]), log[n + 1].payload)

(* _fold: every document of a window, from whatever it begins with.        *)
FoldWindow(w, from, to) ==
    LET doc[n \in from .. to] ==
          IF w[n].encoding = "snapshot/1" THEN w[n].payload
          ELSE Apply(w[n].payload, IF n = from THEN Empty ELSE doc[n - 1])
    IN  doc

(* Back to the checkpoint, and at least to the predecessor.                *)
PredecessorOnly(n, every) == IF n = 0 THEN 0 ELSE n - 1
ScanStart(n, every) ==
    IF n = 0 THEN 0 ELSE IF IsCheckpoint(n, every) THEN n - 1 ELSE Back(n, every)

(* scan_delta.                                                             *)
DeltaView(n, every) ==
    LET from == ScanStart(n, every)
        docs == FoldWindow(Window(log, from, n), from, n)
    IN  View(IF n = 0 THEN NoDocument ELSE Decoded(docs[n - 1]), docs[n])

-----------------------------------------------------------------------------
(* Properties, of the newest row: every row has been that.                 *)

Latest == Len(log) - 1
AllSnapshots == \A n \in Revisions : log[n + 1].encoding = "snapshot/1"

(* On a snapshot log both scans see what the planner saw, for pages that   *)
(* begin anywhere.                                                         *)
SnapshotScansAgree ==
    log # <<>> /\ AllSnapshots =>
        /\ SnapshotView(Latest) = PlanView(Latest)
        /\ \A first \in Revisions : BatchedView(first .. Latest, Latest) = PlanView(Latest)

(* A delta scan sees the documents, and between checkpoints also what      *)
(* changed, as the planner did, as long as all intervals in the log divide *)
(* the scan's.                                                             *)
DeltaScanAgrees ==
    log # <<>> =>
        \A every \in {e \in Intervals : Aligned(e)} :
            LET seen == DeltaView(Latest, every)
                planned == PlanView(Latest)
            IN  /\ seen.state = planned.state /\ seen.kind = planned.kind
                /\ ~IsCheckpoint(Latest, every) => seen.changed = planned.changed

(* Where the window begins with the delta before a checkpoint, keys that   *)
(* did not change pass for changed; but whatever a subscription was sent   *)
(* at commit, the scan finds too.                                          *)
ScanFindsIntents ==
    log # <<>> =>
        \A every \in {e \in Intervals : Aligned(e)} :
            FilteredIntents(PlanView(Latest)) \subseteq FilteredIntents(DeltaView(Latest, every))

(* A scan of the log sees what planning saw, whatever encodings wrote it.  *)
ScansAgree == SnapshotScansAgree /\ DeltaScanAgrees /\ ScanFindsIntents

=============================================================================
