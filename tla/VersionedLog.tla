---------------------------- MODULE VersionedLog ----------------------------
(***************************************************************************)
(* What the store promises its callers: per aggregate a log of revisions   *)
(* 0, 1, 2, ... that only grows, one atomic batch of requests at a time,   *)
(* each extending the log at the base it names or asking again for what    *)
(* the log already holds there.  SqlStore implements it: see LogView.      *)
(***************************************************************************)
EXTENDS Integers

CONSTANTS
    Keys,       \* aggregates
    Contents,   \* what a revision durably is
    Bases       \* the revisions a request may name as its base; -1 for none

VARIABLE log    \* log[k][n] is the content of revision n of k

Requests == [key : Keys, expected : Bases, content : Contents]

Position(q) == q.expected + 1

Init == log = [k \in Keys |-> [n \in {} |-> n]]

(* A batch commits: everything it asks for is in the log, nothing that was *)
(* there has changed, nothing else is new, and there is no gap.            *)
Commit(batch) ==
    /\ \A k \in Keys :
         /\ DOMAIN log'[k] = DOMAIN log[k] \cup {Position(q) : q \in {p \in batch : p.key = k}}
         /\ \A n \in DOMAIN log[k] : log'[k][n] = log[k][n]
         /\ \A n \in DOMAIN log'[k] : n > 0 => n - 1 \in DOMAIN log'[k]
    /\ \A q \in batch : log'[q.key][Position(q)] = q.content

Next == \E batch \in SUBSET Requests : Commit(batch)

Spec == Init /\ [][Next]_log

=============================================================================
