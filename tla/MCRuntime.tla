------------------------------ MODULE MCRuntime ------------------------------
(* A small instance of Runtime for TLC: an old build that raises and a new *)
(* one that logs, a handler of everything and one of changes.              *)
EXTENDS Runtime

CONSTANTS old, new, k1, all, changes

Declared == <<all, changes>>
TwoKinds == [s \in {all, changes} |-> IF s = all THEN {"create", "change"} ELSE {"change"}]
TwoModes == [p \in Processes |-> IF p = old THEN "raise" ELSE "log"]
TwoVersions == [p \in Processes |-> IF p = old THEN 1 ELSE 2]

=============================================================================
