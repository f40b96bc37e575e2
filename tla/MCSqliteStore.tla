---------------------------- MODULE MCSqliteStore ----------------------------
(* Small instances of SqliteStore for TLC: one stream with one Outbox      *)
(* subscription to its changes.                                            *)
EXTENDS SqliteStore

CONSTANTS w1, w2, k1, s1, p1, f1

OneStream == [k \in Keys |-> s1]
SubStreams == [p \in Subs |-> s1]
Kinds == [p \in Subs |-> {"change"}]
OneVersion == [c \in Contents |-> 1]
OneBuild == [w \in Writers |-> f1]

=============================================================================
