---------------------------- MODULE MCSqlStore ----------------------------
(* Small instances of SqlStore for TLC.  k1 and k2 are keys of two streams. *)
(* p1 is an Outbox subscription to the changes of the first; p2 is one to   *)
(* the changes of the second, and may be given an empty queue name.  The    *)
(* first writer runs another build, with another fingerprint; the second    *)
(* content, where there is one, is written in a schema version of its own.  *)
EXTENDS SqlStore

CONSTANTS w1, w2, w3, k1, k2, s1, s2, p1, p2, f1, f2

StreamPerKey == [k \in Keys |-> IF k = k1 THEN s1 ELSE s2]
SubStreams == [p \in Subs |-> IF p = p1 THEN s1 ELSE s2]
Kinds == [p \in Subs |-> {"change"}]
VersionPerContent == [c \in Contents |-> IF c = "c1" THEN 1 ELSE 2]
TwoBuilds == [w \in Writers |-> IF w = w1 THEN f1 ELSE f2]

=============================================================================
