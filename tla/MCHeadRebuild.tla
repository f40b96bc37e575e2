---------------------------- MODULE MCHeadRebuild ----------------------------
(* Small instances of HeadRebuild for TLC: one stream without Outbox       *)
(* subscriptions, written by one build.                                    *)
EXTENDS HeadRebuild, TLC

CONSTANTS w1, w2, k1, k2, c1, c2, s1, f1

OneStream == [k \in Keys |-> s1]
NoStream == [p \in Subs |-> s1]
NoKinds == [p \in Subs |-> {}]
OneVersion == [c \in Contents |-> 1]
OneBuild == [w \in Writers |-> f1]
WholeStore == {Keys}

(* Safety only; the CHOOSEs of HeadRebuild have one solution each.         *)
Symmetric == Permutations(Writers) \cup Permutations(Keys) \cup Permutations(Contents)

=============================================================================
