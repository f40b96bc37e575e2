----------------------------- MODULE MCDelivery -----------------------------
(* Small instances of Delivery for TLC: a subscription every worker knows  *)
(* and, where q2 is used, one that the first worker's build does not.      *)
EXTENDS Delivery

CONSTANTS w1, w2, w3, i1, i2, p1, p2, q1

Subscriptions == [i \in Intents |-> IF i = i1 THEN p1 ELSE p2]
AllKnown == [w \in Workers |-> Subs]
OldBuild == [w \in Workers |-> IF w = w1 THEN {p1} ELSE Subs]
OneQueue == [p \in Subs |-> q1]
SameQueue == [w \in Workers |-> q1]
=============================================================================
