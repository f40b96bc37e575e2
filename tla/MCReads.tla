------------------------------- MODULE MCReads -------------------------------
(* The reads on two aggregates, two builds and pages of one and two rows.   *)
EXTENDS Reads

MCAggregates == {1, 2}

(* Ids in an order that agrees neither with that of the revisions nor with *)
(* that of the aggregates.                                                 *)
MCIntentId(k, n) == IF k = 1 THEN 4 - n ELSE n

=============================================================================
