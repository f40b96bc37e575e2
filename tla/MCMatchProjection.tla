-------------------------- MODULE MCMatchProjection --------------------------
(* Two matchers and two accounts, a pattern of two failures, and rows that  *)
(* lie within the window of each other or not.                              *)
EXTENDS MatchProjection

MCTimes == {0, 2}

=============================================================================
