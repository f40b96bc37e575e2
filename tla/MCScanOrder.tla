---------------------------- MODULE MCScanOrder ----------------------------
(* Two writers, two aggregates, one restore, on both backends.             *)
EXTENDS ScanOrder

MCBackends == {"postgres", "sqlite"}

=============================================================================
