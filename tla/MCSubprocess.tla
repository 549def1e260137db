---------------------------- MODULE MCSubprocess ----------------------------
(* Enough processes for every call to start one. *)
EXTENDS Subprocess

ASSUME PoolAssumption == Cardinality(Procs) >= MaxCalls
=============================================================================
