-------------------------- MODULE MCCascadeRuntime ---------------------------
(* The runtime on the databases of CascadeDatabases. *)
EXTENDS CascadeRuntime, CascadeDatabases
=============================================================================
