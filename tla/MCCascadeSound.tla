--------------------------- MODULE MCCascadeSound ----------------------------
(* The runtime with the generator's guarantees, which TLC evaluates for    *)
(* the database at hand.                                                   *)
EXTENDS CascadeSound, CascadeDatabases
=============================================================================
