-------------------------- MODULE MCCascadeLiveness --------------------------
(* The runtime on the database of the overlap run, whose program is        *)
(* written out: evaluating the generator in every enabledness check of a   *)
(* liveness property is what would make that run slow.                     *)
EXTENDS CascadeRuntime, CascadeDatabases

\* The program written out is the generator's.
ASSUME OverlapProgramIsGenerated == OverlapProgram = ProgramsOf(S!Testent, OverlapRoot)

\* The programs lock in one order, so that DeadlocksInOneTable is owed.
ASSUME OverlapInOneOrder == OneLockOrder
=============================================================================
