------------------------------- MODULE MCSync -------------------------------
(***************************************************************************)
(* Semaphores and locks for TLC.  Kernel threads other than Main are       *)
(* interchangeable.                                                        *)
(***************************************************************************)
EXTENDS Sync

Symmetry == Permutations(Tcb \ ({Main} \cup UserTask))
=============================================================================
