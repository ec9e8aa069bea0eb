----------------------------- MODULE MCThreads -----------------------------
(***************************************************************************)
(* The thread module for TLC.  The TCBs other than Main are                *)
(* interchangeable as long as UserTask and Exiters treat them alike.       *)
(***************************************************************************)
EXTENDS Threads, TLC

KernThreads == Tcb \ ({Main} \cup UserTask)

Symmetry == Permutations(KernThreads)
=============================================================================
