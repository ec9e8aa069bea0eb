---------------------------- MODULE MCInterrupts ----------------------------
(***************************************************************************)
(* Interrupts, locks and threads for TLC.                                  *)
(***************************************************************************)
EXTENDS Interrupts
=============================================================================
