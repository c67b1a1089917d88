---------------------------- MODULE MCInterrupts ----------------------------
(* A small instance of Interrupts for TLC; the constants are in the cfg.   *)
EXTENDS Interrupts
=============================================================================
