----------------------------- MODULE MCSpinlock -----------------------------
(* A small instance of Spinlock for TLC; the constants are in the cfg.     *)
EXTENDS Spinlock
=============================================================================
