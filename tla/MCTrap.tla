------------------------------- MODULE MCTrap -------------------------------
(* A small instance of Trap for TLC; the constants are in the cfgs.        *)
EXTENDS Trap
=============================================================================
