-------------------------------- MODULE MCVm --------------------------------
(* A small instance of Vm for TLC; the constants are in the cfg.           *)
EXTENDS Vm
=============================================================================
