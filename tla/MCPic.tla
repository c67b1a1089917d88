------------------------------- MODULE MCPic -------------------------------
(* A small instance of Pic for TLC; the constants are in the cfgs.         *)
EXTENDS Pic
=============================================================================
