----------------------------- MODULE MCProcess -----------------------------
(* Small instances of Process for TLC; the constants are in the cfg files. *)
EXTENDS Process
=============================================================================
