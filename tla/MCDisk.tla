------------------------------- MODULE MCDisk -------------------------------
(* Two processes and two buffers, for the first and the last block.        *)
EXTENDS Disk

CONSTANTS b1, b2

FirstAndLast == [b \in {b1, b2} |-> IF b = b1 THEN 0 ELSE FS_SIZE - 1]
=============================================================================
