----------------------------- MODULE ImageSpec -----------------------------
(***************************************************************************)
(* What mkfs is for: an image is a list of files, the first of which is    *)
(* the root directory.  Files are created empty and grow at their end by   *)
(* the next part of what they are copied from, one append at a time.       *)
(***************************************************************************)
EXTENDS Integers, Sequences, MkfsData

CONSTANT B_SIZE     \* units of data in a block

VARIABLE files

Init == files = <<>>

Create == files' = Append(files, <<>>)

(* The n-th entry of the root: ".", "..", then the files in their order. *)
Enter == LET n == Len(files[1]) IN
    files' = [files EXCEPT ![1] = Append(@, Dirent(IF n < 2 THEN 1 ELSE n, n))]

Copy == \E i \in DOMAIN files \ {1}, n \in 1..B_SIZE :
    files' = [files EXCEPT ![i] = @ \o [k \in 1..n |-> Copied(i, Len(@) + k)]]

(* The directory is filled up with free entries at the end. *)
Pad == \E n \in 1..B_SIZE :
    files' = [files EXCEPT ![1] = @ \o [k \in 1..n |-> Zero]]

Next == Create \/ (files # <<>> /\ (Enter \/ Copy \/ Pad))

Spec == Init /\ [][Next]_files
=============================================================================
