------------------------------ MODULE MkfsData ------------------------------
(***************************************************************************)
(* The units of data in an image: an entry of the directory (the inode     *)
(* number and the argument of the command line it names; "." and ".." are  *)
(* the arguments 0 and 1), the k-th unit of the file copied to an inode,   *)
(* and a unit never written.                                               *)
(***************************************************************************)
Dirent(inum, arg) == <<"dirent", inum, arg>>
Copied(inum, k)   == <<"data", inum, k>>
Zero              == <<"zero", 0, 0>>
=============================================================================
