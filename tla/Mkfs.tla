-------------------------------- MODULE Mkfs --------------------------------
(***************************************************************************)
(* tools/mkfs.c: how the image of the file system is built, one file of    *)
(* the command line after the other.                                       *)
(*                                                                         *)
(* Data is counted in units of sizeof(struct dirent), and a unit is known  *)
(* by where it comes from (ImageSpec).  The parts of the image are kept    *)
(* apart by what the program takes them for: inodes, the bitmap, and for   *)
(* each data block its units and its block numbers (index blocks); that no *)
(* block is taken for two things is a property.                            *)
(*                                                                         *)
(* The program tests neither the inode table nor the image for room.  The  *)
(* model follows it to the point where it goes beyond one of them, and     *)
(* stops there, at `beyond': an inode behind the table would be written    *)
(* over the bitmap block or over data, and a block behind the image cannot *)
(* be read, so that what is written to it is what lay on the stack.        *)
(***************************************************************************)
EXTENDS Integers, Sequences, FiniteSetsExt, MkfsData

CONSTANTS FS_SIZE, LOG_SIZE, INODES_NUM, DIRECT_NUM, INDIRECT_NUM,
          B_SIZE,       \* units in a block
          IPB, BPB,     \* inodes and bits in a block
          MAXARG,       \* bound: number of the last argument (argc - 1)
          MAXLEN        \* bound: units in a file to copy

ASSUME SizeAssumption ==
    /\ {FS_SIZE, LOG_SIZE, INODES_NUM, DIRECT_NUM, INDIRECT_NUM, MAXARG, MAXLEN}
          \subseteq Nat
    /\ {B_SIZE, IPB, BPB} \subseteq Nat \ {0}
    /\ MAXARG > 0       \* main: argc < 2 is an error

inode_blocks_num == INODES_NUM \div IPB + 1
bitmap_num       == FS_SIZE \div BPB + 1
meta_num         == 2 + LOG_SIZE + inode_blocks_num + bitmap_num
MAX_FILE         == DIRECT_NUM + INDIRECT_NUM
ROOT_INO         == 1

(* winode finds inode i in the inode table. *)
InTable(i) == i \div IPB < inode_blocks_num

(* There is room for the root directory, and blocks_num blocks for data. *)
ASSUME RoomAssumption == InTable(ROOT_INO) /\ meta_num <= FS_SIZE

(* The data blocks of the image, which are the ones that can be read. *)
Blocks == meta_num..(FS_SIZE - 1)

VARIABLES
    dinodes,    \* the inodes written so far (winode), by inode number
    index,      \* block numbers in each data block
    data,       \* units of data in each data block
    bitmap,     \* blocks whose bit is set
    freeblock,  \* freeblock
    din,        \* local `din' of iappend
    app,        \* arguments of iappend: inode, offset, what is left to write
    back,       \* where iappend returns to
    arg,        \* local `i' of main: the argument in work
    got,        \* units read so far from its file
    pc

vars == <<dinodes, index, data, bitmap, freeblock, din, app, back, arg, got, pc>>

freeinode == Len(dinodes) + 1

NewInode(type) == [type |-> type, size |-> 0, addrs |-> [k \in 0..DIRECT_NUM |-> 0]]

(* Before the first ialloc, on an image of zeroed blocks. *)
Init ==
    /\ dinodes = <<>>
    /\ index = [b \in Blocks |-> [k \in 0..(INDIRECT_NUM - 1) |-> 0]]
    /\ data = [b \in Blocks |-> [k \in 0..(B_SIZE - 1) |-> Zero]]
    /\ bitmap = {}
    /\ freeblock = meta_num
    /\ din = NewInode("dir")
    /\ app = [inum |-> ROOT_INO, off |-> 0, left |-> <<>>]
    /\ back = "root"
    /\ arg = 0
    /\ got = 0
    /\ pc = "root"

Goto(label) == pc' = label

-----------------------------------------------------------------------------
(* iappend *)

CallAppend(inum, size, units, label) ==
    /\ app' = [inum |-> inum, off |-> size, left |-> units]
    /\ back' = label
    /\ Goto("append")

fbn == app.off \div B_SIZE
n1  == Min({Len(app.left), (fbn + 1) * B_SIZE - app.off})

(* The blocks that the round of iappend takes: one for the data unless it  *)
(* is there, and the index block with its first entry.                     *)
Wanted ==
    IF fbn < DIRECT_NUM THEN IF din.addrs[fbn] = 0 THEN 1 ELSE 0
    ELSE IF din.addrs[DIRECT_NUM] = 0 THEN 2
    ELSE IF index[din.addrs[DIRECT_NUM]][fbn - DIRECT_NUM] = 0 THEN 1 ELSE 0
OnImage == freeblock + Wanted <= FS_SIZE

(* Seeded fault: the units go to the start of the block. *)
WriteUnitsAtStart(x) ==
    /\ data' = [data EXCEPT ![x] = [k \in 0..(B_SIZE - 1) |->
                   IF k \in 0..(n1 - 1) THEN app.left[k + 1] ELSE @[k]]]
    /\ app' = [app EXCEPT !.off = @ + n1, !.left = SubSeq(@, n1 + 1, Len(@))]

(* Read block x, put the next n1 units into it, write it back. *)
WriteUnits(x) ==
    /\ data' = [data EXCEPT ![x] = [k \in 0..(B_SIZE - 1) |->
                   LET at == k - (app.off % B_SIZE)
                   IN IF at \in 0..(n1 - 1) THEN app.left[at + 1] ELSE @[k]]]
    /\ app' = [app EXCEPT !.off = @ + n1, !.left = SubSeq(@, n1 + 1, Len(@))]

(* Seeded fault: every append to a direct block takes a new one. *)
AppendDirectFresh ==
    /\ pc = "append" /\ app.left # <<>>
    /\ fbn < DIRECT_NUM
    /\ OnImage
    /\ din' = [din EXCEPT !.addrs[fbn] = freeblock]
    /\ freeblock' = freeblock + 1
    /\ WriteUnits(freeblock)
    /\ UNCHANGED <<dinodes, index, bitmap, back, arg, got, pc>>

(* Blocks 0..DIRECT_NUM-1 of a file: allocate unless allocated. *)
AppendDirect ==
    /\ pc = "append" /\ app.left # <<>>
    /\ fbn < DIRECT_NUM
    /\ OnImage
    /\ IF din.addrs[fbn] = 0
       THEN /\ din' = [din EXCEPT !.addrs[fbn] = freeblock]
            /\ freeblock' = freeblock + 1
            /\ WriteUnits(freeblock)
       ELSE /\ WriteUnits(din.addrs[fbn])
            /\ UNCHANGED <<din, freeblock>>
    /\ UNCHANGED <<dinodes, index, bitmap, back, arg, got, pc>>

(* The blocks behind them: the first needs the index block, too. *)
AppendIndirect ==
    /\ pc = "append" /\ app.left # <<>>
    /\ DIRECT_NUM <= fbn /\ fbn < MAX_FILE
    /\ OnImage
    /\ LET slot  == fbn - DIRECT_NUM
           table == IF din.addrs[DIRECT_NUM] = 0 THEN freeblock ELSE din.addrs[DIRECT_NUM]
           next  == IF table = freeblock THEN freeblock + 1 ELSE freeblock
       IN /\ din' = [din EXCEPT !.addrs[DIRECT_NUM] = table]
          /\ IF index[table][slot] = 0
             THEN /\ index' = [index EXCEPT ![table][slot] = next]
                  /\ freeblock' = next + 1
                  /\ WriteUnits(next)
             ELSE /\ freeblock' = next
                  /\ WriteUnits(index[table][slot])
                  /\ UNCHANGED index
    /\ UNCHANGED <<dinodes, bitmap, back, arg, got, pc>>

(* The image is full.  The program does not notice; see the head of this   *)
(* module.                                                                 *)
AppendBeyond ==
    /\ pc = "append" /\ app.left # <<>>
    /\ fbn < MAX_FILE
    /\ ~OnImage
    /\ Goto("beyond")
    /\ UNCHANGED <<dinodes, index, data, bitmap, freeblock, din, app, back, arg, got>>

(* assert(fbn < MAX_FILE): the program aborts, the inode is not written. *)
AppendAborts ==
    /\ pc = "append" /\ app.left # <<>>
    /\ fbn >= MAX_FILE
    /\ Goto("aborted")
    /\ UNCHANGED <<dinodes, index, data, bitmap, freeblock, din, app, back, arg, got>>

(* winode at the end: the new size and blocks become part of the file. *)
AppendReturn ==
    /\ pc = "append" /\ app.left = <<>>
    /\ dinodes' = [dinodes EXCEPT ![app.inum] = [din EXCEPT !.size = app.off]]
    /\ Goto(back)
    /\ UNCHANGED <<index, data, bitmap, freeblock, din, app, back, arg, got>>

-----------------------------------------------------------------------------
(* main *)

(* ialloc of the root directory, and its entry "." *)
MakeRoot ==
    /\ pc = "root"
    /\ dinodes' = Append(dinodes, NewInode("dir"))
    /\ Goto("dot")
    /\ UNCHANGED <<index, data, bitmap, freeblock, din, app, back, arg, got>>

(* "." is entered as argument 0, ".." as argument 1. *)
EnterDots ==
    /\ pc = "dot"
    /\ arg < 2
    /\ din' = dinodes[ROOT_INO]
    /\ CallAppend(ROOT_INO, dinodes[ROOT_INO].size, <<Dirent(ROOT_INO, arg)>>,
                  IF arg = 0 THEN "dot" ELSE "arg")
    /\ arg' = arg + 1
    /\ UNCHANGED <<dinodes, index, data, bitmap, freeblock, got>>

(* The next argument: open it, ialloc, and enter it in the root. *)
OpenFile ==
    /\ pc = "arg"
    /\ arg <= MAXARG
    /\ InTable(freeinode)
    /\ arg' = arg + 1
    /\ got' = 0
    /\ dinodes' = Append(dinodes, NewInode("file"))
    /\ din' = dinodes[ROOT_INO]
    /\ CallAppend(ROOT_INO, dinodes[ROOT_INO].size, <<Dirent(freeinode, arg)>>, "copy")
    /\ UNCHANGED <<index, data, bitmap, freeblock>>

(* The inode table is full, which ialloc does not notice, either. *)
OpenBeyond ==
    /\ pc = "arg"
    /\ arg <= MAXARG
    /\ ~InTable(freeinode)
    /\ Goto("beyond")
    /\ UNCHANGED <<dinodes, index, data, bitmap, freeblock, din, app, back, arg, got>>

(* The assertion on the name or open() fails: the program stops and leaves *)
(* the image as it is.                                                     *)
OpenFails ==
    /\ pc = "arg"
    /\ arg <= MAXARG
    /\ Goto("failed")
    /\ UNCHANGED <<dinodes, index, data, bitmap, freeblock, din, app, back, arg, got>>

(* read() returns up to a block of data, not always all that is there. *)
CopyChunk ==
    /\ pc = "copy"
    /\ \E cc \in 1..B_SIZE :
        /\ got + cc <= MAXLEN
        /\ got' = got + cc
        /\ din' = dinodes[Len(dinodes)]
        /\ CallAppend(Len(dinodes), dinodes[Len(dinodes)].size,
                      [k \in 1..cc |-> Copied(Len(dinodes), got + k)], "copy")
    /\ UNCHANGED <<dinodes, index, data, bitmap, freeblock, arg>>

(* read() returns 0, or -1 on an error: either ends the file. *)
CloseFile ==
    /\ pc = "copy"
    /\ Goto("arg")
    /\ UNCHANGED <<dinodes, index, data, bitmap, freeblock, din, app, back, arg, got>>

(* Seeded fault: the root directory is cut down to whole blocks. *)
CutRoot ==
    /\ pc = "arg"
    /\ dinodes' = [dinodes EXCEPT ![ROOT_INO].size = (@ \div B_SIZE) * B_SIZE]
    /\ Goto("bitmap")
    /\ UNCHANGED <<index, data, bitmap, freeblock, din, app, back, arg, got>>

(* No more arguments: the size of the root directory is rounded up. *)
RoundRoot ==
    /\ pc = "arg"
    /\ dinodes' = [dinodes EXCEPT ![ROOT_INO].size = (@ \div B_SIZE + 1) * B_SIZE]
    /\ Goto("bitmap")
    /\ UNCHANGED <<index, data, bitmap, freeblock, din, app, back, arg, got>>

(* Seeded fault: only the data blocks are marked. *)
BallocDataOnly ==
    /\ pc = "bitmap"
    /\ bitmap' = meta_num..(freeblock - 1)
    /\ Goto("done")
    /\ UNCHANGED <<dinodes, index, data, freeblock, din, app, back, arg, got>>

(* Seeded fault: one bit too many. *)
BallocOneMore ==
    /\ pc = "bitmap"
    /\ IF freeblock < BPB
       THEN bitmap' = 0..freeblock /\ Goto("done")
       ELSE Goto("aborted") /\ UNCHANGED bitmap
    /\ UNCHANGED <<dinodes, index, data, freeblock, din, app, back, arg, got>>

(* balloc(freeblock), with its assertion that one bitmap block is enough. *)
Balloc ==
    /\ pc = "bitmap"
    /\ IF freeblock < BPB
       THEN bitmap' = 0..(freeblock - 1) /\ Goto("done")
       ELSE Goto("aborted") /\ UNCHANGED bitmap
    /\ UNCHANGED <<dinodes, index, data, freeblock, din, app, back, arg, got>>

(* The program has ended or is not followed further. *)
Exited == pc \in {"done", "failed", "aborted", "beyond"} /\ UNCHANGED vars

Next ==
    \/ AppendDirect \/ AppendIndirect \/ AppendBeyond \/ AppendAborts \/ AppendReturn
    \/ MakeRoot \/ EnterDots
    \/ OpenFile \/ OpenBeyond \/ OpenFails \/ CopyChunk \/ CloseFile
    \/ RoundRoot \/ Balloc
    \/ Exited

Spec == Init /\ [][Next]_vars

-----------------------------------------------------------------------------
(* Properties *)

Labels == {"root", "dot", "arg", "copy", "append", "bitmap",
           "done", "failed", "aborted", "beyond"}

Dinode == [type  : {"dir", "file"},
           size  : 0..((MAX_FILE + 1) * B_SIZE),
           addrs : [0..DIRECT_NUM -> {0} \cup Blocks]]
Units  == {Zero} \cup {Dirent(i, a) : i \in 1..MAXARG, a \in 0..MAXARG}
                 \cup {Copied(i, k) : i \in 2..MAXARG, k \in 1..MAXLEN}

(* Types; inodes lie in the table, the blocks handed out on the image, and *)
(* the bitmap marks nothing that was not handed out.                       *)
TypeOK ==
    /\ dinodes \in Seq(Dinode)
    /\ \A i \in DOMAIN dinodes : InTable(i)
    /\ index \in [Blocks -> [0..(INDIRECT_NUM - 1) -> {0} \cup Blocks]]
    /\ data \in [Blocks -> [0..(B_SIZE - 1) -> Units]]
    /\ bitmap \subseteq 0..(freeblock - 1)
    /\ freeblock \in meta_num..FS_SIZE
    /\ din \in Dinode
    /\ app \in [inum : Nat, off : Nat, left : Seq(Units)]
    /\ back \in Labels
    /\ arg \in 0..(MAXARG + 1)
    /\ got \in 0..MAXLEN
    /\ pc \in Labels

(* The inode of a file as iappend holds it while it works on that file. *)
Current(i) == IF pc = "append" /\ app.inum = i THEN din ELSE dinodes[i]
Tables     == {Current(i).addrs[DIRECT_NUM] : i \in DOMAIN dinodes} \ {0}

Uses(b) ==
      Cardinality({e \in (DOMAIN dinodes) \X (0..DIRECT_NUM) :
                      Current(e[1]).addrs[e[2]] = b})
    + Cardinality({e \in Tables \X (0..(INDIRECT_NUM - 1)) : index[e[1]][e[2]] = b})

(* The blocks handed out are the first of the data area; each is a block   *)
(* of one file or its index block, at one place: none is lost, and no two  *)
(* files, and no data and index, ever meet in a block.  (An append that is *)
(* broken off leaves blocks which no inode on the image names.)            *)
BlocksUsedOnce ==
    pc \notin {"aborted", "beyond"} =>
        \A b \in Blocks : Uses(b) = IF b < freeblock THEN 1 ELSE 0

(* In the finished image the bitmap marks the metadata and the blocks of   *)
(* the files, and nothing else.                                            *)
BitmapExact ==
    pc = "done" => bitmap = 0..(meta_num - 1) \cup {b \in Blocks : Uses(b) > 0}

(* What a reader of the image finds: the unit of file i at offset off.     *)
(* Block number 0 stands for a block of zeroes.                            *)
UnitAt(i, off) ==
    LET f == off \div B_SIZE
        a == dinodes[i].addrs
        b == IF f < DIRECT_NUM THEN a[f]
             ELSE IF f < MAX_FILE /\ a[DIRECT_NUM] # 0 THEN index[a[DIRECT_NUM]][f - DIRECT_NUM]
             ELSE 0
    IN IF b = 0 THEN Zero ELSE data[b][off % B_SIZE]
Content(i) == [k \in 1..dinodes[i].size |-> UnitAt(i, k - 1)]

(* Read back through its blocks, each file is the part copied so far, in   *)
(* order, whatever the sizes of the pieces; an append shows in full or, if *)
(* the program aborts in it, not at all, and changes no other file.        *)
Image == INSTANCE ImageSpec WITH files <- [i \in DOMAIN dinodes |-> Content(i)]
WritesFiles == Image!Spec

(* Between two arguments the root directory holds ".", ".." and one entry  *)
(* per file, with the right inode number, in the order of the arguments.   *)
RootNamesEveryFile ==
    pc \in {"arg", "bitmap", "done"} =>
        LET entries == Len(dinodes) + 1
        IN /\ dinodes[ROOT_INO].size >= entries
           /\ \A k \in 1..entries : Content(ROOT_INO)[k] =
                  IF k <= 2 THEN Dirent(ROOT_INO, k - 1) ELSE Dirent(k - 1, k - 1)
=============================================================================
