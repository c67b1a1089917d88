----------------------------- MODULE MkfsProofs -----------------------------
(***************************************************************************)
(* Theorems about Mkfs for every size of the image, of the blocks and of   *)
(* the files: no block is used twice or lost, every file reads back as     *)
(* what was copied, and the root directory names every file.  They say     *)
(* nothing of what the program does beyond the inode table and the image.  *)
(***************************************************************************)
EXTENDS Mkfs, FiniteSetTheorems, SequenceTheorems, TLAPS

-----------------------------------------------------------------------------
(* The inductive invariant *)

Slots  == 0..(INDIRECT_NUM - 1)
Cells  == 0..(B_SIZE - 1)
Calls  == [inum : Nat, off : Nat, left : Seq(Units)]

Types ==
    /\ dinodes \in Seq(Dinode)
    /\ index \in [Blocks -> [Slots -> {0} \cup Blocks]]
    /\ data \in [Blocks -> [Cells -> Units]]
    /\ bitmap \subseteq 0..(freeblock - 1)
    /\ freeblock \in meta_num..FS_SIZE
    /\ din \in Dinode
    /\ app \in Calls
    /\ back \in Labels
    /\ arg \in 0..(MAXARG + 1)
    /\ got \in 0..MAXLEN
    /\ pc \in Labels

(* Where a file keeps its block numbers: its direct blocks, its index      *)
(* block, and the entries of the index block.                              *)
Places == 0..MAX_FILE
Spot(i, p) ==
    LET a == Current(i).addrs
    IN IF p <= DIRECT_NUM THEN a[p]
       ELSE IF a[DIRECT_NUM] # 0 THEN index[a[DIRECT_NUM]][p - DIRECT_NUM - 1]
       ELSE 0
Spots == [i \in DOMAIN dinodes |-> [p \in Places |-> Spot(i, p)]]

(* The blocks before b are each at one place, and no other block is.       *)
Once(S) ==
    \A i, j \in DOMAIN S, p, q \in Places :
        S[i][p] = S[j][q] /\ S[i][p] # 0 => i = j /\ p = q
Owned(S, b) ==
    /\ Once(S)
    /\ \A i \in DOMAIN S, p \in Places : S[i][p] = 0 \/ S[i][p] \in meta_num..(b - 1)
    /\ \A x \in meta_num..(b - 1) : \E i \in DOMAIN S, p \in Places : S[i][p] = x

(* A block that is not handed out is as it was when the image was cleared. *)
Blank ==
    \A b \in Blocks : b >= freeblock =>
        /\ \A k \in Slots : index[b][k] = 0
        /\ \A k \in Cells : data[b][k] = Zero

(* The block of a file that holds its f-th block of data, and its unit at  *)
(* an offset, as iappend sees them.                                        *)
Place(f)   == IF f < DIRECT_NUM THEN f ELSE f + 1
BlockAt(i, f) == IF f < MAX_FILE THEN Spot(i, Place(f)) ELSE 0
Unit(i, o) ==
    LET b == BlockAt(i, o \div B_SIZE)
    IN IF b = 0 THEN Zero ELSE data[b][o % B_SIZE]

(* What belongs at an offset of a file, and how much of it is there.       *)
Offsets == 0..((MAX_FILE + 1) * B_SIZE)
Meant(i, o) == IF i = ROOT_INO THEN Dirent(IF o < 2 THEN ROOT_INO ELSE o, o)
               ELSE Copied(i, o + 1)
Padded   == pc \in {"bitmap", "done"}
Grown(i) == IF pc = "append" /\ app.inum = i THEN app.off
            ELSE IF i = ROOT_INO /\ Padded THEN arg
            ELSE dinodes[i].size

Filled == \A i \in DOMAIN dinodes, o \in Offsets :
              Unit(i, o) = IF o < Grown(i) THEN Meant(i, o) ELSE Zero

(* The part of a file before the append is found through the old inode.    *)
Settled ==
    pc = "append" => \A o \in Offsets : o < dinodes[app.inum].size =>
        LET f == o \div B_SIZE
            k == IF f < DIRECT_NUM THEN f ELSE DIRECT_NUM
        IN dinodes[app.inum].addrs[k] = din.addrs[k]

(* What iappend still has to write.                                        *)
Waiting ==
    pc = "append" => \A k \in 1..Len(app.left) :
        app.left[k] = Meant(app.inum, app.off + k - 1)

Count == Len(dinodes)
Total == app.off + Len(app.left)

(* How many inodes, entries of the root and units of the file in work      *)
(* there are.                                                              *)
Counts ==
    /\ pc = "root" => Count = 0 /\ arg = 0
    /\ pc # "root" => Count >= 1
    /\ pc = "dot" => Count = 1 /\ arg <= 1 /\ dinodes[ROOT_INO].size = arg
    /\ pc \in {"arg", "copy", "bitmap", "done"} => arg = Count + 1
    /\ pc \in {"arg", "copy"} => dinodes[ROOT_INO].size = arg
    /\ pc = "copy" => Count >= 2 /\ dinodes[Count].size = got
    /\ Padded => dinodes[ROOT_INO].size = (arg \div B_SIZE + 1) * B_SIZE

Appending ==
    pc = "append" =>
        /\ back \in {"dot", "arg", "copy"}
        /\ back = "dot" => app.inum = ROOT_INO /\ Count = 1 /\ arg = 1
        /\ back = "arg" => app.inum = ROOT_INO /\ Count = 1 /\ arg = 2
        /\ back = "copy" => Count >= 2 /\ arg = Count + 1 /\ app.inum \in {ROOT_INO, Count}
        /\ app.inum = ROOT_INO => /\ Total = arg /\ dinodes[ROOT_INO].size = arg - 1
                                  /\ back = "copy" => got = 0 /\ dinodes[Count].size = 0
        /\ app.inum # ROOT_INO => /\ Total = got /\ dinodes[ROOT_INO].size = arg
                                  /\ dinodes[Count].size < got
                                  /\ got <= dinodes[Count].size + B_SIZE
        /\ dinodes[app.inum].size <= app.off
        /\ app.off <= MAX_FILE * B_SIZE

Limits == \A i \in DOMAIN dinodes :
    dinodes[i].size <= MAX_FILE * B_SIZE \/ (i = ROOT_INO /\ Padded)

Marked == pc = "done" => bitmap = 0..(freeblock - 1)

Rules ==
    /\ Owned(Spots, freeblock)
    /\ Blank
    /\ Filled
    /\ Settled
    /\ Waiting
    /\ Counts
    /\ Appending
    /\ Limits
    /\ Marked

IInv == Types /\ (pc \notin {"aborted", "beyond"} => Rules)

-----------------------------------------------------------------------------
(* Lemmas: numbers *)

(* What the assumptions say of the sizes.                                  *)
LEMMA Sizes ==
    /\ B_SIZE \in Nat \ {0} /\ DIRECT_NUM \in Nat /\ INDIRECT_NUM \in Nat
    /\ MAX_FILE \in Nat /\ MAX_FILE = DIRECT_NUM + INDIRECT_NUM
    /\ MAXARG \in Nat \ {0} /\ MAXLEN \in Nat /\ FS_SIZE \in Nat
    /\ meta_num \in Nat \ {0} /\ meta_num <= FS_SIZE
  <1>1. /\ B_SIZE \in Nat \ {0} /\ DIRECT_NUM \in Nat /\ INDIRECT_NUM \in Nat
        /\ MAXARG \in Nat \ {0} /\ MAXLEN \in Nat /\ FS_SIZE \in Nat /\ LOG_SIZE \in Nat
        /\ INODES_NUM \in Nat /\ IPB \in Nat \ {0} /\ BPB \in Nat \ {0}
    BY SizeAssumption
  <1>2. inode_blocks_num \in Nat /\ bitmap_num \in Nat
    <2>1. \A n \in Nat, d \in Nat \ {0} : n \div d + 1 \in Nat
      OBVIOUS
    <2> QED BY <1>1, <2>1 DEF inode_blocks_num, bitmap_num
  <1>3. meta_num \in Nat \ {0}
    BY <1>1, <1>2 DEF meta_num
  <1> QED BY <1>1, <1>3, RoomAssumption DEF MAX_FILE

(* Offsets, blocks and cells.                                              *)
LEMMA Division ==
    ASSUME NEW B \in Nat \ {0}, NEW o \in Nat
    PROVE  /\ o \div B \in Nat /\ o % B \in 0..(B - 1)
           /\ o = B * (o \div B) + (o % B)
           /\ B * (o \div B) <= o /\ o < B * (o \div B) + B
  <1>1. o \div B \in Nat
    OBVIOUS
  <1>2. o % B \in 0..(B - 1)
    OBVIOUS
  <1>3. o = B * (o \div B) + (o % B)
    OBVIOUS
  <1>4. PICK m \in Nat : m = B * (o \div B)
    BY <1>1
  <1>5. m <= o /\ o < m + B
    BY <1>2, <1>3, <1>4
  <1> QED BY <1>1, <1>2, <1>3, <1>4, <1>5

(* An offset below the end of block f is in one of the first blocks.       *)
LEMMA Below ==
    ASSUME NEW B \in Nat \ {0}, NEW o \in Nat, NEW f \in Nat
    PROVE  /\ o < f * B <=> o \div B < f
           /\ (f + 1) * B = f * B + B
  <1>1. PICK q \in Nat, r \in 0..(B - 1) : q = o \div B /\ r = o % B /\ o = B * q + r
    BY Division
  <1>2. q < f => o < f * B
    <2> SUFFICES ASSUME q < f PROVE o < f * B
      OBVIOUS
    <2>1. q + 1 <= f
      OBVIOUS
    <2>2. (q + 1) * B <= f * B
      BY <2>1
    <2>3. (q + 1) * B = B * q + B
      OBVIOUS
    <2> QED BY <1>1, <2>2, <2>3
  <1>3. ~(q < f) => ~(o < f * B)
    <2> SUFFICES ASSUME f <= q PROVE f * B <= o
      BY <1>1
    <2>1. f * B <= q * B
      OBVIOUS
    <2>2. q * B = B * q
      OBVIOUS
    <2> QED BY <1>1, <2>1, <2>2
  <1>4. (f + 1) * B = f * B + B
    OBVIOUS
  <1> QED BY <1>1, <1>2, <1>3, <1>4

(* Two offsets in one block differ as their cells do.                      *)
LEMMA SameBlock ==
    ASSUME NEW B \in Nat \ {0}, NEW o \in Nat, NEW u \in Nat, o \div B = u \div B
    PROVE  o - u = (o % B) - (u % B)
  <1>1. PICK q \in Nat, r \in 0..(B - 1), s \in 0..(B - 1) :
           /\ q = o \div B /\ r = o % B /\ o = B * q + r
           /\ s = u % B /\ u = B * q + s
    BY Division
  <1>2. PICK m \in Nat : m = B * q
    OBVIOUS
  <1>3. o = m + r /\ u = m + s
    BY <1>1, <1>2
  <1>4. o - u = r - s
    BY <1>3
  <1> QED BY <1>1, <1>4

(* What is written before the end of a block stays in it.                  *)
LEMMA InBlock ==
    ASSUME NEW B \in Nat \ {0}, NEW u \in Nat, NEW n \in Nat,
           n <= (u \div B + 1) * B - u, NEW o \in Nat, u <= o, o < u + n
    PROVE  o \div B = u \div B
  <1>1. PICK q \in Nat : q = u \div B /\ B * q <= u
    BY Division
  <1>2. (q + 1) * B = q * B + B /\ q * B = B * q
    OBVIOUS
  <1>3. PICK m \in Nat : m = q * B
    OBVIOUS
  <1>4. m <= o /\ o < m + B
    BY <1>1, <1>2, <1>3
  <1>5. ~(o < q * B) /\ o < (q + 1) * B
    BY <1>2, <1>3, <1>4
  <1>6. o \div B \in Nat /\ ~(o \div B < q) /\ o \div B < q + 1
    <2>1. \A f \in Nat : (o < f * B <=> o \div B < f)
      BY Below
    <2>2. q \in Nat /\ q + 1 \in Nat /\ o \div B \in Nat
      BY Division
    <2> QED BY <1>5, <2>1, <2>2
  <1> QED BY <1>1, <1>6

-----------------------------------------------------------------------------
(* Lemmas: types *)

(* The types of what the variables hold.                                   *)
LEMMA Kinds ==
    ASSUME Types
    PROVE  /\ 0 \notin Blocks /\ \A b \in Blocks : b \in Nat /\ meta_num <= b /\ b < FS_SIZE
           /\ freeblock \in Nat /\ meta_num <= freeblock /\ freeblock <= FS_SIZE
           /\ Count \in Nat /\ DOMAIN dinodes = 1..Count
           /\ \A i \in DOMAIN dinodes :
                 /\ i \in Nat /\ dinodes[i] \in Dinode /\ dinodes[i].size \in Nat
                 /\ dinodes[i].addrs \in [0..DIRECT_NUM -> {0} \cup Blocks]
           /\ din.addrs \in [0..DIRECT_NUM -> {0} \cup Blocks]
           /\ app.inum \in Nat /\ app.off \in Nat /\ app.left \in Seq(Units)
           /\ Len(app.left) \in Nat /\ Total \in Nat
           /\ arg \in Nat /\ got \in Nat
  <1>1. 0 \notin Blocks /\ \A b \in Blocks : b \in Nat /\ meta_num <= b /\ b < FS_SIZE
    BY Sizes DEF Blocks
  <1>2. freeblock \in Nat /\ meta_num <= freeblock /\ freeblock <= FS_SIZE
    BY Sizes DEF Types
  <1>3. /\ Count \in Nat /\ DOMAIN dinodes = 1..Count
        /\ \A i \in DOMAIN dinodes : dinodes[i] \in Dinode
    BY DEF Types, Count
  <1>4. \A d \in Dinode : d.size \in Nat /\ d.addrs \in [0..DIRECT_NUM -> {0} \cup Blocks]
    <2>1. (MAX_FILE + 1) * B_SIZE \in Nat
      BY Sizes
    <2> QED BY <2>1 DEF Dinode
  <1>5. din.addrs \in [0..DIRECT_NUM -> {0} \cup Blocks]
    BY <1>4 DEF Types
  <1>6. app.inum \in Nat /\ app.off \in Nat /\ app.left \in Seq(Units)
    BY DEF Types, Calls
  <1>7. Len(app.left) \in Nat /\ Total \in Nat
    BY <1>6 DEF Total
  <1>8. arg \in Nat /\ got \in Nat
    BY Sizes DEF Types
  <1>9. \A i \in 1..Count : i \in Nat
    BY <1>3
  <1> QED BY <1>1, <1>2, <1>3, <1>4, <1>5, <1>6, <1>7, <1>8, <1>9

(* The inode that iappend changes, and all others.                         *)
LEMMA Currents ==
    ASSUME Types, NEW i \in DOMAIN dinodes
    PROVE  /\ Current(i).addrs \in [0..DIRECT_NUM -> {0} \cup Blocks]
           /\ pc = "append" /\ app.inum = i => Current(i) = din
           /\ pc # "append" \/ app.inum # i => Current(i) = dinodes[i]
  BY Kinds DEF Current

(* Every place holds a block number or nothing.                            *)
LEMMA SpotKinds ==
    ASSUME Types, NEW i \in DOMAIN dinodes, NEW p \in Places
    PROVE  /\ Spot(i, p) \in {0} \cup Blocks /\ Spots[i][p] = Spot(i, p)
           /\ DOMAIN Spots = DOMAIN dinodes
           /\ p <= DIRECT_NUM => Spot(i, p) = Current(i).addrs[p] /\ p \in 0..DIRECT_NUM
           /\ ~(p <= DIRECT_NUM) =>
                 /\ p - DIRECT_NUM - 1 \in Slots
                 /\ Spot(i, DIRECT_NUM) # 0 =>
                       Spot(i, p) = index[Spot(i, DIRECT_NUM)][p - DIRECT_NUM - 1]
                 /\ Spot(i, DIRECT_NUM) = 0 => Spot(i, p) = 0
           /\ DIRECT_NUM \in Places
           /\ Spot(i, DIRECT_NUM) = Current(i).addrs[DIRECT_NUM]
           /\ Spot(i, DIRECT_NUM) \in {0} \cup Blocks
  <1>1. /\ p <= DIRECT_NUM => p \in 0..DIRECT_NUM
        /\ ~(p <= DIRECT_NUM) => p - DIRECT_NUM - 1 \in Slots
        /\ DIRECT_NUM \in Places /\ DIRECT_NUM \in 0..DIRECT_NUM /\ DIRECT_NUM <= DIRECT_NUM
    BY Sizes DEF Places, Slots
  <1>2. p <= DIRECT_NUM => Spot(i, p) = Current(i).addrs[p]
    BY DEF Spot
  <1>3. Spot(i, DIRECT_NUM) = Current(i).addrs[DIRECT_NUM]
    BY <1>1 DEF Spot
  <1>4. ~(p <= DIRECT_NUM) =>
                 /\ Spot(i, DIRECT_NUM) # 0 =>
                       Spot(i, p) = index[Spot(i, DIRECT_NUM)][p - DIRECT_NUM - 1]
                 /\ Spot(i, DIRECT_NUM) = 0 => Spot(i, p) = 0
    BY <1>3 DEF Spot
  <1>5. Current(i).addrs \in [0..DIRECT_NUM -> {0} \cup Blocks]
    BY Currents
  <1>6. Spot(i, DIRECT_NUM) \in {0} \cup Blocks
    BY <1>1, <1>3, <1>5
  <1>7. index \in [Blocks -> [Slots -> {0} \cup Blocks]]
    BY DEF Types
  <1>8. Spot(i, p) \in {0} \cup Blocks
    BY <1>1, <1>2, <1>4, <1>5, <1>6, <1>7
  <1>9. Spots[i][p] = Spot(i, p) /\ DOMAIN Spots = DOMAIN dinodes
    BY DEF Spots
  <1> QED BY <1>1, <1>2, <1>3, <1>4, <1>6, <1>8, <1>9

-----------------------------------------------------------------------------
(* Lemmas: blocks *)

(* A place that was empty takes the next block.                            *)
LEMMA Takes ==
    ASSUME NEW S, NEW b \in Nat, meta_num <= b, Owned(S, b),
           NEW i0 \in DOMAIN S, NEW p0 \in Places, S[i0][p0] = 0,
           NEW T, DOMAIN T = DOMAIN S, T[i0][p0] = b,
           \A i \in DOMAIN S, p \in Places : i # i0 \/ p # p0 => T[i][p] = S[i][p]
    PROVE  Owned(T, b + 1)
  <1>1. meta_num \in Nat \ {0}
    BY Sizes
  <1>2. /\ meta_num..(b + 1 - 1) = meta_num..(b - 1) \cup {b}
        /\ b \notin meta_num..(b - 1) /\ b # 0
    BY <1>1
  <1>3. /\ Once(S)
        /\ \A i \in DOMAIN S, p \in Places : S[i][p] = 0 \/ S[i][p] \in meta_num..(b - 1)
        /\ \A x \in meta_num..(b - 1) : \E i \in DOMAIN S, p \in Places : S[i][p] = x
    BY DEF Owned
  <1>4. \A i \in DOMAIN S, p \in Places : S[i][p] # b
    BY <1>2, <1>3
  <1>5. Once(T)
    <2> SUFFICES ASSUME NEW i \in DOMAIN S, NEW j \in DOMAIN S, NEW p \in Places, NEW q \in Places,
                        T[i][p] = T[j][q], T[i][p] # 0
                 PROVE  i = j /\ p = q
      BY DEF Once
    <2>1. CASE i = i0 /\ p = p0
      BY <1>4, <2>1
    <2>2. CASE j = i0 /\ q = p0
      BY <1>4, <2>2
    <2>3. CASE (i # i0 \/ p # p0) /\ (j # i0 \/ q # p0)
      BY <1>3, <2>3 DEF Once
    <2> QED BY <2>1, <2>2, <2>3
  <1>6. \A i \in DOMAIN T, p \in Places : T[i][p] = 0 \/ T[i][p] \in meta_num..(b + 1 - 1)
    <2> SUFFICES ASSUME NEW i \in DOMAIN S, NEW p \in Places
                 PROVE  T[i][p] = 0 \/ T[i][p] \in meta_num..(b - 1) \cup {b}
      BY <1>2
    <2> QED BY <1>3
  <1>7. \A x \in meta_num..(b + 1 - 1) : \E i \in DOMAIN T, p \in Places : T[i][p] = x
    <2> SUFFICES ASSUME NEW x \in meta_num..(b - 1) \cup {b}
                 PROVE  \E i \in DOMAIN S, p \in Places : T[i][p] = x
      BY <1>2
    <2>1. CASE x = b
      BY <2>1
    <2>2. CASE x \in meta_num..(b - 1)
      <3>1. PICK i \in DOMAIN S, p \in Places : S[i][p] = x
        BY <1>3, <2>2
      <3>2. x # 0
        BY <1>1, <2>2
      <3>3. i # i0 \/ p # p0
        BY <3>1, <3>2
      <3> QED BY <3>1, <3>3
    <2> QED BY <2>1, <2>2
  <1> QED BY <1>5, <1>6, <1>7 DEF Owned

(* Nothing is taken.                                                       *)
LEMMA SameOwned ==
    ASSUME NEW S, NEW b, Owned(S, b), NEW T, DOMAIN T = DOMAIN S,
           \A i \in DOMAIN S, p \in Places : T[i][p] = S[i][p]
    PROVE  Owned(T, b)
  <1>1. Once(T)
    BY DEF Owned, Once
  <1> QED BY <1>1 DEF Owned

(* What a block of a file is, and that no two are the same.                *)
LEMMA Held ==
    ASSUME Types, Owned(Spots, freeblock), NEW i \in DOMAIN dinodes, NEW f \in Nat
    PROVE  /\ f < MAX_FILE => Place(f) \in Places /\ BlockAt(i, f) = Spot(i, Place(f))
           /\ ~(f < MAX_FILE) => BlockAt(i, f) = 0
           /\ BlockAt(i, f) \in {0} \cup Blocks
           /\ BlockAt(i, f) # 0 => BlockAt(i, f) < freeblock
           /\ \A j \in DOMAIN dinodes, g \in Nat :
                 BlockAt(i, f) = BlockAt(j, g) /\ BlockAt(i, f) # 0 => i = j /\ f = g
  <1>1. \A g \in Nat : g < MAX_FILE => Place(g) \in Places
    BY Sizes DEF Place, Places
  <1>2. \A g, h \in Nat : Place(g) = Place(h) => g = h
    BY Sizes DEF Place
  <1>3. \A j, g : /\ g < MAX_FILE => BlockAt(j, g) = Spot(j, Place(g))
                  /\ ~(g < MAX_FILE) => BlockAt(j, g) = 0
    BY DEF BlockAt
  <1>4. \A j \in DOMAIN dinodes, p \in Places :
           Spots[j][p] = Spot(j, p) /\ Spot(j, p) \in {0} \cup Blocks
    BY SpotKinds
  <1>5. /\ DOMAIN Spots = DOMAIN dinodes /\ Once(Spots)
        /\ \A j \in DOMAIN Spots, p \in Places :
              Spots[j][p] = 0 \/ Spots[j][p] \in meta_num..(freeblock - 1)
    BY DEF Spots, Owned
  <1>6. BlockAt(i, f) \in {0} \cup Blocks
    BY <1>1, <1>3, <1>4
  <1>7. BlockAt(i, f) # 0 => BlockAt(i, f) < freeblock
    <2>1. \A x \in meta_num..(freeblock - 1) : x < freeblock
      BY Kinds, Sizes
    <2> QED BY <1>1, <1>3, <1>4, <1>5, <2>1
  <1>8. ASSUME NEW j \in DOMAIN dinodes, NEW g \in Nat, BlockAt(i, f) = BlockAt(j, g),
               BlockAt(i, f) # 0
        PROVE  i = j /\ f = g
    <2>1. f < MAX_FILE /\ g < MAX_FILE
      BY <1>3, <1>8
    <2>2. /\ Place(f) \in Places /\ Place(g) \in Places
          /\ Spots[i][Place(f)] = Spots[j][Place(g)] /\ Spots[i][Place(f)] # 0
      BY <1>1, <1>3, <1>4, <1>8, <2>1
    <2>3. i = j /\ Place(f) = Place(g)
      BY <1>5, <2>2 DEF Once
    <2> QED BY <1>2, <2>3
  <1> QED BY <1>1, <1>3, <1>6, <1>7, <1>8

(* The part of the units that fits into the block in work.                 *)
LEMMA Chunk ==
    ASSUME Types, app.left # <<>>
    PROVE  /\ fbn \in Nat /\ n1 \in Nat /\ 1 <= n1 /\ n1 <= Len(app.left)
           /\ n1 <= (fbn + 1) * B_SIZE - app.off
  <1>1. /\ app.off \in Nat /\ app.left \in Seq(Units) /\ Len(app.left) \in Nat
        /\ B_SIZE \in Nat \ {0}
    BY Kinds, Sizes
  <1>2. Len(app.left) >= 1
    BY <1>1
  <1>3. fbn \in Nat /\ app.off < B_SIZE * fbn + B_SIZE
    BY <1>1, Division DEF fbn
  <1>4. PICK r : r = (fbn + 1) * B_SIZE - app.off
    OBVIOUS
  <1>5. r \in Nat /\ 1 <= r
    <2>1. (fbn + 1) * B_SIZE = B_SIZE * fbn + B_SIZE
      BY <1>1, <1>3
    <2>2. PICK m \in Nat : m = B_SIZE * fbn
      BY <1>1, <1>3
    <2> QED BY <1>1, <1>3, <1>4, <2>1, <2>2
  <1>6. \A x, y \in Nat : /\ Min({x, y}) \in {x, y}
                          /\ Min({x, y}) <= x /\ Min({x, y}) <= y
    <2> SUFFICES ASSUME NEW x \in Nat, NEW y \in Nat
                 PROVE  Min({x, y}) \in {x, y} /\ Min({x, y}) <= x /\ Min({x, y}) <= y
      OBVIOUS
    <2>1. \E z \in {x, y} : \A w \in {x, y} : z =< w
      <3>1. CASE x <= y
        BY <3>1
      <3>2. CASE y <= x
        BY <3>2
      <3> QED BY <3>1, <3>2
    <2>2. Min({x, y}) \in {x, y} /\ \A w \in {x, y} : Min({x, y}) =< w
      BY <2>1 DEF Min
    <2> QED BY <2>2
  <1>7. n1 = Min({Len(app.left), r})
    BY <1>4 DEF n1
  <1> QED BY <1>1, <1>2, <1>3, <1>4, <1>5, <1>6, <1>7

(* No unit of a file is one that was never written.                        *)
LEMMA NotZero == \A i, o : Meant(i, o) # Zero
  <1>1. \A i, o : Dirent(i, o) # Zero /\ Copied(i, o) # Zero
    BY DEF Dirent, Copied, Zero
  <1> QED BY <1>1 DEF Meant

(* The first blocks of a file are where its units are.                     *)
LEMMA Reached ==
    ASSUME Types, Filled, NEW i \in DOMAIN dinodes, NEW o \in Offsets, o < Grown(i)
    PROVE  BlockAt(i, o \div B_SIZE) # 0
  <1>1. Unit(i, o) # Zero
    BY NotZero DEF Filled
  <1> QED BY <1>1 DEF Unit

(* One round of iappend, once the block x for the units is there.          *)
LEMMA Written ==
    ASSUME IInv, pc = "append", app.left # <<>>,
           NEW i0, i0 = app.inum, NEW f0, f0 = fbn, f0 < MAX_FILE,
           NEW x \in Blocks, WriteUnits(x), UNCHANGED <<dinodes, bitmap, back, arg, got, pc>>,
           din' \in Dinode, index' \in [Blocks -> [Slots -> {0} \cup Blocks]],
           freeblock' \in meta_num..FS_SIZE, freeblock <= freeblock', x < freeblock',
           Owned(Spots', freeblock'),
           BlockAt(i0, f0)' = x, BlockAt(i0, f0) = x \/ (BlockAt(i0, f0) = 0 /\ freeblock <= x),
           \A i \in DOMAIN dinodes, f \in Nat : i # i0 \/ f # f0 =>
               BlockAt(i, f)' = BlockAt(i, f) /\ BlockAt(i, f) # x,
           \A b \in Blocks : b >= freeblock' => index'[b] = index[b],
           \A k \in 0..DIRECT_NUM : din.addrs[k] # 0 => din'.addrs[k] = din.addrs[k]
    PROVE  IInv'
  <1>1. /\ Types /\ Owned(Spots, freeblock) /\ Blank /\ Filled /\ Settled /\ Waiting
        /\ Counts /\ Appending /\ Limits /\ Marked
    BY DEF IInv, Rules
  <1>2. PICK B, u, n, L, units : B = B_SIZE /\ u = app.off /\ n = n1 /\ L = Len(app.left)
                                 /\ units = app.left
    OBVIOUS
  <1>3. /\ B \in Nat \ {0} /\ u \in Nat /\ n \in Nat /\ L \in Nat /\ 1 <= n /\ n <= L
        /\ units \in Seq(Units) /\ L = Len(units)
        /\ f0 \in Nat /\ f0 = u \div B /\ n <= (f0 + 1) * B - u
    <2>1. /\ B \in Nat \ {0} /\ u \in Nat /\ L \in Nat /\ units \in Seq(Units)
          /\ L = Len(units)
      BY <1>1, <1>2, Kinds, Sizes
    <2>2. fbn = app.off \div B_SIZE
      BY DEF fbn
    <2>3. /\ fbn \in Nat /\ n1 \in Nat /\ 1 <= n1 /\ n1 <= Len(app.left)
          /\ n1 <= (fbn + 1) * B_SIZE - app.off
      BY <1>1, Chunk
    <2> QED BY <1>2, <2>1, <2>2, <2>3
  <1>4. PICK c \in 0..(B - 1) : c = u % B
    BY <1>3, Division
  <1>5. /\ i0 \in DOMAIN dinodes /\ DOMAIN dinodes' = DOMAIN dinodes
        /\ \A i \in DOMAIN dinodes : i # i0 => Grown(i)' = Grown(i)
        /\ Grown(i0) = u
    <2>1. i0 \in DOMAIN dinodes
      <3>1. app.inum = ROOT_INO \/ app.inum = Count
        BY <1>1 DEF Appending
      <3>2. Count \in Nat /\ Count >= 1 /\ DOMAIN dinodes = 1..Count
        BY <1>1, Kinds DEF Counts
      <3> QED BY <3>1, <3>2 DEF ROOT_INO
    <2>2. app'.inum = i0
      BY <1>1 DEF WriteUnits, Types, Calls
    <2>3. \A i \in DOMAIN dinodes : i # i0 => Grown(i)' = Grown(i)
      BY <2>2 DEF Grown, Padded
    <2> QED BY <1>2, <2>1, <2>3 DEF Grown
  <1>6. /\ app' = [app EXCEPT !.off = u + n, !.left = SubSeq(units, n + 1, L)]
        /\ data' = [data EXCEPT ![x] = [k \in Cells |->
                       IF k - c \in 0..(n - 1) THEN units[k - c + 1] ELSE data[x][k]]]
    BY <1>2, <1>4 DEF WriteUnits, Cells
  <1>7. /\ app'.inum = i0 /\ app'.off = u + n /\ app'.left = SubSeq(units, n + 1, L)
        /\ app' \in Calls /\ Len(app'.left) = L - n
        /\ \A k \in 1..(L - n) : app'.left[k] = units[n + k]
    <2>1. app \in Calls
      BY <1>1 DEF Types
    <2>2. PICK w : w = SubSeq(units, n + 1, L)
      OBVIOUS
    <2>3. /\ w \in Seq(Units) /\ Len(w) = L - n
          /\ \A k \in 1..(L - n) : w[k] = units[n + k]
      BY <1>3, <2>2
    <2>4. u + n \in Nat
      <3>1. u \in Nat /\ n \in Nat
        BY <1>3
      <3> QED BY <3>1
    <2>5. app'.inum = i0 /\ app'.off = u + n /\ app'.left = w /\ app' \in Calls
      BY <1>6, <2>1, <2>2, <2>3, <2>4 DEF Calls
    <2> QED BY <2>2, <2>3, <2>5
  <1>8. Total' = Total
    <2>1. Total = u + L /\ Total' = u + n + (L - n)
      BY <1>2, <1>7 DEF Total
    <2>2. u \in Nat /\ n \in Nat /\ L \in Nat
      BY <1>3
    <2> QED BY <2>1, <2>2
  <1>9. /\ data' \in [Blocks -> [Cells -> Units]]
        /\ \A b \in Blocks : b # x => data'[b] = data[b]
        /\ \A k \in Cells : data'[x][k] =
              IF k - c \in 0..(n - 1) THEN units[k - c + 1] ELSE data[x][k]
    <2>1. data \in [Blocks -> [Cells -> Units]]
      BY <1>1 DEF Types
    <2>2. PICK w : w = [k \in Cells |->
                          IF k - c \in 0..(n - 1) THEN units[k - c + 1] ELSE data[x][k]]
      OBVIOUS
    <2>3. w \in [Cells -> Units]
      <3>1. ASSUME NEW k \in Cells, k - c \in 0..(n - 1) PROVE units[k - c + 1] \in Units
        <4>1. k - c + 1 \in 1..L
          BY <1>3, <3>1
        <4> QED BY <1>3, <4>1
      <3> QED BY <2>1, <2>2, <3>1
    <2>4. data' = [data EXCEPT ![x] = w]
      BY <1>6, <2>2
    <2>5. data' \in [Blocks -> [Cells -> Units]] /\ data'[x] = w
          /\ \A b \in Blocks : b # x => data'[b] = data[b]
      BY <2>1, <2>3, <2>4
    <2> QED BY <2>2, <2>5
  <1>10. Types'
    <2>1. bitmap' \subseteq 0..(freeblock' - 1)
      <3>1. freeblock \in Nat /\ freeblock' \in Nat
        BY <1>1, Kinds, Sizes
      <3>2. 0..(freeblock - 1) \subseteq 0..(freeblock' - 1)
        BY <3>1
      <3> QED BY <1>1, <3>2 DEF Types
    <2> QED BY <1>1, <1>7, <1>9, <2>1 DEF Types
  <1>11. Blank'
    <2> SUFFICES ASSUME NEW b \in Blocks, b >= freeblock'
                 PROVE  /\ \A k \in Slots : index'[b][k] = 0
                        /\ \A k \in Cells : data'[b][k] = Zero
      BY DEF Blank
    <2>1. b >= freeblock /\ b # x
      <3>1. freeblock \in Nat /\ freeblock' \in Nat /\ b \in Nat /\ x \in Nat
        BY <1>1, Kinds, Sizes
      <3> QED BY <3>1
    <2> QED BY <1>1, <1>9, <2>1, SMTT(60) DEF Blank
  <1>12. Filled'
    <2> SUFFICES ASSUME NEW i \in DOMAIN dinodes, NEW o \in Offsets
                 PROVE  Unit(i, o)' = IF o < Grown(i)' THEN Meant(i, o) ELSE Zero
      BY <1>5 DEF Filled
    <2>1. o \in Nat /\ o \div B \in Nat /\ o % B \in Cells
      <3>1. o \in Nat
        BY Sizes DEF Offsets
      <3> QED BY <1>2, <1>3, <3>1, Division DEF Cells
    <2>2. Unit(i, o) = IF o < Grown(i) THEN Meant(i, o) ELSE Zero
      BY <1>1 DEF Filled
    <2>3. /\ Unit(i, o) = IF BlockAt(i, o \div B) = 0 THEN Zero
                          ELSE data[BlockAt(i, o \div B)][o % B]
          /\ Unit(i, o)' = IF BlockAt(i, o \div B)' = 0 THEN Zero
                           ELSE data'[BlockAt(i, o \div B)'][o % B]
      BY <1>2 DEF Unit
    <2>4. Grown(i0)' = u + n
      BY <1>7 DEF Grown
    <2>5. CASE i = i0 /\ o \div B = f0
      <3>1. Unit(i, o)' = data'[x][o % B]
        <4>1. x # 0
          BY <1>1, Kinds
        <4> QED BY <2>3, <2>5, <4>1
      <3>2. o - u = (o % B) - c
        <4>1. o \div B = u \div B
          BY <1>3, <2>5
        <4>2. o - u = (o % B) - (u % B)
          BY <1>3, <2>1, <4>1, SameBlock
        <4> QED BY <1>4, <4>2
      <3>3. CASE u <= o /\ o < u + n
        <4>1. (o % B) - c \in 0..(n - 1) /\ (o % B) - c + 1 = o - u + 1
          <5>1. PICK y : y = o - u
            OBVIOUS
          <5>2. y \in 0..(n - 1)
            BY <1>3, <2>1, <3>3, <5>1
          <5> QED BY <3>2, <5>1, <5>2
        <4>2. Unit(i, o)' = units[o - u + 1]
          BY <1>9, <2>1, <3>1, <4>1
        <4>3. o - u + 1 \in 1..L /\ u + (o - u + 1) - 1 = o
          BY <1>3, <2>1, <3>3
        <4>4. units[o - u + 1] = Meant(i, o)
          BY <1>1, <1>2, <2>5, <4>3 DEF Waiting
        <4> QED BY <2>4, <2>5, <3>3, <4>2, <4>4
      <3>4. CASE ~(u <= o /\ o < u + n)
        <4>1. (o % B) - c \notin 0..(n - 1)
          BY <1>3, <2>1, <3>2, <3>4
        <4>2. Unit(i, o)' = data[x][o % B]
          BY <1>9, <2>1, <3>1, <4>1
        <4>3. data[x][o % B] = Unit(i, o)
          <5>1. CASE BlockAt(i0, f0) = x
            <6>1. x # 0
              BY <1>1, Kinds
            <6> QED BY <2>3, <2>5, <5>1, <6>1
          <5>2. CASE BlockAt(i0, f0) = 0 /\ freeblock <= x
            <6>1. x >= freeblock
              BY <1>1, <5>2, Kinds
            <6> QED BY <1>1, <2>1, <2>3, <2>5, <5>2, <6>1 DEF Blank
          <5> QED BY <5>1, <5>2
        <4>4. o < u <=> o < u + n
          BY <1>3, <2>1, <3>4
        <4> QED BY <1>5, <2>2, <2>4, <2>5, <4>2, <4>3, <4>4
      <3> QED BY <3>3, <3>4
    <2>6. CASE i # i0 \/ o \div B # f0
      <3>1. BlockAt(i, o \div B)' = BlockAt(i, o \div B) /\ BlockAt(i, o \div B) # x
        BY <2>1, <2>6
      <3>2. BlockAt(i, o \div B) \in {0} \cup Blocks
        BY <1>1, <2>1, Held
      <3>3. Unit(i, o)' = Unit(i, o)
        BY <1>9, <2>3, <3>1, <3>2
      <3>4. o < Grown(i) <=> o < Grown(i)'
        <4>1. CASE i # i0
          BY <1>5, <4>1
        <4>2. CASE i = i0
          <5>1. ~(u <= o /\ o < u + n)
            <6>1. u <= o /\ o < u + n => o \div B = u \div B
              BY <1>3, <2>1, InBlock
            <6> QED BY <1>3, <2>6, <4>2, <6>1
          <5>2. o < u <=> o < u + n
            BY <1>3, <2>1, <5>1
          <5> QED BY <1>5, <2>4, <4>2, <5>2
        <4> QED BY <4>1, <4>2
      <3> QED BY <2>2, <3>3, <3>4
    <2> QED BY <2>5, <2>6
  <1>13. Settled'
    <2> SUFFICES ASSUME NEW o \in Offsets, o < dinodes[i0].size
                 PROVE  LET f == o \div B_SIZE
                            k == IF f < DIRECT_NUM THEN f ELSE DIRECT_NUM
                        IN dinodes[i0].addrs[k] = din'.addrs[k]
      BY <1>7 DEF Settled
    <2> DEFINE f == o \div B_SIZE
               k == IF f < DIRECT_NUM THEN f ELSE DIRECT_NUM
    <2>1. dinodes[i0].addrs[k] = din.addrs[k]
      BY <1>1 DEF Settled
    <2>2. f \in Nat
      <3>1. o \in Nat /\ B_SIZE \in Nat \ {0}
        BY Sizes DEF Offsets
      <3> QED BY <3>1, Division
    <2> HIDE DEF f
    <2>3. k \in 0..DIRECT_NUM
      BY <2>2, Sizes
    <2>4. BlockAt(i0, f) # 0
      <3>1. dinodes[i0].size \in Nat /\ dinodes[i0].size <= u /\ o \in Nat
        <4>1. dinodes[i0].size \in Nat
          BY <1>1, <1>5, Kinds
        <4>2. o \in Nat
          BY Sizes DEF Offsets
        <4>3. dinodes[i0].size <= u
          BY <1>1, <1>2 DEF Appending
        <4> QED BY <4>1, <4>2, <4>3
      <3>2. o < Grown(i0)
        BY <1>3, <1>5, <3>1
      <3> QED BY <1>1, <1>5, <3>2, Reached DEF f
    <2>5. din.addrs[k] # 0
      <3>1. BlockAt(i0, f) = Spot(i0, Place(f)) /\ Place(f) \in Places
        BY <1>1, <1>5, <2>2, <2>4, Held
      <3>2. Current(i0) = din
        BY <1>1, <1>5, Currents
      <3>3. CASE f < DIRECT_NUM
        <4>1. Place(f) = f /\ f <= DIRECT_NUM
          BY <2>2, <3>3, Sizes DEF Place
        <4> QED BY <2>4, <3>1, <3>2, <3>3, <4>1 DEF Spot
      <3>4. CASE ~(f < DIRECT_NUM)
        <4>1. Place(f) = f + 1 /\ ~(f + 1 <= DIRECT_NUM)
          BY <2>2, <3>4, Sizes DEF Place
        <4> QED BY <2>4, <3>1, <3>2, <3>4, <4>1 DEF Spot
      <3> QED BY <3>3, <3>4
    <2> HIDE DEF k
    <2>6. dinodes[i0].addrs[k] = din'.addrs[k]
      BY <2>1, <2>3, <2>5
    <2> QED BY <2>6 DEF f, k
  <1>14. Waiting'
    <2> SUFFICES ASSUME NEW k \in 1..(L - n)
                 PROVE  app'.left[k] = Meant(i0, u + n + k - 1)
      BY <1>7 DEF Waiting
    <2>1. n + k \in 1..L /\ u + (n + k) - 1 = u + n + k - 1
      BY <1>3
    <2>2. units[n + k] = Meant(i0, u + (n + k) - 1)
      BY <1>1, <1>2, <2>1 DEF Waiting
    <2> QED BY <1>7, <2>1, <2>2
  <1>15. Counts' /\ Limits' /\ Marked'
    BY <1>1 DEF Counts, Limits, Marked, Count, Padded
  <1>16. Appending'
    <2>1. u + n <= MAX_FILE * B
      <3>1. (f0 + 1) * B <= MAX_FILE * B
        <4>1. \A x1, y1 \in Nat : x1 <= y1 => x1 * B <= y1 * B
          BY <1>3
        <4>2. f0 + 1 \in Nat /\ MAX_FILE \in Nat /\ f0 + 1 <= MAX_FILE
          BY <1>3, Sizes
        <4> QED BY <4>1, <4>2
      <3>2. PICK y \in Nat, m \in Nat : y = (f0 + 1) * B /\ m = MAX_FILE * B
        <4>1. \A a, b \in Nat : a * b \in Nat
          OBVIOUS
        <4>2. B \in Nat /\ f0 + 1 \in Nat /\ MAX_FILE \in Nat
          BY <1>3, Sizes
        <4> QED BY <4>1, <4>2
      <3> QED BY <1>3, <3>1, <3>2
    <2>2. dinodes[i0].size <= u + n
      <3>1. dinodes[i0].size \in Nat /\ dinodes[i0].size <= u
        BY <1>1, <1>2, <1>5, Kinds DEF Appending
      <3> QED BY <1>3, <3>1
    <2> QED BY <1>1, <1>2, <1>7, <1>8, <2>1, <2>2 DEF Appending, Count
  <1> QED BY <1>10, <1>11, <1>12, <1>13, <1>14, <1>15, <1>16 DEF IInv, Rules

(* The same, by the places where the file keeps its block numbers.         *)
LEMMA Placed ==
    ASSUME IInv, pc = "append", app.left # <<>>,
           NEW i0, i0 = app.inum, NEW f0, f0 = fbn, f0 < MAX_FILE,
           NEW x \in Blocks, WriteUnits(x), UNCHANGED <<dinodes, bitmap, back, arg, got, pc>>,
           din' \in Dinode, index' \in [Blocks -> [Slots -> {0} \cup Blocks]],
           freeblock' \in meta_num..FS_SIZE, freeblock <= freeblock', x < freeblock',
           Owned(Spots', freeblock'),
           Spot(i0, Place(f0))' = x,
           Spot(i0, Place(f0)) = x \/ (Spot(i0, Place(f0)) = 0 /\ freeblock <= x),
           \A i \in DOMAIN dinodes, p \in Places :
               i # i0 \/ (p # Place(f0) /\ p # DIRECT_NUM) => Spot(i, p)' = Spot(i, p),
           \A b \in Blocks : b >= freeblock' => index'[b] = index[b],
           \A k \in 0..DIRECT_NUM : din.addrs[k] # 0 => din'.addrs[k] = din.addrs[k]
    PROVE  IInv'
  <1>1. Types /\ Owned(Spots, freeblock) /\ Appending /\ Counts
    BY DEF IInv, Rules
  <1>2. i0 \in DOMAIN dinodes /\ f0 \in Nat
    <2>1. app.inum = ROOT_INO \/ app.inum = Count
      BY <1>1 DEF Appending
    <2>2. Count \in Nat /\ Count >= 1 /\ DOMAIN dinodes = 1..Count
      BY <1>1, Kinds DEF Counts
    <2> QED BY <1>1, <2>1, <2>2, Chunk DEF ROOT_INO
  <1>3. /\ \A i, f : BlockAt(i, f) = IF f < MAX_FILE THEN Spot(i, Place(f)) ELSE 0
        /\ \A i, f : BlockAt(i, f)' = IF f < MAX_FILE THEN Spot(i, Place(f))' ELSE 0
    BY DEF BlockAt
  <1>4. \A f, g \in Nat : /\ Place(f) # DIRECT_NUM
                          /\ Place(f) = Place(g) => f = g
    BY Sizes DEF Place
  <1>5. BlockAt(i0, f0)' = x /\ (BlockAt(i0, f0) = x \/ (BlockAt(i0, f0) = 0 /\ freeblock <= x))
    BY <1>3
  <1>6. ASSUME NEW i \in DOMAIN dinodes, NEW f \in Nat, i # i0 \/ f # f0
        PROVE  BlockAt(i, f)' = BlockAt(i, f) /\ BlockAt(i, f) # x
    <2>1. /\ f < MAX_FILE => Place(f) \in Places
          /\ BlockAt(i, f) # 0 => BlockAt(i, f) < freeblock
          /\ BlockAt(i, f) = BlockAt(i0, f0) /\ BlockAt(i, f) # 0 => i = i0 /\ f = f0
          /\ BlockAt(i, f) \in {0} \cup Blocks
      BY <1>1, <1>2, Held
    <2>2. BlockAt(i, f)' = BlockAt(i, f)
      BY <1>2, <1>3, <1>4, <1>6, <2>1
    <2>3. x # 0 /\ x \in Nat /\ freeblock \in Nat /\ (BlockAt(i, f) # 0 => BlockAt(i, f) \in Nat)
      BY <1>1, <2>1, Kinds
    <2>4. BlockAt(i, f) # x
      BY <1>5, <1>6, <2>1, <2>3
    <2> QED BY <2>2, <2>4
  <1> QED BY <1>5, <1>6, Written

(* A block number in the inode.                                            *)
LEMMA DinSet ==
    ASSUME Types, NEW k \in 0..DIRECT_NUM, NEW b \in Blocks,
           din' = [din EXCEPT !.addrs[k] = b]
    PROVE  /\ din' \in Dinode /\ din'.addrs[k] = b
           /\ \A j \in 0..DIRECT_NUM : j # k => din'.addrs[j] = din.addrs[j]
  <1>1. din \in Dinode
    BY DEF Types
  <1>2. din.addrs \in [0..DIRECT_NUM -> {0} \cup Blocks]
    BY Kinds
  <1>3. PICK a : a = [din.addrs EXCEPT ![k] = b]
    OBVIOUS
  <1>4. din' = [din EXCEPT !.addrs = a]
    BY <1>1, <1>3 DEF Dinode
  <1>5. /\ a \in [0..DIRECT_NUM -> {0} \cup Blocks] /\ a[k] = b
        /\ \A j \in 0..DIRECT_NUM : j # k => a[j] = din.addrs[j]
    BY <1>2, <1>3
  <1>6. din' \in Dinode /\ din'.addrs = a
    BY <1>1, <1>4, <1>5 DEF Dinode
  <1> QED BY <1>5, <1>6

(* The places before and after a round of iappend.                         *)
LEMMA SpotNext ==
    ASSUME Types, pc = "append", NEW i0, i0 = app.inum,
           app'.inum = i0, UNCHANGED <<dinodes, pc>>, NEW i \in DOMAIN dinodes, NEW p
    PROVE  /\ Spot(i, p)' =
                 LET a == IF i = i0 THEN din'.addrs ELSE dinodes[i].addrs
                 IN IF p <= DIRECT_NUM THEN a[p]
                    ELSE IF a[DIRECT_NUM] # 0 THEN index'[a[DIRECT_NUM]][p - DIRECT_NUM - 1]
                    ELSE 0
           /\ Spot(i, p) =
                 LET a == IF i = i0 THEN din.addrs ELSE dinodes[i].addrs
                 IN IF p <= DIRECT_NUM THEN a[p]
                    ELSE IF a[DIRECT_NUM] # 0 THEN index[a[DIRECT_NUM]][p - DIRECT_NUM - 1]
                    ELSE 0
  <1>1. Current(i)' = IF i = i0 THEN din' ELSE dinodes[i]
    BY DEF Current
  <1>2. Current(i) = IF i = i0 THEN din ELSE dinodes[i]
    BY DEF Current
  <1>3. /\ Spot(i, p)' =
                 LET a == Current(i)'.addrs
                 IN IF p <= DIRECT_NUM THEN a[p]
                    ELSE IF a[DIRECT_NUM] # 0 THEN index'[a[DIRECT_NUM]][p - DIRECT_NUM - 1]
                    ELSE 0
        /\ Spot(i, p) =
                 LET a == Current(i).addrs
                 IN IF p <= DIRECT_NUM THEN a[p]
                    ELSE IF a[DIRECT_NUM] # 0 THEN index[a[DIRECT_NUM]][p - DIRECT_NUM - 1]
                    ELSE 0
    BY DEF Spot
  <1>4. CASE i = i0
    BY <1>1, <1>2, <1>3, <1>4
  <1>5. CASE i # i0
    BY <1>1, <1>2, <1>3, <1>5
  <1> QED BY <1>4, <1>5

(* What iappend keeps when it changes app.                                 *)
LEMMA AppendKeeps ==
    ASSUME IInv, pc = "append", NEW x, WriteUnits(x), dinodes' = dinodes
    PROVE  /\ app'.inum = app.inum /\ app.inum \in DOMAIN dinodes
           /\ DOMAIN Spots' = DOMAIN dinodes /\ DOMAIN Spots = DOMAIN dinodes
           /\ \A i \in DOMAIN dinodes, p \in Places :
                 Spots[i][p] = Spot(i, p) /\ Spots'[i][p] = Spot(i, p)'
  <1>1. Types /\ Appending /\ Counts
    BY DEF IInv, Rules
  <1>2. app'.inum = app.inum
    BY <1>1 DEF WriteUnits, Types, Calls
  <1>3. app.inum \in DOMAIN dinodes
    <2>1. app.inum = ROOT_INO \/ app.inum = Count
      BY <1>1 DEF Appending
    <2>2. Count \in Nat /\ Count >= 1 /\ DOMAIN dinodes = 1..Count
      BY <1>1, Kinds DEF Counts
    <2> QED BY <2>1, <2>2 DEF ROOT_INO
  <1>4. /\ DOMAIN Spots' = DOMAIN dinodes /\ DOMAIN Spots = DOMAIN dinodes
        /\ \A i \in DOMAIN dinodes, p \in Places :
                 Spots[i][p] = Spot(i, p) /\ Spots'[i][p] = Spot(i, p)'
    BY DEF Spots
  <1> QED BY <1>2, <1>3, <1>4

(* A direct block: the file's own, or the next one.                        *)
LEMMA AppendDirectStep == ASSUME IInv, AppendDirect PROVE IInv'
  <1>1. /\ Types /\ Owned(Spots, freeblock) /\ pc = "append" /\ app.left # <<>>
        /\ fbn < DIRECT_NUM /\ OnImage
        /\ UNCHANGED <<dinodes, index, bitmap, back, arg, got, pc>>
    BY DEF IInv, Rules, AppendDirect
  <1>2. PICK i0, f0 : i0 = app.inum /\ f0 = fbn
    OBVIOUS
  <1>3. /\ f0 \in Nat /\ f0 < DIRECT_NUM /\ f0 < MAX_FILE /\ f0 \in 0..DIRECT_NUM
        /\ f0 \in Places /\ f0 # DIRECT_NUM /\ Place(f0) = f0 /\ DIRECT_NUM \in 0..DIRECT_NUM
        /\ DIRECT_NUM \in Places /\ f0 <= DIRECT_NUM
    BY <1>1, <1>2, Chunk, Sizes DEF Places, Place
  <1>4. index \in [Blocks -> [Slots -> {0} \cup Blocks]]
    BY <1>1 DEF Types
  <1>5. /\ freeblock \in Nat /\ meta_num <= freeblock
        /\ \A k \in 0..DIRECT_NUM : din.addrs[k] \in {0} \cup Blocks
    BY <1>1, Kinds
  <1>6. CASE din.addrs[f0] = 0
    <2>1. PICK x : x = freeblock
      OBVIOUS
    <2>2. /\ din' = [din EXCEPT !.addrs[f0] = x] /\ freeblock' = x + 1 /\ WriteUnits(x)
      BY <1>2, <1>6, <2>1 DEF AppendDirect
    <2>3. x \in Blocks /\ x \in Nat /\ x + 1 \in meta_num..FS_SIZE /\ x < x + 1 /\ x <= x + 1
      <3>1. Wanted = 1
        BY <1>1, <1>2, <1>6 DEF Wanted
      <3>2. x + 1 <= FS_SIZE
        BY <1>1, <2>1, <3>1 DEF OnImage
      <3> QED BY <1>1, <1>5, <2>1, <3>2, Sizes DEF Blocks
    <2>4. /\ din' \in Dinode /\ din'.addrs[f0] = x
          /\ \A j \in 0..DIRECT_NUM : j # f0 => din'.addrs[j] = din.addrs[j]
      BY <1>1, <1>3, <2>2, <2>3, DinSet
    <2>5. /\ app'.inum = i0 /\ i0 \in DOMAIN dinodes
          /\ DOMAIN Spots' = DOMAIN dinodes /\ DOMAIN Spots = DOMAIN dinodes
          /\ \A i \in DOMAIN dinodes, p \in Places :
                 Spots[i][p] = Spot(i, p) /\ Spots'[i][p] = Spot(i, p)'
      BY <1>1, <1>2, <2>2, AppendKeeps
    <2>6. Spot(i0, f0) = 0 /\ Spot(i0, f0)' = x
      BY <1>1, <1>2, <1>3, <1>6, <2>4, <2>5, SpotNext
    <2>7. ASSUME NEW i \in DOMAIN dinodes, NEW p \in Places, i # i0 \/ p # f0
          PROVE  Spot(i, p)' = Spot(i, p)
      <3>1. p <= DIRECT_NUM => p \in 0..DIRECT_NUM
        BY Sizes DEF Places
      <3>2. din'.addrs[DIRECT_NUM] = din.addrs[DIRECT_NUM]
        BY <1>3, <2>4
      <3>3. CASE i = i0
        BY <1>1, <1>2, <2>4, <2>5, <2>7, <3>1, <3>2, <3>3, SpotNext
      <3>4. CASE i # i0
        BY <1>1, <1>2, <2>5, <3>4, SpotNext
      <3> QED BY <3>3, <3>4
    <2>8. Owned(Spots', x + 1)
      <3>1. Spots[i0][f0] = 0 /\ Spots'[i0][f0] = x
        BY <1>3, <2>5, <2>6
      <3>2. \A i \in DOMAIN Spots, p \in Places : i # i0 \/ p # f0 => Spots'[i][p] = Spots[i][p]
        BY <2>5, <2>7
      <3> QED BY <1>1, <1>3, <1>5, <2>1, <2>3, <2>5, <3>1, <3>2, Takes
    <2>9. \A k \in 0..DIRECT_NUM : din.addrs[k] # 0 => din'.addrs[k] = din.addrs[k]
      BY <1>6, <2>4
    <2>10. freeblock <= x
      BY <1>5, <2>1
    <2> QED BY <1>1, <1>2, <1>3, <1>4, <2>1, <2>2, <2>3, <2>4, <2>6, <2>7, <2>8, <2>9, <2>10,
               Placed
  <1>7. CASE din.addrs[f0] # 0
    <2>1. PICK x : x = din.addrs[f0]
      OBVIOUS
    <2>2. din' = din /\ freeblock' = freeblock /\ WriteUnits(x)
      BY <1>2, <1>7, <2>1 DEF AppendDirect
    <2>3. x \in Blocks
      BY <1>3, <1>5, <1>7, <2>1
    <2>4. /\ app'.inum = i0 /\ i0 \in DOMAIN dinodes
          /\ DOMAIN Spots' = DOMAIN dinodes /\ DOMAIN Spots = DOMAIN dinodes
          /\ \A i \in DOMAIN dinodes, p \in Places :
                 Spots[i][p] = Spot(i, p) /\ Spots'[i][p] = Spot(i, p)'
      BY <1>1, <1>2, <2>2, AppendKeeps
    <2>5. ASSUME NEW i \in DOMAIN dinodes, NEW p \in Places
          PROVE  Spot(i, p)' = Spot(i, p)
      BY <1>1, <1>2, <2>2, <2>4, SpotNext
    <2>6. Spot(i0, f0) = x
      BY <1>1, <1>2, <1>3, <2>1, <2>4, SpotNext
    <2>7. Owned(Spots', freeblock')
      BY <1>1, <2>2, <2>4, <2>5, SameOwned
    <2>8. x < freeblock'
      <3>1. BlockAt(i0, f0) = x
        BY <1>1, <1>3, <2>4, <2>6, Held
      <3>2. x # 0
        BY <1>7, <2>1
      <3> QED BY <1>1, <1>3, <2>2, <2>4, <3>1, <3>2, Held
    <2>9. /\ din' \in Dinode /\ freeblock' \in meta_num..FS_SIZE /\ freeblock <= freeblock'
      BY <1>1, <1>5, <2>2 DEF Types
    <2> QED BY <1>1, <1>2, <1>3, <1>4, <2>2, <2>3, <2>4, <2>5, <2>6, <2>7, <2>8, <2>9, Placed
  <1> QED BY <1>6, <1>7

(* A block number in an index block.                                       *)
LEMMA IndexSet ==
    ASSUME Types, NEW t \in Blocks, NEW s \in Slots, NEW x \in Blocks,
           index' = [index EXCEPT ![t][s] = x]
    PROVE  /\ index' \in [Blocks -> [Slots -> {0} \cup Blocks]] /\ index'[t][s] = x
           /\ \A k \in Slots : k # s => index'[t][k] = index[t][k]
           /\ \A b \in Blocks : b # t => index'[b] = index[b]
  <1>1. index \in [Blocks -> [Slots -> {0} \cup Blocks]]
    BY DEF Types
  <1>2. PICK a : a = [index[t] EXCEPT ![s] = x]
    OBVIOUS
  <1>3. index' = [index EXCEPT ![t] = a]
    BY <1>2
  <1>4. /\ a \in [Slots -> {0} \cup Blocks] /\ a[s] = x
        /\ \A k \in Slots : k # s => a[k] = index[t][k]
    BY <1>1, <1>2
  <1>5. /\ index' \in [Blocks -> [Slots -> {0} \cup Blocks]] /\ index'[t] = a
        /\ \A b \in Blocks : b # t => index'[b] = index[b]
    BY <1>1, <1>3, <1>4
  <1> QED BY <1>4, <1>5

(* The blocks at the places of the files were handed out, each once.       *)
LEMMA SpotOnce ==
    ASSUME Types, Owned(Spots, freeblock), NEW i \in DOMAIN dinodes, NEW p \in Places
    PROVE  /\ Spot(i, p) # 0 => Spot(i, p) < freeblock
           /\ \A j \in DOMAIN dinodes, q \in Places :
                 Spot(i, p) = Spot(j, q) /\ Spot(i, p) # 0 => i = j /\ p = q
  <1>1. \A j \in DOMAIN dinodes, q \in Places : Spots[j][q] = Spot(j, q)
    BY DEF Spots
  <1>2. /\ DOMAIN Spots = DOMAIN dinodes /\ Once(Spots)
        /\ \A j \in DOMAIN Spots, q \in Places :
              Spots[j][q] = 0 \/ Spots[j][q] \in meta_num..(freeblock - 1)
    BY DEF Spots, Owned
  <1>3. \A x \in meta_num..(freeblock - 1) : x < freeblock
    BY Kinds, Sizes
  <1>4. \A j \in DOMAIN dinodes, q \in Places :
            Spot(i, p) = Spot(j, q) /\ Spot(i, p) # 0 => i = j /\ p = q
    BY <1>1, <1>2 DEF Once
  <1> QED BY <1>1, <1>2, <1>3, <1>4

(* A block behind the direct ones: the file's own or the next one, after   *)
(* the index block, which is the file's own or the next one, too.          *)
LEMMA AppendIndirectStep == ASSUME IInv, AppendIndirect PROVE IInv'
  <1>1. /\ Types /\ Owned(Spots, freeblock) /\ Blank /\ pc = "append" /\ app.left # <<>>
        /\ DIRECT_NUM <= fbn /\ fbn < MAX_FILE /\ OnImage
        /\ UNCHANGED <<dinodes, bitmap, back, arg, got, pc>>
    BY DEF IInv, Rules, AppendIndirect
  <1>2. PICK i0, f0, D, s, q : i0 = app.inum /\ f0 = fbn /\ D = DIRECT_NUM
                               /\ s = f0 - D /\ q = f0 + 1
    OBVIOUS
  <1>3. /\ f0 \in Nat /\ D \in Nat /\ D <= f0 /\ f0 < MAX_FILE /\ s \in Slots /\ q \in Places
        /\ D \in 0..D /\ D \in Places /\ D <= D /\ ~(q <= D) /\ q # D /\ q - D - 1 = s
        /\ Place(f0) = q
    <2>1. f0 \in Nat
      BY <1>1, <1>2, Chunk
    <2>2. /\ D \in Nat /\ D <= f0 /\ f0 < MAX_FILE /\ INDIRECT_NUM \in Nat /\ MAX_FILE \in Nat
          /\ MAX_FILE = D + INDIRECT_NUM
      BY <1>1, <1>2, Sizes
    <2>3. s \in Slots /\ q \in Places /\ D \in Places
      BY <1>2, <2>1, <2>2 DEF Places, Slots
    <2>4. D \in 0..D /\ D <= D /\ ~(q <= D) /\ q # D /\ q - D - 1 = s
      BY <1>2, <2>1, <2>2
    <2>5. Place(f0) = q
      BY <1>2, <2>1, <2>2 DEF Place
    <2> QED BY <2>1, <2>2, <2>3, <2>4, <2>5
  <1>4. index \in [Blocks -> [Slots -> {0} \cup Blocks]]
    BY <1>1 DEF Types
  <1>5. /\ freeblock \in Nat /\ meta_num <= freeblock /\ freeblock # 0
        /\ din \in Dinode /\ \A k \in 0..D : din.addrs[k] \in {0} \cup Blocks
        /\ 0 \notin Blocks /\ \A b \in Blocks : b \in Nat
    BY <1>1, <1>2, Kinds, Sizes DEF Types
  <1>6. \A p \in Places : /\ p <= D => p \in 0..D
                          /\ ~(p <= D) => p - D - 1 \in Slots
                          /\ ~(p <= D) /\ p # q => p - D - 1 # s
    BY <1>2, <1>3, Sizes DEF Places, Slots
  <1>7. ASSUME NEW x, WriteUnits(x)
        PROVE  /\ app'.inum = i0 /\ i0 \in DOMAIN dinodes
               /\ DOMAIN Spots' = DOMAIN dinodes /\ DOMAIN Spots = DOMAIN dinodes
               /\ \A i \in DOMAIN dinodes, p \in Places :
                     Spots[i][p] = Spot(i, p) /\ Spots'[i][p] = Spot(i, p)'
    BY <1>1, <1>2, <1>7, AppendKeeps
  <1>8. ASSUME NEW x, WriteUnits(x), NEW i \in DOMAIN dinodes, NEW p
        PROVE  /\ Spot(i, p)' =
                     LET a == IF i = i0 THEN din'.addrs ELSE dinodes[i].addrs
                     IN IF p <= D THEN a[p]
                        ELSE IF a[D] # 0 THEN index'[a[D]][p - D - 1]
                        ELSE 0
               /\ Spot(i, p) =
                     LET a == IF i = i0 THEN din.addrs ELSE dinodes[i].addrs
                     IN IF p <= D THEN a[p]
                        ELSE IF a[D] # 0 THEN index[a[D]][p - D - 1]
                        ELSE 0
    <2>1. app'.inum = i0
      BY <1>7, <1>8
    <2> QED BY <1>1, <1>2, <2>1, SpotNext
  <1>9. \A i \in DOMAIN dinodes, p \in Places : Spot(i, p) # 0 => Spot(i, p) < freeblock
    BY <1>1, SpotOnce
  <1>10. CASE din.addrs[D] = 0
    <2>1. PICK t, x : t = freeblock /\ x = freeblock + 1
      OBVIOUS
    <2>2. /\ t \in Blocks /\ x \in Blocks /\ t \in Nat /\ x \in Nat /\ t # x /\ x = t + 1
          /\ x + 1 \in meta_num..FS_SIZE /\ t < x + 1 /\ x < x + 1 /\ freeblock <= x + 1
          /\ freeblock <= x /\ t # 0 /\ meta_num <= t /\ meta_num <= x
      <3>1. ~(fbn < DIRECT_NUM)
        BY <1>2, <1>3
      <3>2. Wanted = 2
        BY <1>2, <1>10, <3>1 DEF Wanted
      <3>3. freeblock + 2 <= FS_SIZE
        BY <1>1, <3>2 DEF OnImage
      <3> QED BY <1>1, <1>5, <2>1, <3>3, Sizes DEF Blocks
    <2>3. \A k \in Slots : index[t][k] = 0
      <3>1. t >= freeblock
        BY <1>5, <2>1
      <3> QED BY <1>1, <2>2, <3>1 DEF Blank
    <2>4. /\ din' = [din EXCEPT !.addrs[D] = t] /\ index' = [index EXCEPT ![t][s] = x]
          /\ freeblock' = x + 1 /\ WriteUnits(x)
      BY <1>2, <1>3, <1>10, <2>1, <2>3 DEF AppendIndirect
    <2>5. /\ din' \in Dinode /\ din'.addrs[D] = t
          /\ \A k \in 0..D : k # D => din'.addrs[k] = din.addrs[k]
      BY <1>1, <1>2, <1>3, <2>2, <2>4, DinSet
    <2>6. /\ index' \in [Blocks -> [Slots -> {0} \cup Blocks]] /\ index'[t][s] = x
          /\ \A k \in Slots : k # s => index'[t][k] = index[t][k]
          /\ \A b \in Blocks : b # t => index'[b] = index[b]
      <3>1. Types /\ t \in Blocks /\ x \in Blocks /\ index' = [index EXCEPT ![t][s] = x]
        BY <1>1, <2>2, <2>4
      <3>2. s \in Slots
        BY <1>3
      <3> QED BY <3>1, <3>2, IndexSet
    <2>7. /\ app'.inum = i0 /\ i0 \in DOMAIN dinodes
          /\ DOMAIN Spots' = DOMAIN dinodes /\ DOMAIN Spots = DOMAIN dinodes
          /\ \A i \in DOMAIN dinodes, p \in Places :
                Spots[i][p] = Spot(i, p) /\ Spots'[i][p] = Spot(i, p)'
      BY <1>7, <2>4
    <2>8. /\ Spot(i0, D) = 0 /\ Spot(i0, q) = 0 /\ Spot(i0, D)' = t /\ Spot(i0, q)' = x
      BY <1>3, <1>8, <1>10, <2>2, <2>4, <2>5, <2>6, <2>7
    <2>9. ASSUME NEW i \in DOMAIN dinodes, NEW p \in Places, i # i0 \/ (p # q /\ p # D)
          PROVE  Spot(i, p)' = Spot(i, p)
      <3>1. CASE i # i0 /\ p <= D
        BY <1>8, <2>4, <3>1
      <3>2. CASE i # i0 /\ ~(p <= D)
        <4>1. Spot(i, D) = dinodes[i].addrs[D]
          BY <1>3, <1>8, <2>4, <3>2
        <4>2. dinodes[i].addrs[D] # 0 =>
                 dinodes[i].addrs[D] \in Blocks /\ dinodes[i].addrs[D] # t
          <5>1. Spot(i, D) \in {0} \cup Blocks
            BY <1>1, <1>2, <1>3, SpotKinds
          <5>2. Spot(i, D) # 0 => Spot(i, D) < freeblock
            BY <1>3, <1>9
          <5> QED BY <1>5, <2>1, <4>1, <5>1, <5>2
        <4> QED BY <1>8, <2>4, <2>6, <3>2, <4>2
      <3>3. CASE i = i0 /\ p <= D
        BY <1>6, <1>8, <2>4, <2>5, <2>9, <3>3
      <3>4. CASE i = i0 /\ ~(p <= D)
        <4>1. Spot(i, p) = 0
          BY <1>8, <1>10, <2>4, <3>4
        <4>2. Spot(i, p)' = index'[t][p - D - 1]
          BY <1>8, <2>2, <2>4, <2>5, <3>4
        <4>3. p - D - 1 \in Slots /\ p - D - 1 # s
          BY <1>6, <2>9, <3>4
        <4> QED BY <2>3, <2>6, <4>1, <4>2, <4>3
      <3> QED BY <3>1, <3>2, <3>3, <3>4
    <2>10. Owned(Spots', x + 1)
      <3>1. PICK M : M = [i \in DOMAIN dinodes |-> [p \in Places |->
                            IF i = i0 /\ p = D THEN t ELSE Spot(i, p)]]
        OBVIOUS
      <3>2. /\ DOMAIN M = DOMAIN Spots /\ M[i0][D] = t /\ M[i0][q] = 0
            /\ \A i \in DOMAIN Spots, p \in Places : i # i0 \/ p # D => M[i][p] = Spots[i][p]
        BY <1>3, <2>7, <2>8, <3>1
      <3>3. Spots[i0][D] = 0
        BY <1>3, <2>7, <2>8
      <3>4. Owned(M, t + 1)
        BY <1>1, <1>3, <2>1, <2>2, <2>7, <3>2, <3>3, Takes
      <3>5. /\ Spots'[i0][q] = x
            /\ \A i \in DOMAIN M, p \in Places : i # i0 \/ p # q => Spots'[i][p] = M[i][p]
        <4>1. Spots'[i0][q] = x /\ Spots'[i0][D] = t
          BY <1>3, <2>7, <2>8
        <4>2. \A i \in DOMAIN dinodes, p \in Places : i # i0 \/ (p # q /\ p # D) =>
                 Spots'[i][p] = Spots[i][p]
          BY <2>7, <2>9
        <4> QED BY <2>7, <3>2, <4>1, <4>2
      <3> QED BY <1>3, <2>2, <2>7, <3>2, <3>4, <3>5, Takes
    <2>11. \A k \in 0..D : din.addrs[k] # 0 => din'.addrs[k] = din.addrs[k]
      BY <1>10, <2>5
    <2>12. \A b \in Blocks : b >= freeblock' => index'[b] = index[b]
      BY <1>5, <2>2, <2>4, <2>6
    <2> QED
      <3>1. /\ pc = "append" /\ app.left # <<>> /\ i0 = app.inum /\ f0 = fbn /\ f0 < MAX_FILE
            /\ x \in Blocks /\ WriteUnits(x) /\ UNCHANGED <<dinodes, bitmap, back, arg, got, pc>>
        BY <1>1, <1>2, <1>3, <2>2, <2>4
      <3>2. /\ din' \in Dinode /\ index' \in [Blocks -> [Slots -> {0} \cup Blocks]]
            /\ freeblock' \in meta_num..FS_SIZE /\ freeblock <= freeblock' /\ x < freeblock'
            /\ Owned(Spots', freeblock')
        BY <2>2, <2>4, <2>5, <2>6, <2>10
      <3>3. /\ Spot(i0, Place(f0))' = x
            /\ Spot(i0, Place(f0)) = x \/ (Spot(i0, Place(f0)) = 0 /\ freeblock <= x)
        BY <1>3, <2>2, <2>8
      <3>4. \A i \in DOMAIN dinodes, p \in Places :
               i # i0 \/ (p # Place(f0) /\ p # DIRECT_NUM) => Spot(i, p)' = Spot(i, p)
        BY <1>2, <1>3, <2>9
      <3>5. /\ \A b \in Blocks : b >= freeblock' => index'[b] = index[b]
            /\ \A k \in 0..DIRECT_NUM : din.addrs[k] # 0 => din'.addrs[k] = din.addrs[k]
        BY <1>2, <2>11, <2>12
      <3> QED BY <3>1, <3>2, <3>3, <3>4, <3>5, Placed
  <1>11. CASE din.addrs[D] # 0 /\ index[din.addrs[D]][s] = 0
    <2>1. PICK t, x : t = din.addrs[D] /\ x = freeblock
      OBVIOUS
    <2>2. /\ t \in Blocks /\ x \in Blocks /\ x \in Nat
          /\ x + 1 \in meta_num..FS_SIZE /\ x < x + 1 /\ freeblock <= x + 1
          /\ freeblock <= x /\ meta_num <= x /\ t # 0 /\ x # 0
      <3>1. ~(fbn < DIRECT_NUM)
        BY <1>2, <1>3
      <3>2. Wanted = 1
        BY <1>2, <1>11, <3>1 DEF Wanted
      <3>3. freeblock + 1 <= FS_SIZE
        BY <1>1, <3>2 DEF OnImage
      <3> QED BY <1>1, <1>3, <1>5, <1>11, <2>1, <3>3, Sizes DEF Blocks
    <2>3. i0 \in DOMAIN dinodes /\ Current(i0) = din
      <3>1. app.inum \in DOMAIN dinodes
        <4>1. app.inum = ROOT_INO \/ app.inum = Count
          BY <1>1 DEF IInv, Rules, Appending
        <4>2. Count \in Nat /\ Count >= 1 /\ DOMAIN dinodes = 1..Count
          BY <1>1, Kinds DEF IInv, Rules, Counts
        <4> QED BY <4>1, <4>2 DEF ROOT_INO
      <3> QED BY <1>1, <1>2, <3>1, Currents
    <2>4. t < freeblock
      <3>1. Spot(i0, D) = t
        BY <1>1, <1>2, <1>3, <2>1, <2>3, SpotKinds
      <3> QED BY <1>3, <1>9, <2>2, <2>3, <3>1
    <2>5. /\ din' = [din EXCEPT !.addrs[D] = t] /\ index' = [index EXCEPT ![t][s] = x]
          /\ freeblock' = x + 1 /\ WriteUnits(x)
      <3>1. t # freeblock
        BY <1>5, <2>2, <2>4
      <3> QED BY <1>2, <1>3, <1>11, <2>1, <3>1 DEF AppendIndirect
    <2>6. /\ din' \in Dinode /\ din'.addrs[D] = t
          /\ \A k \in 0..D : k # D => din'.addrs[k] = din.addrs[k]
      BY <1>1, <1>2, <1>3, <2>2, <2>5, DinSet
    <2>7. /\ index' \in [Blocks -> [Slots -> {0} \cup Blocks]] /\ index'[t][s] = x
          /\ \A k \in Slots : k # s => index'[t][k] = index[t][k]
          /\ \A b \in Blocks : b # t => index'[b] = index[b]
      <3>1. Types /\ t \in Blocks /\ x \in Blocks /\ index' = [index EXCEPT ![t][s] = x]
        BY <1>1, <2>2, <2>5
      <3>2. s \in Slots
        BY <1>3
      <3> QED BY <3>1, <3>2, IndexSet
    <2>8. /\ app'.inum = i0
          /\ DOMAIN Spots' = DOMAIN dinodes /\ DOMAIN Spots = DOMAIN dinodes
          /\ \A i \in DOMAIN dinodes, p \in Places :
                Spots[i][p] = Spot(i, p) /\ Spots'[i][p] = Spot(i, p)'
      BY <1>7, <2>5
    <2>9. Spot(i0, D) = t /\ Spot(i0, q) = 0 /\ Spot(i0, D)' = t /\ Spot(i0, q)' = x
      BY <1>3, <1>8, <1>11, <2>1, <2>2, <2>3, <2>5, <2>6, <2>7
    <2>10. ASSUME NEW i \in DOMAIN dinodes, NEW p \in Places, i # i0 \/ p # q
           PROVE  Spot(i, p)' = Spot(i, p)
      <3>1. CASE i # i0 /\ p <= D
        BY <1>8, <2>5, <3>1
      <3>2. CASE i # i0 /\ ~(p <= D)
        <4>1. Spot(i, D) = dinodes[i].addrs[D]
          BY <1>3, <1>8, <2>5, <3>2
        <4>2. dinodes[i].addrs[D] # 0 =>
                 dinodes[i].addrs[D] \in Blocks /\ dinodes[i].addrs[D] # t
          <5>1. Spot(i, D) \in {0} \cup Blocks
            BY <1>1, <1>2, <1>3, SpotKinds
          <5>2. Spot(i, D) # 0 => Spot(i, D) # Spot(i0, D)
            BY <1>1, <1>3, <2>3, <3>2, SpotOnce
          <5> QED BY <1>5, <2>9, <4>1, <5>1, <5>2
        <4> QED BY <1>8, <2>5, <2>7, <3>2, <4>2
      <3>3. CASE i = i0 /\ p <= D
        <4>1. din'.addrs[p] = din.addrs[p]
          BY <1>6, <2>1, <2>6, <3>3
        <4> QED BY <1>8, <2>5, <3>3, <4>1
      <3>4. CASE i = i0 /\ ~(p <= D)
        <4>1. Spot(i, p) = index[t][p - D - 1]
          BY <1>8, <2>1, <2>2, <2>5, <3>4
        <4>2. Spot(i, p)' = index'[t][p - D - 1]
          BY <1>8, <2>2, <2>5, <2>6, <3>4
        <4>3. p - D - 1 \in Slots /\ p - D - 1 # s
          BY <1>6, <2>10, <3>4
        <4> QED BY <2>7, <4>1, <4>2, <4>3
      <3> QED BY <3>1, <3>2, <3>3, <3>4
    <2>11. Owned(Spots', x + 1)
      <3>1. Spots[i0][q] = 0 /\ Spots'[i0][q] = x
        BY <1>3, <2>3, <2>8, <2>9
      <3>2. \A i \in DOMAIN Spots, p \in Places : i # i0 \/ p # q => Spots'[i][p] = Spots[i][p]
        BY <2>8, <2>10
      <3> QED BY <1>1, <1>3, <2>1, <2>2, <2>3, <2>8, <3>1, <3>2, Takes
    <2>12. \A k \in 0..D : din.addrs[k] # 0 => din'.addrs[k] = din.addrs[k]
      BY <2>1, <2>6
    <2>13. \A b \in Blocks : b >= freeblock' => index'[b] = index[b]
      <3>1. t \in Nat /\ t < freeblock'
        BY <1>5, <2>1, <2>2, <2>4, <2>5
      <3> QED BY <1>5, <2>2, <2>5, <2>7, <3>1
    <2> QED
      <3>1. /\ pc = "append" /\ app.left # <<>> /\ i0 = app.inum /\ f0 = fbn /\ f0 < MAX_FILE
            /\ x \in Blocks /\ WriteUnits(x) /\ UNCHANGED <<dinodes, bitmap, back, arg, got, pc>>
        BY <1>1, <1>2, <1>3, <2>2, <2>5
      <3>2. /\ din' \in Dinode /\ index' \in [Blocks -> [Slots -> {0} \cup Blocks]]
            /\ freeblock' \in meta_num..FS_SIZE /\ freeblock <= freeblock' /\ x < freeblock'
            /\ Owned(Spots', freeblock')
        BY <2>2, <2>5, <2>6, <2>7, <2>11
      <3>3. /\ Spot(i0, Place(f0))' = x
            /\ Spot(i0, Place(f0)) = x \/ (Spot(i0, Place(f0)) = 0 /\ freeblock <= x)
        BY <1>3, <2>2, <2>9
      <3>4. \A i \in DOMAIN dinodes, p \in Places :
               i # i0 \/ (p # Place(f0) /\ p # DIRECT_NUM) => Spot(i, p)' = Spot(i, p)
        BY <1>2, <1>3, <2>10
      <3>5. /\ \A b \in Blocks : b >= freeblock' => index'[b] = index[b]
            /\ \A k \in 0..DIRECT_NUM : din.addrs[k] # 0 => din'.addrs[k] = din.addrs[k]
        BY <1>2, <2>12, <2>13
      <3> QED BY <3>1, <3>2, <3>3, <3>4, <3>5, Placed
  <1>12. CASE din.addrs[D] # 0 /\ index[din.addrs[D]][s] # 0
    <2>1. PICK t, x : t = din.addrs[D] /\ x = index[t][s]
      OBVIOUS
    <2>2. t \in Blocks /\ x \in Blocks /\ t # 0 /\ x # 0
      BY <1>3, <1>4, <1>5, <1>12, <2>1
    <2>3. i0 \in DOMAIN dinodes /\ Current(i0) = din
      <3>1. app.inum \in DOMAIN dinodes
        <4>1. app.inum = ROOT_INO \/ app.inum = Count
          BY <1>1 DEF IInv, Rules, Appending
        <4>2. Count \in Nat /\ Count >= 1 /\ DOMAIN dinodes = 1..Count
          BY <1>1, Kinds DEF IInv, Rules, Counts
        <4> QED BY <4>1, <4>2 DEF ROOT_INO
      <3> QED BY <1>1, <1>2, <3>1, Currents
    <2>4. Spot(i0, D) = t /\ Spot(i0, q) = x
      BY <1>1, <1>2, <1>3, <2>1, <2>2, <2>3, SpotKinds
    <2>5. t < freeblock /\ x < freeblock
      BY <1>3, <1>9, <2>2, <2>3, <2>4
    <2>6. /\ din' = [din EXCEPT !.addrs[D] = t] /\ index' = index
          /\ freeblock' = freeblock /\ WriteUnits(x)
      <3>1. t # freeblock
        BY <1>5, <2>2, <2>5
      <3> QED BY <1>2, <1>3, <1>12, <2>1, <3>1 DEF AppendIndirect
    <2>7. /\ din' \in Dinode /\ din'.addrs[D] = t
          /\ \A k \in 0..D : k # D => din'.addrs[k] = din.addrs[k]
      BY <1>1, <1>2, <1>3, <2>2, <2>6, DinSet
    <2>8. /\ app'.inum = i0
          /\ DOMAIN Spots' = DOMAIN dinodes /\ DOMAIN Spots = DOMAIN dinodes
          /\ \A i \in DOMAIN dinodes, p \in Places :
                Spots[i][p] = Spot(i, p) /\ Spots'[i][p] = Spot(i, p)'
      BY <1>7, <2>6
    <2>9. ASSUME NEW i \in DOMAIN dinodes, NEW p \in Places
          PROVE  Spot(i, p)' = Spot(i, p)
      <3>1. din'.addrs[D] = din.addrs[D] /\ (p <= D => din'.addrs[p] = din.addrs[p])
        BY <1>6, <2>1, <2>7
      <3>2. CASE i = i0
        BY <1>8, <2>6, <3>1, <3>2
      <3>3. CASE i # i0
        BY <1>8, <2>6, <3>3
      <3> QED BY <3>2, <3>3
    <2>10. Owned(Spots', freeblock')
      BY <1>1, <2>6, <2>8, <2>9, SameOwned
    <2>11. /\ freeblock' \in meta_num..FS_SIZE /\ freeblock <= freeblock' /\ x < freeblock'
      BY <1>1, <1>5, <2>5, <2>6 DEF Types
    <2>12. \A k \in 0..D : din.addrs[k] # 0 => din'.addrs[k] = din.addrs[k]
      BY <2>1, <2>7
    <2>13. Spot(i0, q)' = x
      BY <1>3, <2>3, <2>4, <2>9
    <2> QED
      <3>1. /\ pc = "append" /\ app.left # <<>> /\ i0 = app.inum /\ f0 = fbn /\ f0 < MAX_FILE
            /\ x \in Blocks /\ WriteUnits(x) /\ UNCHANGED <<dinodes, bitmap, back, arg, got, pc>>
        BY <1>1, <1>2, <1>3, <2>2, <2>6
      <3>2. /\ din' \in Dinode /\ index' \in [Blocks -> [Slots -> {0} \cup Blocks]]
            /\ freeblock' \in meta_num..FS_SIZE /\ freeblock <= freeblock' /\ x < freeblock'
            /\ Owned(Spots', freeblock')
        BY <1>4, <2>6, <2>7, <2>10, <2>11
      <3>3. /\ Spot(i0, Place(f0))' = x
            /\ Spot(i0, Place(f0)) = x \/ (Spot(i0, Place(f0)) = 0 /\ freeblock <= x)
        BY <1>3, <2>4, <2>13
      <3>4. \A i \in DOMAIN dinodes, p \in Places :
               i # i0 \/ (p # Place(f0) /\ p # DIRECT_NUM) => Spot(i, p)' = Spot(i, p)
        BY <1>2, <1>3, <2>9
      <3>5. /\ \A b \in Blocks : b >= freeblock' => index'[b] = index[b]
            /\ \A k \in 0..DIRECT_NUM : din.addrs[k] # 0 => din'.addrs[k] = din.addrs[k]
        BY <1>2, <2>6, <2>12
      <3> QED BY <3>1, <3>2, <3>3, <3>4, <3>5, Placed
  <1> QED BY <1>10, <1>11, <1>12

-----------------------------------------------------------------------------
(* The other steps *)

(* No block changes; a new file is empty, and the others are as they were. *)
LEMMA Kept ==
    ASSUME Types, Owned(Spots, freeblock), Blank, Filled,
           UNCHANGED <<index, data, freeblock>>, DOMAIN dinodes \subseteq DOMAIN dinodes',
           \A i \in DOMAIN dinodes : Current(i)'.addrs = Current(i).addrs /\ Grown(i)' = Grown(i),
           \A i \in DOMAIN dinodes' \ DOMAIN dinodes :
               Current(i)'.addrs = [k \in 0..DIRECT_NUM |-> 0] /\ Grown(i)' = 0
    PROVE  Owned(Spots', freeblock') /\ Blank' /\ Filled'
  <1>1. Blank'
    BY DEF Blank
  <1>2. ASSUME NEW i \in DOMAIN dinodes, NEW p PROVE Spot(i, p)' = Spot(i, p)
    <2>1. PICK a : a = Current(i).addrs /\ Current(i)'.addrs = a
      OBVIOUS
    <2> QED BY <2>1 DEF Spot
  <1>3. ASSUME NEW i \in DOMAIN dinodes' \ DOMAIN dinodes, NEW p \in Places
        PROVE  Spot(i, p)' = 0
    <2>1. PICK a : a = [k \in 0..DIRECT_NUM |-> 0] /\ Current(i)'.addrs = a
      OBVIOUS
    <2>2. p <= DIRECT_NUM => p \in 0..DIRECT_NUM
      BY Sizes DEF Places
    <2>3. a[DIRECT_NUM] = 0 /\ (p <= DIRECT_NUM => a[p] = 0)
      BY <2>1, <2>2, Sizes
    <2> QED BY <2>1, <2>3 DEF Spot
  <1>4. /\ DOMAIN Spots' = DOMAIN dinodes' /\ DOMAIN Spots = DOMAIN dinodes
        /\ \A i \in DOMAIN dinodes, p \in Places : Spots'[i][p] = Spots[i][p]
        /\ \A i \in DOMAIN dinodes' \ DOMAIN dinodes, p \in Places : Spots'[i][p] = 0
    <2>1. /\ \A i \in DOMAIN dinodes, p \in Places : Spots[i][p] = Spot(i, p)
          /\ \A i \in DOMAIN dinodes', p \in Places : Spots'[i][p] = Spot(i, p)'
          /\ DOMAIN Spots' = DOMAIN dinodes' /\ DOMAIN Spots = DOMAIN dinodes
      BY DEF Spots
    <2> QED BY <1>2, <1>3, <2>1
  <1>5. Owned(Spots', freeblock')
    <2>1. PICK S, T, b : S = Spots /\ T = Spots' /\ b = freeblock
      OBVIOUS
    <2>2. /\ Owned(S, b) /\ DOMAIN S \subseteq DOMAIN T
          /\ \A i \in DOMAIN S, p \in Places : T[i][p] = S[i][p]
          /\ \A i \in DOMAIN T \ DOMAIN S, p \in Places : T[i][p] = 0
      BY <1>4, <2>1
    <2>3. Once(T)
      <3> SUFFICES ASSUME NEW i \in DOMAIN T, NEW j \in DOMAIN T, NEW p \in Places,
                          NEW q \in Places, T[i][p] = T[j][q], T[i][p] # 0
                   PROVE  i = j /\ p = q
        BY DEF Once
      <3>1. i \in DOMAIN S /\ j \in DOMAIN S
        BY <2>2
      <3> QED BY <2>2, <3>1 DEF Owned, Once
    <2>4. \A i \in DOMAIN T, p \in Places : T[i][p] = 0 \/ T[i][p] \in meta_num..(b - 1)
      BY <2>2 DEF Owned
    <2>5. \A x \in meta_num..(b - 1) : \E i \in DOMAIN T, p \in Places : T[i][p] = x
      BY <2>2 DEF Owned
    <2> QED BY <2>1, <2>3, <2>4, <2>5 DEF Owned
  <1>6. Filled'
    <2> SUFFICES ASSUME NEW i \in DOMAIN dinodes', NEW o \in Offsets
                 PROVE  Unit(i, o)' = IF o < Grown(i)' THEN Meant(i, o) ELSE Zero
      BY DEF Filled
    <2>1. o \in Nat /\ o \div B_SIZE \in Nat
      <3>1. o \in Nat
        BY Sizes DEF Offsets
      <3> QED BY <3>1, Sizes, Division
    <2>2. CASE i \in DOMAIN dinodes
      <3>1. BlockAt(i, o \div B_SIZE)' = BlockAt(i, o \div B_SIZE)
        BY <1>2, <2>2 DEF BlockAt
      <3>2. Unit(i, o)' = Unit(i, o)
        BY <3>1 DEF Unit
      <3> QED BY <2>2, <3>2 DEF Filled
    <2>3. CASE i \notin DOMAIN dinodes
      <3>1. \A f \in Nat : f < MAX_FILE => Place(f) \in Places
        BY Sizes DEF Place, Places
      <3>2. \A f \in Nat : BlockAt(i, f)' = 0
        BY <1>3, <2>3, <3>1 DEF BlockAt
      <3>3. Unit(i, o)' = Zero
        BY <2>1, <3>2 DEF Unit
      <3>4. ~(o < Grown(i)')
        BY <2>1, <2>3
      <3> QED BY <3>3, <3>4
    <2> QED BY <2>2, <2>3
  <1> QED BY <1>1, <1>5, <1>6

(* Which inodes there are.                                                 *)
LEMMA Numbers ==
    ASSUME Types, Counts, pc # "root"
    PROVE  /\ ROOT_INO \in DOMAIN dinodes /\ Count \in DOMAIN dinodes
           /\ Count \in Nat /\ Count >= 1 /\ ROOT_INO = 1
           /\ DOMAIN dinodes = 1..Count /\ DOMAIN dinodes \subseteq Nat
  <1>1. Count \in Nat /\ Count >= 1 /\ DOMAIN dinodes = 1..Count
    BY Kinds DEF Counts
  <1> QED BY <1>1 DEF ROOT_INO

(* A new inode.                                                            *)
LEMMA Empty ==
    ASSUME NEW t \in {"dir", "file"}
    PROVE  /\ NewInode(t) \in Dinode /\ NewInode(t).size = 0
           /\ NewInode(t).addrs = [k \in 0..DIRECT_NUM |-> 0]
  <1>1. 0 \in 0..((MAX_FILE + 1) * B_SIZE)
    <2>1. (MAX_FILE + 1) * B_SIZE \in Nat
      BY Sizes
    <2> QED BY <2>1
  <1> QED BY <1>1 DEF NewInode, Dinode

(* The assertion in iappend: the program stops where it is.                *)
LEMMA AppendAbortsStep == ASSUME IInv, AppendAborts PROVE IInv'
  BY DEF IInv, Types, AppendAborts, Goto, Labels

(* The image is full: the model stops where it is.                         *)
LEMMA AppendBeyondStep == ASSUME IInv, AppendBeyond PROVE IInv'
  BY DEF IInv, Types, AppendBeyond, Goto, Labels

(* The inode table is full: the same.                                      *)
LEMMA OpenBeyondStep == ASSUME IInv, OpenBeyond PROVE IInv'
  BY DEF IInv, Types, OpenBeyond, Goto, Labels

(* Nothing moves.                                                          *)
LEMMA StutterStep == ASSUME IInv, UNCHANGED vars PROVE IInv'
  <1>1. /\ UNCHANGED <<dinodes, index, data, bitmap, freeblock, din, app, back, arg, got, pc>>
    BY DEF vars
  <1>2. Types'
    BY <1>1 DEF IInv, Types
  <1>3. CASE pc \in {"aborted", "beyond"}
    BY <1>1, <1>2, <1>3 DEF IInv
  <1>4. CASE pc \notin {"aborted", "beyond"}
    <2>1. \A i : Current(i)' = Current(i) /\ Grown(i)' = Grown(i)
      BY <1>1 DEF Current, Grown, Padded
    <2>2. Owned(Spots', freeblock') /\ Blank' /\ Filled'
      BY <1>1, <1>4, <2>1, Kept DEF IInv, Rules
    <2>3. Settled' /\ Waiting' /\ Counts' /\ Appending' /\ Limits' /\ Marked'
      BY <1>1, <1>4 DEF IInv, Rules, Settled, Waiting, Counts, Appending, Limits, Marked,
                        Count, Total, Padded
    <2> QED BY <1>2, <2>2, <2>3 DEF IInv, Rules
  <1> QED BY <1>3, <1>4

(* The end of iappend: the inode in work becomes the file's.               *)
LEMMA AppendReturnStep == ASSUME IInv, AppendReturn PROVE IInv'
  <1>1. /\ Types /\ Owned(Spots, freeblock) /\ Blank /\ Filled /\ Settled /\ Waiting
        /\ Counts /\ Appending /\ Limits /\ Marked /\ pc = "append" /\ app.left = <<>>
    BY DEF IInv, Rules, AppendReturn
  <1>2. PICK i0, u, d : i0 = app.inum /\ u = app.off /\ d = [din EXCEPT !.size = u]
    OBVIOUS
  <1>3. /\ dinodes' = [dinodes EXCEPT ![i0] = d] /\ pc' = back
        /\ UNCHANGED <<index, data, bitmap, freeblock, din, app, back, arg, got>>
    BY <1>2 DEF AppendReturn, Goto
  <1>4. /\ i0 \in DOMAIN dinodes /\ i0 \in {ROOT_INO, Count} /\ u \in Nat
        /\ u <= MAX_FILE * B_SIZE /\ Total = u
        /\ back \in {"dot", "arg", "copy"}
    <2>1. app.inum = ROOT_INO \/ app.inum = Count
      BY <1>1 DEF Appending
    <2>2. ROOT_INO \in DOMAIN dinodes /\ Count \in DOMAIN dinodes
      BY <1>1, Numbers
    <2>3. Len(app.left) = 0
      BY <1>1
    <2>4. app.off \in Nat
      BY <1>1, Kinds
    <2> QED BY <1>1, <1>2, <2>1, <2>2, <2>3, <2>4 DEF Appending, Total
  <1>5. d \in Dinode /\ d.size = u /\ d.addrs = din.addrs
    <2>1. (MAX_FILE + 1) * B_SIZE = MAX_FILE * B_SIZE + B_SIZE /\ MAX_FILE * B_SIZE \in Nat
          /\ B_SIZE \in Nat
      BY Sizes
    <2>2. u \in 0..((MAX_FILE + 1) * B_SIZE)
      BY <1>4, <2>1
    <2>3. din \in Dinode
      BY <1>1 DEF Types
    <2> QED BY <1>2, <2>2, <2>3 DEF Dinode
  <1>6. /\ DOMAIN dinodes' = DOMAIN dinodes /\ dinodes'[i0] = d
        /\ \A i \in DOMAIN dinodes : i # i0 => dinodes'[i] = dinodes[i]
        /\ dinodes' \in Seq(Dinode) /\ Count' = Count
    <2>1. dinodes \in Seq(Dinode)
      BY <1>1 DEF Types
    <2>2. dinodes' \in Seq(Dinode) /\ Len(dinodes') = Len(dinodes)
      BY <1>3, <1>4, <1>5, <2>1
    <2> QED BY <1>3, <1>4, <2>1, <2>2 DEF Count
  <1>7. Types'
    <2>1. Labels' = Labels /\ back \in Labels
      BY <1>1 DEF Types
    <2> QED BY <1>1, <1>3, <1>6, <2>1 DEF Types
  <1>8. \A i \in DOMAIN dinodes : Current(i)'.addrs = Current(i).addrs /\ Grown(i)' = Grown(i)
    <2> SUFFICES ASSUME NEW i \in DOMAIN dinodes
                 PROVE  Current(i)'.addrs = Current(i).addrs /\ Grown(i)' = Grown(i)
      OBVIOUS
    <2>1. pc' # "append" /\ ~Padded'
      BY <1>3, <1>4 DEF Padded
    <2>2. Current(i)' = dinodes'[i] /\ Grown(i)' = dinodes'[i].size
      BY <2>1 DEF Current, Grown
    <2>3. CASE i = i0
      BY <1>1, <1>2, <1>5, <1>6, <2>2, <2>3 DEF Current, Grown
    <2>4. CASE i # i0
      <3>1. ~Padded
        BY <1>1 DEF Padded
      <3> QED BY <1>2, <1>6, <2>2, <2>4, <3>1 DEF Current, Grown
    <2> QED BY <2>3, <2>4
  <1>9. Owned(Spots', freeblock') /\ Blank' /\ Filled'
    BY <1>1, <1>3, <1>6, <1>8, Kept
  <1>10. Settled' /\ Waiting' /\ Appending' /\ Marked'
    BY <1>3, <1>4 DEF Settled, Waiting, Appending, Marked
  <1>11. Limits'
    <2> SUFFICES ASSUME NEW i \in DOMAIN dinodes
                 PROVE  dinodes'[i].size <= MAX_FILE * B_SIZE
      BY <1>6 DEF Limits
    <2>1. CASE i = i0
      BY <1>4, <1>5, <1>6, <2>1
    <2>2. CASE i # i0
      BY <1>1, <1>6, <2>2 DEF Limits, Padded
    <2> QED BY <2>1, <2>2
  <1>12. Counts'
    <2>1. /\ Count \in DOMAIN dinodes /\ ROOT_INO \in DOMAIN dinodes /\ Count \in Nat
          /\ Count >= 1 /\ ROOT_INO = 1
      BY <1>1, Numbers
    <2>2. CASE back = "dot"
      BY <1>1, <1>2, <1>3, <1>4, <1>5, <1>6, <2>1, <2>2 DEF Counts, Appending, Padded
    <2>3. CASE back = "arg"
      BY <1>1, <1>2, <1>3, <1>4, <1>5, <1>6, <2>1, <2>3 DEF Counts, Appending, Padded
    <2>4. CASE back = "copy" /\ i0 = ROOT_INO
      <3>1. /\ Count >= 2 /\ arg = Count + 1 /\ Total = arg /\ got = 0 /\ dinodes[Count].size = 0
        BY <1>1, <1>2, <2>4 DEF Appending
      <3>2. dinodes'[Count] = dinodes[Count] /\ Count # ROOT_INO
        BY <1>6, <2>1, <2>4, <3>1
      <3>3. /\ pc' = "copy" /\ arg' = Count' + 1 /\ Count' >= 2
            /\ dinodes'[ROOT_INO].size = arg' /\ dinodes'[Count'].size = got'
        BY <1>3, <1>4, <1>5, <1>6, <2>4, <3>1, <3>2
      <3>4. Count' >= 1
        BY <1>6, <2>1
      <3> QED BY <3>3, <3>4 DEF Counts, Padded
    <2>5. CASE back = "copy" /\ i0 = Count /\ i0 # ROOT_INO
      <3>1. /\ Count >= 2 /\ arg = Count + 1 /\ Total = got /\ dinodes[ROOT_INO].size = arg
        BY <1>1, <1>2, <2>5 DEF Appending
      <3>2. dinodes'[ROOT_INO] = dinodes[ROOT_INO]
        BY <1>6, <2>1, <2>5
      <3> QED BY <1>3, <1>4, <1>5, <1>6, <2>5, <3>1, <3>2 DEF Counts, Padded
    <2> QED BY <1>4, <2>2, <2>3, <2>4, <2>5
  <1> QED BY <1>7, <1>9, <1>10, <1>11, <1>12 DEF IInv, Rules

(* The empty root directory.                                               *)
LEMMA MakeRootStep == ASSUME IInv, MakeRoot PROVE IInv'
  <1>1. /\ Types /\ Owned(Spots, freeblock) /\ Blank /\ Filled /\ Counts /\ pc = "root"
    BY DEF IInv, Rules, MakeRoot
  <1>2. PICK d : d = NewInode("dir")
    OBVIOUS
  <1>3. /\ dinodes' = Append(dinodes, d) /\ pc' = "dot"
        /\ UNCHANGED <<index, data, bitmap, freeblock, din, app, back, arg, got>>
    BY <1>2 DEF MakeRoot, Goto
  <1>4. d \in Dinode /\ d.size = 0 /\ d.addrs = [k \in 0..DIRECT_NUM |-> 0]
    BY <1>2, Empty
  <1>5. /\ dinodes \in Seq(Dinode) /\ Count = 0 /\ DOMAIN dinodes = {} /\ arg = 0
    BY <1>1, Kinds DEF Types, Counts
  <1>6. /\ dinodes' \in Seq(Dinode) /\ Len(dinodes') = 1 /\ dinodes'[1] = d
        /\ DOMAIN dinodes' = {1}
    BY <1>3, <1>4, <1>5 DEF Count
  <1>7. Types'
    BY <1>1, <1>3, <1>6 DEF Types, Labels
  <1>8. Current(1)' = d /\ Grown(1)' = 0
    BY <1>3, <1>4, <1>6 DEF Current, Grown, Padded
  <1>9. Owned(Spots', freeblock') /\ Blank' /\ Filled'
    <2>1. DOMAIN dinodes \subseteq DOMAIN dinodes'
      BY <1>5
    <2>2. \A i \in DOMAIN dinodes : Current(i)'.addrs = Current(i).addrs /\ Grown(i)' = Grown(i)
      BY <1>5
    <2>3. \A i \in DOMAIN dinodes' \ DOMAIN dinodes :
              Current(i)'.addrs = [k \in 0..DIRECT_NUM |-> 0] /\ Grown(i)' = 0
      BY <1>4, <1>6, <1>8
    <2> QED BY <1>1, <1>3, <2>1, <2>2, <2>3, Kept
  <1>10. Settled' /\ Waiting' /\ Appending' /\ Marked'
    BY <1>3 DEF Settled, Waiting, Appending, Marked
  <1>11. Limits'
    <2>1. 0 <= MAX_FILE * B_SIZE
      BY Sizes
    <2> QED BY <1>4, <1>6, <2>1 DEF Limits
  <1>12. Counts'
    BY <1>3, <1>4, <1>5, <1>6 DEF Counts, Padded, Count, ROOT_INO
  <1> QED BY <1>7, <1>9, <1>10, <1>11, <1>12 DEF IInv, Rules

(* The call of iappend for the entries "." and "..".                       *)
LEMMA EnterDotsStep == ASSUME IInv, EnterDots PROVE IInv'
  <1>1. /\ Types /\ Owned(Spots, freeblock) /\ Blank /\ Filled /\ Counts /\ Limits
        /\ pc = "dot" /\ arg < 2
    BY DEF IInv, Rules, EnterDots
  <1>2. /\ ROOT_INO \in DOMAIN dinodes /\ ROOT_INO = 1 /\ Count = 1 /\ arg <= 1 /\ arg \in Nat
        /\ dinodes[ROOT_INO].size = arg /\ dinodes[ROOT_INO] \in Dinode
        /\ DOMAIN dinodes = 1..Count
    BY <1>1, Numbers, Kinds DEF Counts
  <1>3. PICK w, label : w = Dirent(ROOT_INO, arg) /\ label = (IF arg = 0 THEN "dot" ELSE "arg")
    OBVIOUS
  <1>4. /\ din' = dinodes[ROOT_INO] /\ arg' = arg + 1 /\ pc' = "append" /\ back' = label
        /\ app' = [inum |-> ROOT_INO, off |-> arg, left |-> <<w>>]
        /\ UNCHANGED <<dinodes, index, data, bitmap, freeblock, got>>
    BY <1>2, <1>3 DEF EnterDots, CallAppend, Goto
  <1>5. w \in Units
    <2>1. 1 \in 1..MAXARG /\ arg \in 0..MAXARG
      BY <1>2, Sizes
    <2> QED BY <1>2, <1>3, <2>1 DEF Units
  <1>6. /\ app'.inum = ROOT_INO /\ app'.off = arg /\ app'.left = <<w>> /\ app' \in Calls
        /\ Len(app'.left) = 1 /\ Total' = arg + 1 /\ Count' = Count
    BY <1>2, <1>4, <1>5 DEF Calls, Total, Count
  <1>7. Types'
    <2>1. arg + 1 \in 0..(MAXARG + 1) /\ label \in Labels
      BY <1>2, <1>3, Sizes DEF Labels
    <2> QED BY <1>1, <1>2, <1>4, <1>6, <2>1 DEF Types, Labels
  <1>8. Owned(Spots', freeblock') /\ Blank' /\ Filled'
    <2>1. ASSUME NEW i \in DOMAIN dinodes
          PROVE  Current(i)'.addrs = Current(i).addrs /\ Grown(i)' = Grown(i)
      <3>1. Current(i)' = dinodes[i] /\ Current(i) = dinodes[i]
        BY <1>1, <1>4, <1>6 DEF Current
      <3>2. Grown(i)' = dinodes[i].size /\ Grown(i) = dinodes[i].size
        BY <1>1, <1>2, <1>4, <1>6 DEF Grown, Padded
      <3> QED BY <3>1, <3>2
    <2> QED BY <1>1, <1>4, <2>1, Kept
  <1>9. Settled' /\ Marked'
    BY <1>4, <1>6 DEF Settled, Marked
  <1>10. Waiting'
    <2>1. w = Meant(ROOT_INO, arg)
      BY <1>2, <1>3 DEF Meant
    <2>2. \A k \in 1..1 : k = 1
      OBVIOUS
    <2>3. arg + 1 - 1 = arg /\ <<w>>[1] = w
      BY <1>2
    <2> QED BY <1>6, <2>1, <2>2, <2>3 DEF Waiting
  <1>11. Limits'
    BY <1>1, <1>4 DEF Limits, Padded
  <1>12. Counts'
    BY <1>2, <1>4, <1>6 DEF Counts, Padded
  <1>13. Appending'
    <2>1. arg <= MAX_FILE * B_SIZE
      BY <1>1, <1>2 DEF Limits, Padded
    <2>2. arg + 1 - 1 = arg /\ arg <= arg
      BY <1>2
    <2>3. CASE arg = 0
      BY <1>2, <1>3, <1>4, <1>6, <2>1, <2>2, <2>3 DEF Appending
    <2>4. CASE arg = 1
      BY <1>2, <1>3, <1>4, <1>6, <2>1, <2>2, <2>4 DEF Appending
    <2> QED BY <1>2, <2>3, <2>4
  <1> QED BY <1>7, <1>8, <1>9, <1>10, <1>11, <1>12, <1>13 DEF IInv, Rules

(* The next argument: an empty inode, and the call that enters it.         *)
LEMMA OpenFileStep == ASSUME IInv, OpenFile PROVE IInv'
  <1>1. /\ Types /\ Owned(Spots, freeblock) /\ Blank /\ Filled /\ Counts /\ Limits
        /\ pc = "arg" /\ arg <= MAXARG
    BY DEF IInv, Rules, OpenFile
  <1>2. /\ ROOT_INO \in DOMAIN dinodes /\ ROOT_INO = 1 /\ Count \in Nat /\ Count >= 1
        /\ arg = Count + 1 /\ arg \in Nat
        /\ dinodes[ROOT_INO].size = arg /\ dinodes[ROOT_INO] \in Dinode
        /\ DOMAIN dinodes = 1..Count /\ dinodes \in Seq(Dinode) /\ Len(dinodes) = Count
    BY <1>1, Numbers, Kinds DEF Counts, Types, Count
  <1>3. PICK w, d : w = Dirent(freeinode, arg) /\ d = NewInode("file")
    OBVIOUS
  <1>4. /\ din' = dinodes[ROOT_INO] /\ arg' = arg + 1 /\ pc' = "append" /\ back' = "copy"
        /\ app' = [inum |-> ROOT_INO, off |-> arg, left |-> <<w>>]
        /\ dinodes' = Append(dinodes, d) /\ got' = 0
        /\ UNCHANGED <<index, data, bitmap, freeblock>>
    BY <1>2, <1>3 DEF OpenFile, CallAppend, Goto
  <1>5. w = Dirent(arg, arg) /\ w \in Units
    <2>1. arg \in 1..MAXARG /\ arg \in 0..MAXARG
      BY <1>1, <1>2, Sizes
    <2> QED BY <1>2, <1>3, <2>1 DEF Units, freeinode
  <1>6. /\ app'.inum = ROOT_INO /\ app'.off = arg /\ app'.left = <<w>> /\ app' \in Calls
        /\ Len(app'.left) = 1 /\ Total' = arg + 1
    BY <1>2, <1>4, <1>5 DEF Calls, Total
  <1>7. d \in Dinode /\ d.size = 0 /\ d.addrs = [k \in 0..DIRECT_NUM |-> 0]
    BY <1>3, Empty
  <1>8. /\ dinodes' \in Seq(Dinode) /\ Count' = Count + 1 /\ DOMAIN dinodes' = 1..(Count + 1)
        /\ dinodes'[Count + 1] = d /\ \A i \in 1..Count : dinodes'[i] = dinodes[i]
        /\ DOMAIN dinodes \subseteq DOMAIN dinodes' /\ Count + 1 # ROOT_INO
        /\ DOMAIN dinodes' \ DOMAIN dinodes = {Count + 1}
    BY <1>2, <1>4, <1>7 DEF Count
  <1>9. Types'
    <2>1. arg + 1 \in 0..(MAXARG + 1) /\ 0 \in 0..MAXLEN
      BY <1>1, <1>2, Sizes
    <2> QED BY <1>1, <1>2, <1>4, <1>6, <1>8, <2>1 DEF Types, Labels
  <1>10. Owned(Spots', freeblock') /\ Blank' /\ Filled'
    <2>1. ASSUME NEW i \in DOMAIN dinodes
          PROVE  Current(i)'.addrs = Current(i).addrs /\ Grown(i)' = Grown(i)
      <3>1. dinodes'[i] = dinodes[i]
        BY <1>2, <1>8
      <3>2. Current(i)' = dinodes[i] /\ Current(i) = dinodes[i]
        BY <1>1, <1>4, <1>6, <3>1 DEF Current
      <3>3. Grown(i)' = dinodes[i].size /\ Grown(i) = dinodes[i].size
        BY <1>1, <1>2, <1>4, <1>6, <3>1 DEF Grown, Padded
      <3> QED BY <3>2, <3>3
    <2>2. \A i \in DOMAIN dinodes' \ DOMAIN dinodes :
              Current(i)'.addrs = [k \in 0..DIRECT_NUM |-> 0] /\ Grown(i)' = 0
      BY <1>4, <1>6, <1>7, <1>8 DEF Current, Grown, Padded
    <2> QED BY <1>1, <1>4, <1>8, <2>1, <2>2, Kept
  <1>11. Settled' /\ Marked'
    <2>1. dinodes'[ROOT_INO] = dinodes[ROOT_INO]
      BY <1>2, <1>8
    <2> QED BY <1>4, <1>6, <2>1 DEF Settled, Marked
  <1>12. Waiting'
    <2>1. w = Meant(ROOT_INO, arg)
      BY <1>2, <1>5 DEF Meant
    <2>2. \A k \in 1..1 : k = 1
      OBVIOUS
    <2>3. arg + 1 - 1 = arg /\ <<w>>[1] = w
      BY <1>2
    <2> QED BY <1>6, <2>1, <2>2, <2>3 DEF Waiting
  <1>13. Limits'
    <2>1. 0 <= MAX_FILE * B_SIZE
      BY Sizes
    <2>2. \A i \in 1..Count : dinodes[i].size <= MAX_FILE * B_SIZE
      BY <1>1, <1>2 DEF Limits, Padded
    <2>3. \A i \in 1..(Count + 1) : i \in 1..Count \/ i = Count + 1
      BY <1>2
    <2> QED BY <1>7, <1>8, <2>1, <2>2, <2>3 DEF Limits
  <1>14. Counts'
    BY <1>2, <1>4, <1>8 DEF Counts, Padded
  <1>15. Appending'
    <2>1. arg <= MAX_FILE * B_SIZE
      BY <1>1, <1>2 DEF Limits, Padded
    <2>2. /\ arg + 1 - 1 = arg /\ arg <= arg /\ Count + 1 >= 2 /\ arg + 1 = Count + 1 + 1
      BY <1>2
    <2>3. dinodes'[ROOT_INO].size = arg /\ dinodes'[Count + 1].size = 0
      BY <1>2, <1>7, <1>8
    <2> QED BY <1>2, <1>4, <1>6, <1>8, <2>1, <2>2, <2>3 DEF Appending
  <1> QED BY <1>9, <1>10, <1>11, <1>12, <1>13, <1>14, <1>15 DEF IInv, Rules

(* A chunk of the file is read: the call of iappend that writes it.        *)
LEMMA CopyChunkStep == ASSUME IInv, CopyChunk PROVE IInv'
  <1>1. /\ Types /\ Owned(Spots, freeblock) /\ Blank /\ Filled /\ Counts /\ Limits
        /\ pc = "copy"
    BY DEF IInv, Rules, CopyChunk
  <1>2. PICK n, c : n = Count /\ c \in 1..B_SIZE /\ got + c <= MAXLEN /\ got' = got + c
                    /\ din' = dinodes[n]
                    /\ CallAppend(n, dinodes[n].size,
                                  [k \in 1..c |-> Copied(n, got + k)], "copy")
                    /\ UNCHANGED <<dinodes, index, data, bitmap, freeblock, arg>>
    BY DEF CopyChunk, Count
  <1>3. /\ ROOT_INO \in DOMAIN dinodes /\ n \in DOMAIN dinodes /\ ROOT_INO = 1
        /\ n \in Nat /\ n >= 2 /\ arg = n + 1 /\ dinodes[ROOT_INO].size = arg
        /\ dinodes[n].size = got /\ dinodes[n] \in Dinode /\ got \in Nat
        /\ n \in 2..MAXARG /\ n # ROOT_INO
    <2>1. /\ ROOT_INO \in DOMAIN dinodes /\ Count \in DOMAIN dinodes /\ ROOT_INO = 1
          /\ Count \in Nat /\ Count >= 2 /\ arg = Count + 1 /\ dinodes[ROOT_INO].size = arg
          /\ dinodes[Count].size = got
      BY <1>1, Numbers DEF Counts
    <2>2. dinodes[Count] \in Dinode /\ got \in Nat
      BY <1>1, <2>1, Kinds
    <2>3. arg <= MAXARG + 1
      BY <1>1, Sizes DEF Types
    <2> QED BY <1>2, <2>1, <2>2, <2>3, Sizes
  <1>4. PICK units : units = [k \in 1..c |-> Copied(n, got + k)]
    OBVIOUS
  <1>5. c \in Nat /\ c >= 1 /\ c <= B_SIZE /\ B_SIZE \in Nat /\ MAXLEN \in Nat
    BY <1>2, Sizes
  <1>6. units \in Seq(Units) /\ Len(units) = c
    <2>1. ASSUME NEW k \in 1..c PROVE Copied(n, got + k) \in Units
      <3>1. got + k \in 1..MAXLEN
        BY <1>2, <1>3, <1>5
      <3> QED BY <1>3, <3>1 DEF Units
    <2> QED BY <1>4, <1>5, <2>1
  <1>7. /\ pc' = "append" /\ back' = "copy"
        /\ app' = [inum |-> n, off |-> got, left |-> units]
    BY <1>2, <1>3, <1>4 DEF CallAppend, Goto
  <1>8. /\ app'.inum = n /\ app'.off = got /\ app'.left = units /\ app' \in Calls
        /\ Total' = got + c /\ Count' = n
    BY <1>2, <1>3, <1>6, <1>7 DEF Calls, Total, Count
  <1>9. Types'
    <2>1. got + c \in 0..MAXLEN
      BY <1>2, <1>3, <1>5
    <2> QED BY <1>1, <1>2, <1>3, <1>7, <1>8, <2>1 DEF Types, Labels
  <1>10. Owned(Spots', freeblock') /\ Blank' /\ Filled'
    <2>1. ASSUME NEW i \in DOMAIN dinodes
          PROVE  Current(i)'.addrs = Current(i).addrs /\ Grown(i)' = Grown(i)
      <3>1. Current(i)' = dinodes[i] /\ Current(i) = dinodes[i]
        BY <1>1, <1>2, <1>7, <1>8 DEF Current
      <3>2. Grown(i)' = dinodes[i].size /\ Grown(i) = dinodes[i].size
        BY <1>1, <1>2, <1>3, <1>7, <1>8 DEF Grown, Padded
      <3> QED BY <3>1, <3>2
    <2> QED BY <1>1, <1>2, <2>1, Kept
  <1>11. Settled' /\ Marked'
    BY <1>2, <1>7, <1>8 DEF Settled, Marked
  <1>12. Waiting'
    <2> SUFFICES ASSUME NEW k \in 1..c PROVE units[k] = Meant(n, got + k - 1)
      BY <1>6, <1>8 DEF Waiting
    <2>1. got + k - 1 + 1 = got + k
      BY <1>3, <1>5
    <2> QED BY <1>3, <1>4, <2>1 DEF Meant
  <1>13. Limits'
    BY <1>1, <1>2 DEF Limits, Padded
  <1>14. Counts'
    BY <1>3, <1>7, <1>8 DEF Counts, Padded
  <1>15. Appending'
    <2>1. got <= MAX_FILE * B_SIZE
      BY <1>1, <1>3 DEF Limits, Padded
    <2>2. got < got + c /\ got + c <= got + B_SIZE /\ got <= got
      BY <1>3, <1>5
    <2> QED BY <1>2, <1>3, <1>7, <1>8, <2>1, <2>2 DEF Appending
  <1> QED BY <1>9, <1>10, <1>11, <1>12, <1>13, <1>14, <1>15 DEF IInv, Rules

(* Steps of main that change neither an inode nor the bitmap.              *)
LEMMA GotoStep ==
    ASSUME IInv, NEW label, label \in {"arg", "failed"},
           pc = "copy" \/ (pc = "arg" /\ label = "failed"), pc' = label,
           UNCHANGED <<dinodes, index, data, bitmap, freeblock, din, app, back, arg, got>>
    PROVE  IInv'
  <1>1. /\ Types /\ Owned(Spots, freeblock) /\ Blank /\ Filled /\ Counts /\ Limits
    BY DEF IInv, Rules
  <1>2. Types'
    BY <1>1 DEF Types, Labels
  <1>3. Owned(Spots', freeblock') /\ Blank' /\ Filled'
    <2>1. \A i \in DOMAIN dinodes : Current(i)' = Current(i) /\ Grown(i)' = Grown(i)
      BY DEF Current, Grown, Padded
    <2> QED BY <1>1, <2>1, Kept
  <1>4. Settled' /\ Waiting' /\ Appending' /\ Marked'
    BY DEF Settled, Waiting, Appending, Marked
  <1>5. Limits' /\ Counts'
    BY <1>1 DEF Limits, Counts, Padded, Count
  <1> QED BY <1>2, <1>3, <1>4, <1>5 DEF IInv, Rules

(* The file that cannot be opened: the program returns.                    *)
LEMMA OpenFailsStep == ASSUME IInv, OpenFails PROVE IInv'
  BY GotoStep DEF OpenFails, Goto

(* The end of a file that was copied.                                      *)
LEMMA CloseFileStep == ASSUME IInv, CloseFile PROVE IInv'
  BY GotoStep DEF CloseFile, Goto

(* The size of the root is rounded up: what is there stays what it is.     *)
LEMMA RoundRootStep == ASSUME IInv, RoundRoot PROVE IInv'
  <1>1. /\ Types /\ Owned(Spots, freeblock) /\ Blank /\ Filled /\ Counts /\ Limits
        /\ pc = "arg"
    BY DEF IInv, Rules, RoundRoot
  <1>2. /\ ROOT_INO \in DOMAIN dinodes /\ ROOT_INO = 1 /\ Count \in Nat /\ Count >= 1
        /\ arg = Count + 1 /\ arg \in Nat /\ dinodes \in Seq(Dinode)
        /\ dinodes[ROOT_INO].size = arg /\ dinodes[ROOT_INO] \in Dinode
        /\ DOMAIN dinodes = 1..Count
    BY <1>1, Numbers, Kinds DEF Counts, Types
  <1>3. PICK z, d : /\ z = (dinodes[ROOT_INO].size \div B_SIZE + 1) * B_SIZE
                    /\ d = [dinodes[ROOT_INO] EXCEPT !.size = z]
    OBVIOUS
  <1>4. /\ dinodes' = [dinodes EXCEPT ![ROOT_INO] = d] /\ pc' = "bitmap"
        /\ UNCHANGED <<index, data, bitmap, freeblock, din, app, back, arg, got>>
    BY <1>2, <1>3 DEF RoundRoot, Goto
  <1>5. z = (arg \div B_SIZE + 1) * B_SIZE /\ z \in 0..((MAX_FILE + 1) * B_SIZE)
    <2>1. B_SIZE \in Nat \ {0} /\ MAX_FILE \in Nat
      BY Sizes
    <2>2. arg <= MAX_FILE * B_SIZE /\ arg \div B_SIZE \in Nat
      BY <1>1, <1>2, <2>1, Division DEF Limits, Padded
    <2>3. arg \div B_SIZE <= MAX_FILE
      <3>1. arg < (MAX_FILE + 1) * B_SIZE
        <4>1. (MAX_FILE + 1) * B_SIZE = MAX_FILE * B_SIZE + B_SIZE /\ MAX_FILE * B_SIZE \in Nat
          BY <2>1
        <4> QED BY <1>2, <2>1, <2>2, <4>1
      <3>2. arg \div B_SIZE < MAX_FILE + 1
        <4>1. MAX_FILE + 1 \in Nat
          BY <2>1
        <4> QED BY <1>2, <2>1, <3>1, <4>1, Below
      <3> QED BY <2>1, <2>2, <3>2
    <2>4. \A x, y, b \in Nat : x <= y => (x + 1) * b \in 0..((y + 1) * b)
      <3> SUFFICES ASSUME NEW x \in Nat, NEW y \in Nat, NEW b \in Nat, x <= y
                   PROVE  (x + 1) * b \in 0..((y + 1) * b)
        OBVIOUS
      <3>1. (x + 1) * b \in Nat /\ (y + 1) * b \in Nat
        OBVIOUS
      <3>2. x + 1 <= y + 1
        OBVIOUS
      <3>3. (x + 1) * b <= (y + 1) * b
        BY <3>2
      <3> QED BY <3>1, <3>3
    <2>5. (arg \div B_SIZE + 1) * B_SIZE \in 0..((MAX_FILE + 1) * B_SIZE)
      BY <2>1, <2>2, <2>3, <2>4
    <2> QED BY <1>2, <1>3, <2>5
  <1>6. d \in Dinode /\ d.size = z /\ d.addrs = dinodes[ROOT_INO].addrs
    BY <1>2, <1>3, <1>5 DEF Dinode
  <1>7. /\ DOMAIN dinodes' = DOMAIN dinodes /\ dinodes'[ROOT_INO] = d /\ Count' = Count
        /\ \A i \in DOMAIN dinodes : i # ROOT_INO => dinodes'[i] = dinodes[i]
        /\ dinodes' \in Seq(Dinode)
    BY <1>2, <1>4, <1>6 DEF Count
  <1>8. Types'
    BY <1>1, <1>4, <1>7 DEF Types, Labels
  <1>9. Owned(Spots', freeblock') /\ Blank' /\ Filled'
    <2>1. ASSUME NEW i \in DOMAIN dinodes
          PROVE  Current(i)'.addrs = Current(i).addrs /\ Grown(i)' = Grown(i)
      <3>1. Current(i)' = dinodes'[i] /\ Current(i) = dinodes[i]
        BY <1>1, <1>4 DEF Current
      <3>2. Grown(i) = dinodes[i].size
        BY <1>1 DEF Grown, Padded
      <3>3. Grown(i)' = IF i = ROOT_INO THEN arg ELSE dinodes'[i].size
        BY <1>4 DEF Grown, Padded
      <3> QED BY <1>2, <1>6, <1>7, <3>1, <3>2, <3>3
    <2> QED BY <1>1, <1>4, <1>7, <2>1, Kept
  <1>10. Settled' /\ Waiting' /\ Appending' /\ Marked'
    BY <1>4 DEF Settled, Waiting, Appending, Marked
  <1>11. Limits'
    BY <1>1, <1>4, <1>7 DEF Limits, Padded
  <1>12. Counts'
    BY <1>2, <1>4, <1>5, <1>6, <1>7 DEF Counts, Padded
  <1> QED BY <1>8, <1>9, <1>10, <1>11, <1>12 DEF IInv, Rules

(* The bitmap: one bit for each block handed out.                          *)
LEMMA BallocStep == ASSUME IInv, Balloc PROVE IInv'
  <1>1. /\ Types /\ Owned(Spots, freeblock) /\ Blank /\ Filled /\ Counts /\ Limits
        /\ pc = "bitmap"
        /\ UNCHANGED <<dinodes, index, data, freeblock, din, app, back, arg, got>>
    BY DEF IInv, Rules, Balloc
  <1>2. CASE freeblock < BPB
    <2>1. bitmap' = 0..(freeblock - 1) /\ pc' = "done"
      BY <1>2 DEF Balloc, Goto
    <2>2. Types'
      BY <1>1, <2>1 DEF Types, Labels
    <2>3. Owned(Spots', freeblock') /\ Blank' /\ Filled'
      <3>1. \A i \in DOMAIN dinodes : Current(i)' = Current(i) /\ Grown(i)' = Grown(i)
        BY <1>1, <2>1 DEF Current, Grown, Padded
      <3> QED BY <1>1, <3>1, Kept
    <2>4. Settled' /\ Waiting' /\ Appending' /\ Marked'
      BY <1>1, <2>1 DEF Settled, Waiting, Appending, Marked
    <2>5. Limits' /\ Counts'
      BY <1>1, <2>1 DEF Limits, Counts, Padded, Count
    <2> QED BY <2>2, <2>3, <2>4, <2>5 DEF IInv, Rules
  <1>3. CASE ~(freeblock < BPB)
    BY <1>1, <1>3 DEF Balloc, Goto, IInv, Types, Labels
  <1> QED BY <1>2, <1>3

-----------------------------------------------------------------------------
(* Theorems *)

(* Before the first inode.                                                 *)
LEMMA InitIInv == Init => IInv
  <1> SUFFICES ASSUME Init PROVE IInv
    OBVIOUS
  <1>1. dinodes = <<>> /\ Len(dinodes) = 0 /\ DOMAIN dinodes = {} /\ dinodes \in Seq(Dinode)
    BY DEF Init
  <1>2. \A b \in Blocks : b \in Nat
    BY Sizes DEF Blocks
  <1>3. Types
    <2>1. NewInode("dir") \in Dinode
      BY Empty
    <2>2. Zero \in Units
      BY DEF Units
    <2>3. freeblock \in meta_num..FS_SIZE /\ arg \in 0..(MAXARG + 1) /\ got \in 0..MAXLEN
      BY Sizes DEF Init
    <2>4. index \in [Blocks -> [Slots -> {0} \cup Blocks]]
      BY DEF Init, Slots
    <2>5. data \in [Blocks -> [Cells -> Units]]
      BY <2>2 DEF Init, Cells
    <2>6. app \in Calls
      BY DEF Init, Calls, ROOT_INO
    <2> QED BY <1>1, <2>1, <2>3, <2>4, <2>5, <2>6 DEF Init, Types, Labels
  <1>4. Owned(Spots, freeblock)
    <2>1. DOMAIN Spots = {}
      BY <1>1 DEF Spots
    <2>2. meta_num..(freeblock - 1) = {}
      BY Sizes DEF Init
    <2> QED BY <2>1, <2>2 DEF Owned, Once
  <1>5. Blank
    BY DEF Init, Blank, Slots, Cells
  <1>6. Filled /\ Settled /\ Waiting /\ Counts /\ Appending /\ Limits /\ Marked
    BY <1>1 DEF Init, Filled, Settled, Waiting, Counts, Appending, Limits, Marked, Padded, Count
  <1> QED BY <1>3, <1>4, <1>5, <1>6 DEF IInv, Rules

(* Every step of the program keeps the invariant.                          *)
LEMMA NextIInv == IInv /\ [Next]_vars => IInv'
  <1> SUFFICES ASSUME IInv, [Next]_vars PROVE IInv'
    OBVIOUS
  <1>1. CASE AppendDirect
    BY <1>1, AppendDirectStep
  <1>2. CASE AppendIndirect
    BY <1>2, AppendIndirectStep
  <1>3. CASE AppendAborts
    BY <1>3, AppendAbortsStep
  <1>4. CASE AppendReturn
    BY <1>4, AppendReturnStep
  <1>5. CASE MakeRoot
    BY <1>5, MakeRootStep
  <1>6. CASE EnterDots
    BY <1>6, EnterDotsStep
  <1>7. CASE OpenFile
    BY <1>7, OpenFileStep
  <1>8. CASE OpenFails
    BY <1>8, OpenFailsStep
  <1>9. CASE CopyChunk
    BY <1>9, CopyChunkStep
  <1>10. CASE CloseFile
    BY <1>10, CloseFileStep
  <1>11. CASE RoundRoot
    BY <1>11, RoundRootStep
  <1>12. CASE Balloc
    BY <1>12, BallocStep
  <1>13. CASE Exited \/ UNCHANGED vars
    BY <1>13, StutterStep DEF Exited
  <1>14. CASE AppendBeyond
    BY <1>14, AppendBeyondStep
  <1>15. CASE OpenBeyond
    BY <1>15, OpenBeyondStep
  <1> QED BY <1>1, <1>2, <1>3, <1>4, <1>5, <1>6, <1>7, <1>8, <1>9, <1>10, <1>11, <1>12, <1>13,
             <1>14, <1>15 DEF Next

(* The inductive invariant holds in every state of mkfs up to the first    *)
(* inode or block for which the inode table or the image has no room.      *)
THEOREM Invariance == Spec => []IInv
  <1>1. Init => IInv
    BY InitIInv
  <1>2. IInv /\ [Next]_vars => IInv'
    BY NextIInv
  <1> QED BY <1>1, <1>2, PTL DEF Spec

(* Every inode written lies in the inode table.                            *)
Tabled == \A i \in DOMAIN dinodes : InTable(i)

(* The inodes of the next state are those there were.                      *)
LEMMA SameTabled == ASSUME Tabled, DOMAIN dinodes' = DOMAIN dinodes PROVE Tabled'
  BY DEF Tabled, InTable, inode_blocks_num

(* ialloc takes the next inode of the table.                               *)
LEMMA MoreTabled ==
    ASSUME Types, Tabled, NEW d, dinodes' = Append(dinodes, d), InTable(Len(dinodes) + 1)
    PROVE  Tabled'
  <1>1. dinodes \in Seq(Dinode)
    BY DEF Types
  <1>2. DOMAIN dinodes' = DOMAIN dinodes \cup {Len(dinodes) + 1}
    BY <1>1
  <1> QED BY <1>2 DEF Tabled, InTable, inode_blocks_num

(* Every step keeps the inodes in the table.                               *)
LEMMA TabledStep == IInv /\ Tabled /\ [Next]_vars => Tabled'
  <1> SUFFICES ASSUME IInv, Tabled, [Next]_vars PROVE Tabled'
    OBVIOUS
  <1>1. CASE MakeRoot
    <2>1. Types /\ dinodes' = Append(dinodes, NewInode("dir"))
      BY <1>1 DEF MakeRoot, IInv
    <2>2. Len(dinodes) + 1 = ROOT_INO
      BY <1>1 DEF MakeRoot, IInv, Rules, Counts, Count, ROOT_INO
    <2> QED BY <2>1, <2>2, MoreTabled, RoomAssumption
  <1>2. CASE OpenFile
    BY <1>2, MoreTabled DEF OpenFile, freeinode, IInv
  <1>3. CASE AppendReturn
    <2>1. DOMAIN dinodes' = DOMAIN dinodes
      BY <1>3 DEF AppendReturn
    <2> QED BY <2>1, SameTabled
  <1>4. CASE RoundRoot
    <2>1. DOMAIN dinodes' = DOMAIN dinodes
      BY <1>4 DEF RoundRoot
    <2> QED BY <2>1, SameTabled
  <1>5. ASSUME UNCHANGED dinodes
        PROVE  Tabled'
    BY <1>5, SameTabled
  <1> QED BY <1>1, <1>2, <1>3, <1>4, <1>5
          DEF Next, AppendDirect, AppendIndirect, AppendBeyond, AppendAborts, EnterDots,
              OpenBeyond, OpenFails, CopyChunk, CloseFile, Balloc, Exited, vars

(* TypeOK: the variables of mkfs keep their types, every inode written     *)
(* lies in the inode table, and every block handed out on the image.       *)
THEOREM TypeCorrect == Spec => []TypeOK
  <1>1. IInv /\ Tabled => TypeOK
    BY DEF IInv, Types, Tabled, TypeOK, Slots, Cells, Calls
  <1>2. Init => Tabled
    BY DEF Init, Tabled
  <1>3. Spec => []Tabled
    BY <1>2, TabledStep, Invariance, PTL DEF Spec
  <1> QED BY <1>1, <1>3, Invariance, PTL

(* An entry of an index block is a place of the file that has it.          *)
LEMMA TableSpot ==
    ASSUME Types, NEW t \in Tables, NEW k \in Slots
    PROVE  \E i \in DOMAIN dinodes :
               /\ Spot(i, DIRECT_NUM) = t /\ t # 0
               /\ DIRECT_NUM + 1 + k \in Places /\ ~(DIRECT_NUM + 1 + k <= DIRECT_NUM)
               /\ Spot(i, DIRECT_NUM + 1 + k) = index[t][k]
  <1>1. PICK i \in DOMAIN dinodes : t = Current(i).addrs[DIRECT_NUM] /\ t # 0
    BY DEF Tables
  <1>2. PICK p : p = DIRECT_NUM + 1 + k
    OBVIOUS
  <1>3. p \in Places /\ ~(p <= DIRECT_NUM) /\ p - DIRECT_NUM - 1 = k
    BY <1>2, Sizes DEF Slots, Places
  <1>4. Spot(i, DIRECT_NUM) = t /\ Spot(i, p) = index[t][k]
    BY <1>1, <1>3, SpotKinds
  <1> QED BY <1>1, <1>2, <1>3, <1>4

(* How often the files use a block.                                        *)
LEMMA UsesOnce ==
    ASSUME Types, Owned(Spots, freeblock), NEW b \in Blocks
    PROVE  Uses(b) = IF b < freeblock THEN 1 ELSE 0
  <1> DEFINE A == {e \in (DOMAIN dinodes) \X (0..DIRECT_NUM) :
                      Current(e[1]).addrs[e[2]] = b}
             C == {e \in Tables \X (0..(INDIRECT_NUM - 1)) : index[e[1]][e[2]] = b}
  <1>1. Uses(b) = Cardinality(A) + Cardinality(C)
    BY DEF Uses
  <1>2. b # 0 /\ b \in Nat /\ meta_num <= b /\ freeblock \in Nat
    BY Kinds
  <1>3. ASSUME NEW e \in A
        PROVE  /\ e[1] \in DOMAIN dinodes /\ e[2] \in Places /\ e[2] <= DIRECT_NUM
               /\ Spot(e[1], e[2]) = b /\ e = <<e[1], e[2]>>
    <2>1. /\ e[1] \in DOMAIN dinodes /\ e[2] \in 0..DIRECT_NUM /\ e = <<e[1], e[2]>>
          /\ Current(e[1]).addrs[e[2]] = b
      OBVIOUS
    <2>2. e[2] \in Places /\ e[2] <= DIRECT_NUM
      BY <2>1, Sizes DEF Places
    <2> QED BY <2>1, <2>2, SpotKinds
  <1>4. ASSUME NEW e \in C
        PROVE  \E i \in DOMAIN dinodes :
                  /\ e = <<Spot(i, DIRECT_NUM), e[2]>> /\ e[2] \in Nat
                  /\ DIRECT_NUM + 1 + e[2] \in Places /\ ~(DIRECT_NUM + 1 + e[2] <= DIRECT_NUM)
                  /\ Spot(i, DIRECT_NUM + 1 + e[2]) = b
    <2>1. PICK t, k : t = e[1] /\ k = e[2]
      OBVIOUS
    <2>2. t \in Tables /\ k \in Slots /\ e = <<t, k>> /\ index[t][k] = b
      BY <2>1 DEF Slots
    <2>3. PICK i \in DOMAIN dinodes :
               /\ Spot(i, DIRECT_NUM) = t /\ t # 0
               /\ DIRECT_NUM + 1 + k \in Places /\ ~(DIRECT_NUM + 1 + k <= DIRECT_NUM)
               /\ Spot(i, DIRECT_NUM + 1 + k) = index[t][k]
      BY <2>2, TableSpot
    <2>4. k \in Nat
      BY <2>2, Sizes DEF Slots
    <2> QED BY <2>1, <2>2, <2>3, <2>4
  <1>5. ASSUME NEW i \in DOMAIN dinodes, NEW p \in Places, Spot(i, p) = b, p <= DIRECT_NUM
        PROVE  <<i, p>> \in A
    <2>1. Current(i).addrs[p] = b /\ p \in 0..DIRECT_NUM
      BY <1>5, SpotKinds
    <2> QED BY <2>1
  <1>6. ASSUME NEW i \in DOMAIN dinodes, NEW p \in Places, Spot(i, p) = b, ~(p <= DIRECT_NUM)
        PROVE  <<Spot(i, DIRECT_NUM), p - DIRECT_NUM - 1>> \in C
    <2>1. /\ p - DIRECT_NUM - 1 \in Slots /\ Spot(i, DIRECT_NUM) # 0
          /\ index[Spot(i, DIRECT_NUM)][p - DIRECT_NUM - 1] = b
          /\ Spot(i, DIRECT_NUM) = Current(i).addrs[DIRECT_NUM]
      BY <1>2, <1>6, SpotKinds
    <2>2. Spot(i, DIRECT_NUM) \in Tables
      BY <2>1 DEF Tables
    <2> QED BY <2>1, <2>2 DEF Slots
  <1> HIDE DEF A, C
  <1>7. \A i, j \in DOMAIN dinodes, p, q \in Places :
            Spot(i, p) = b /\ Spot(j, q) = b => i = j /\ p = q
    BY <1>2, SpotOnce
  <1>8. Cardinality({}) = 0 /\ \A e : Cardinality({e}) = 1
    BY FS_EmptySet, FS_Singleton
  <1>9. CASE b < freeblock
    <2>1. PICK i \in DOMAIN dinodes, p \in Places : Spot(i, p) = b
      <3>1. b \in meta_num..(freeblock - 1)
        BY <1>2, <1>9, Sizes
      <3>2. \E i \in DOMAIN Spots, p \in Places : Spots[i][p] = b
        BY <3>1 DEF Owned
      <3> QED BY <3>2 DEF Spots
    <2>2. CASE p <= DIRECT_NUM
      <3>1. A = {<<i, p>>}
        BY <1>3, <1>5, <1>7, <2>1, <2>2
      <3>2. C = {}
        <4> SUFFICES ASSUME NEW e \in C PROVE FALSE
          OBVIOUS
        <4>1. PICK j \in DOMAIN dinodes :
                  /\ DIRECT_NUM + 1 + e[2] \in Places /\ ~(DIRECT_NUM + 1 + e[2] <= DIRECT_NUM)
                  /\ Spot(j, DIRECT_NUM + 1 + e[2]) = b
          BY <1>4
        <4>2. DIRECT_NUM + 1 + e[2] = p
          BY <1>7, <2>1, <4>1
        <4> QED BY <2>2, <4>1, <4>2
      <3>3. Cardinality(A) = 1 /\ Cardinality(C) = 0
        BY <1>8, <3>1, <3>2
      <3> QED BY <1>1, <1>9, <3>3
    <2>3. CASE ~(p <= DIRECT_NUM)
      <3>1. C = {<<Spot(i, DIRECT_NUM), p - DIRECT_NUM - 1>>}
        <4>1. ASSUME NEW e \in C PROVE e = <<Spot(i, DIRECT_NUM), p - DIRECT_NUM - 1>>
          <5>1. PICK j \in DOMAIN dinodes :
                    /\ e = <<Spot(j, DIRECT_NUM), e[2]>> /\ e[2] \in Nat
                    /\ DIRECT_NUM + 1 + e[2] \in Places
                    /\ Spot(j, DIRECT_NUM + 1 + e[2]) = b
            BY <1>4
          <5>2. DIRECT_NUM + 1 + e[2] = p /\ i = j
            BY <1>7, <2>1, <5>1
          <5>3. e[2] = p - DIRECT_NUM - 1
            BY <5>1, <5>2, Sizes
          <5> QED BY <5>1, <5>2, <5>3
        <4> QED BY <1>6, <2>1, <2>3, <4>1
      <3>2. A = {}
        <4> SUFFICES ASSUME NEW e \in A PROVE FALSE
          OBVIOUS
        <4>1. e[2] = p /\ e[2] <= DIRECT_NUM
          BY <1>3, <1>7, <2>1
        <4> QED BY <2>3, <4>1
      <3>3. Cardinality(A) = 0 /\ Cardinality(C) = 1
        BY <1>8, <3>1, <3>2
      <3> QED BY <1>1, <1>9, <3>3
    <2> QED BY <2>2, <2>3
  <1>10. CASE ~(b < freeblock)
    <2>1. \A i \in DOMAIN dinodes, p \in Places : Spot(i, p) # b
      BY <1>2, <1>10, SpotOnce
    <2>2. A = {} /\ C = {}
      BY <1>3, <1>4, <2>1
    <2> QED BY <1>1, <1>8, <1>10, <2>2
  <1> QED BY <1>9, <1>10

(* BlocksUsedOnce: as long as the image has room, no block is lost, and    *)
(* none is used for two things.                                            *)
THEOREM BlocksOwned == Spec => []BlocksUsedOnce
  <1>1. IInv => BlocksUsedOnce
    BY UsesOnce DEF IInv, Rules, BlocksUsedOnce
  <1> QED BY <1>1, Invariance, PTL

(* BitmapExact: the finished image marks the metadata and the blocks that  *)
(* the files use, and no other (it is finished only if there was room).    *)
THEOREM BitmapRight == Spec => []BitmapExact
  <1>1. IInv => BitmapExact
    <2> SUFFICES ASSUME IInv, pc = "done"
                 PROVE  bitmap = 0..(meta_num - 1) \cup {b \in Blocks : Uses(b) > 0}
      BY DEF BitmapExact
    <2>1. Types /\ Owned(Spots, freeblock) /\ bitmap = 0..(freeblock - 1)
      BY DEF IInv, Rules, Marked
    <2>2. {b \in Blocks : Uses(b) > 0} = {b \in Blocks : b < freeblock}
      <3>1. \A b \in Blocks : Uses(b) = IF b < freeblock THEN 1 ELSE 0
        BY <2>1, UsesOnce
      <3> QED BY <3>1
    <2>3. 0..(freeblock - 1) = 0..(meta_num - 1) \cup {b \in Blocks : b < freeblock}
      <3>1. /\ freeblock \in Nat /\ meta_num <= freeblock /\ freeblock <= FS_SIZE
            /\ meta_num \in Nat /\ FS_SIZE \in Nat
        BY <2>1, Kinds, Sizes
      <3> QED BY <3>1 DEF Blocks
    <2> QED BY <2>1, <2>2, <2>3
  <1> QED BY <1>1, Invariance, PTL

-----------------------------------------------------------------------------
(* What a reader of the image finds *)

(* The written inode leads to the blocks that iappend wrote to.            *)
LEMMA Read ==
    ASSUME Types, Owned(Spots, freeblock), Settled,
           NEW i \in DOMAIN dinodes, NEW o \in Nat, o < dinodes[i].size
    PROVE  o \in Offsets /\ UnitAt(i, o) = Unit(i, o)
  <1>1. o \in Offsets
    <2>1. dinodes[i].size \in 0..((MAX_FILE + 1) * B_SIZE)
      BY Kinds DEF Dinode
    <2>2. (MAX_FILE + 1) * B_SIZE \in Nat
      BY Sizes
    <2> QED BY <2>1, <2>2 DEF Offsets
  <1>2. PICK f, D : f = o \div B_SIZE /\ D = DIRECT_NUM
    OBVIOUS
  <1>3. f \in Nat /\ D \in Nat /\ MAX_FILE \in Nat /\ D <= MAX_FILE
    <2>1. B_SIZE \in Nat \ {0} /\ D \in Nat /\ MAX_FILE \in Nat /\ D <= MAX_FILE
      BY <1>2, Sizes
    <2>2. o \div B_SIZE \in Nat
      BY <2>1, Division
    <2> QED BY <1>2, <2>1, <2>2
  <1>4. PICK a, c : a = dinodes[i].addrs /\ c = Current(i).addrs
    OBVIOUS
  <1>5. (f < D => a[f] = c[f]) /\ (~(f < D) => a[D] = c[D])
    <2>1. CASE pc = "append" /\ app.inum = i
      <3>1. c = din.addrs
        BY <1>4, <2>1, Currents
      <3>2. \A k : k = (IF f < D THEN f ELSE D) => a[k] = c[k]
        BY <1>1, <1>2, <1>4, <2>1, <3>1 DEF Settled
      <3> QED BY <3>2
    <2>2. CASE ~(pc = "append" /\ app.inum = i)
      BY <1>4, <2>2, Currents
    <2> QED BY <2>1, <2>2
  <1>6. BlockAt(i, f) = IF f < D THEN c[f]
                        ELSE IF f < MAX_FILE /\ c[D] # 0 THEN index[c[D]][f - D]
                        ELSE 0
    <2>1. CASE f < D
      <3>1. Place(f) = f /\ f <= D /\ f < MAX_FILE
        BY <1>2, <1>3, <2>1 DEF Place
      <3> QED BY <1>2, <1>4, <2>1, <3>1 DEF BlockAt, Spot
    <2>2. CASE ~(f < D) /\ f < MAX_FILE
      <3>1. Place(f) = f + 1 /\ ~(f + 1 <= D) /\ (f + 1) - D - 1 = f - D
        BY <1>2, <1>3, <2>2 DEF Place
      <3>2. Spot(i, f + 1) = IF f + 1 <= D THEN c[f + 1]
                             ELSE IF c[D] # 0 THEN index[c[D]][(f + 1) - D - 1]
                             ELSE 0
        <4>1. \A p : Spot(i, p) = IF p <= DIRECT_NUM THEN Current(i).addrs[p]
                             ELSE IF Current(i).addrs[DIRECT_NUM] # 0
                                  THEN index[Current(i).addrs[DIRECT_NUM]][p - DIRECT_NUM - 1]
                             ELSE 0
          BY DEF Spot
        <4>2. \A p : Spot(i, p) = IF p <= D THEN c[p]
                             ELSE IF c[D] # 0 THEN index[c[D]][p - D - 1]
                             ELSE 0
          BY <1>2, <1>4, <4>1
        <4> QED BY <4>2
      <3>3. BlockAt(i, f) = Spot(i, f + 1)
        BY <2>2, <3>1 DEF BlockAt
      <3> QED BY <2>2, <3>1, <3>2, <3>3
    <2>3. CASE ~(f < MAX_FILE)
      <3>1. ~(f < D)
        BY <1>3, <2>3
      <3> QED BY <2>3, <3>1 DEF BlockAt
    <2> QED BY <2>1, <2>2, <2>3
  <1>7. UnitAt(i, o) = LET b == IF f < D THEN a[f]
                                ELSE IF f < MAX_FILE /\ a[D] # 0 THEN index[a[D]][f - D]
                                ELSE 0
                       IN IF b = 0 THEN Zero ELSE data[b][o % B_SIZE]
    BY <1>2, <1>4 DEF UnitAt
  <1>8. Unit(i, o) = LET b == BlockAt(i, f)
                     IN IF b = 0 THEN Zero ELSE data[b][o % B_SIZE]
    BY <1>2 DEF Unit
  <1>9. (IF f < D THEN a[f]
         ELSE IF f < MAX_FILE /\ a[D] # 0 THEN index[a[D]][f - D]
         ELSE 0) = BlockAt(i, f)
    BY <1>5, <1>6
  <1>10. UnitAt(i, o) = Unit(i, o)
    BY <1>7, <1>8, <1>9
  <1> QED BY <1>1, <1>10

(* The first p units of s are what belongs there, the others are free.     *)
Text(i, s, p) == [k \in 1..s |-> IF k <= p THEN Meant(i, k - 1) ELSE Zero]
Part(i) == IF i = ROOT_INO /\ Padded THEN arg ELSE dinodes[i].size

(* Each file of the image is the part copied to it so far.                 *)
LEMMA Contents ==
    ASSUME IInv, pc \notin {"aborted", "beyond"}, NEW i \in DOMAIN dinodes
    PROVE  /\ Content(i) = Text(i, dinodes[i].size, Part(i))
           /\ Part(i) \in Nat /\ dinodes[i].size \in Nat
  <1>1. Types /\ Owned(Spots, freeblock) /\ Settled /\ Filled /\ Appending
    BY DEF IInv, Rules
  <1>2. PICK s, p : s = dinodes[i].size /\ p = Part(i)
    OBVIOUS
  <1>3. s \in Nat /\ p \in Nat
    BY <1>1, <1>2, Kinds DEF Part
  <1>4. ASSUME NEW o \in Nat, o < s
        PROVE  o < p <=> o < Grown(i)
    <2>1. CASE pc = "append" /\ app.inum = i
      <3>1. ~Padded /\ dinodes[i].size <= app.off /\ app.off \in Nat
        BY <1>1, <2>1, Kinds DEF Padded, Appending
      <3> QED BY <1>2, <1>3, <1>4, <2>1, <3>1 DEF Part, Grown
    <2>2. CASE ~(pc = "append" /\ app.inum = i)
      BY <1>2, <2>2 DEF Part, Grown
    <2> QED BY <2>1, <2>2
  <1>5. ASSUME NEW k \in 1..s
        PROVE  UnitAt(i, k - 1) = IF k <= p THEN Meant(i, k - 1) ELSE Zero
    <2>1. PICK o : o = k - 1
      OBVIOUS
    <2>2. o \in Nat /\ o < s /\ (k <= p <=> o < p)
      BY <1>3, <2>1
    <2>3. o \in Offsets /\ UnitAt(i, o) = Unit(i, o)
      BY <1>1, <1>2, <2>2, Read
    <2>4. Unit(i, o) = IF o < Grown(i) THEN Meant(i, o) ELSE Zero
      BY <1>1, <2>3 DEF Filled
    <2>5. o < p <=> o < Grown(i)
      BY <1>4, <2>2
    <2> QED BY <2>1, <2>2, <2>3, <2>4, <2>5
  <1>6. Content(i) = [k \in 1..s |-> UnitAt(i, k - 1)]
    BY <1>2 DEF Content
  <1>7. Text(i, s, p) = [k \in 1..s |-> IF k <= p THEN Meant(i, k - 1) ELSE Zero]
    BY DEF Text
  <1>8. Content(i) = Text(i, s, p)
    BY <1>5, <1>6, <1>7
  <1> QED BY <1>2, <1>3, <1>8

(* RootNamesEveryFile: between two arguments the root directory names      *)
(* itself twice and then every file, with its inode number, in the order   *)
(* of the arguments, as far as the inode table and the image have room.    *)
THEOREM RootComplete == Spec => []RootNamesEveryFile
  <1>1. IInv => RootNamesEveryFile
    <2> SUFFICES ASSUME IInv, pc \in {"arg", "bitmap", "done"}
                 PROVE  /\ dinodes[ROOT_INO].size >= Len(dinodes) + 1
                        /\ \A k \in 1..(Len(dinodes) + 1) : Content(ROOT_INO)[k] =
                              IF k <= 2 THEN Dirent(ROOT_INO, k - 1) ELSE Dirent(k - 1, k - 1)
      BY DEF RootNamesEveryFile
    <2>1. /\ Types /\ Counts /\ pc \notin {"aborted", "beyond"}
      BY DEF IInv, Rules
    <2>2. /\ ROOT_INO \in DOMAIN dinodes /\ Count \in Nat /\ arg = Count + 1
          /\ arg = Len(dinodes) + 1 /\ arg \in Nat
      BY <2>1, Numbers, Kinds DEF Counts, Count
    <2>3. PICK s : s = dinodes[ROOT_INO].size
      OBVIOUS
    <2>4. s \in Nat /\ s >= arg /\ Part(ROOT_INO) = arg
      <3>1. CASE pc = "arg"
        BY <2>1, <2>2, <2>3, <3>1 DEF Counts, Part, Padded
      <3>2. CASE Padded
        <4>1. s = (arg \div B_SIZE + 1) * B_SIZE
          BY <2>1, <2>3, <3>2 DEF Counts
        <4>2. /\ arg \div B_SIZE \in Nat /\ arg < B_SIZE * (arg \div B_SIZE) + B_SIZE
              /\ B_SIZE \in Nat
          BY <2>2, Sizes, Division
        <4>3. \A x, b \in Nat : (x + 1) * b = b * x + b /\ (x + 1) * b \in Nat
          OBVIOUS
        <4>4. s \in Nat /\ arg < s
          BY <4>1, <4>2, <4>3
        <4> QED BY <2>2, <3>2, <4>4 DEF Part
      <3> QED BY <3>1, <3>2 DEF Padded
    <2>5. Content(ROOT_INO) = Text(ROOT_INO, s, arg)
      BY <2>1, <2>2, <2>3, <2>4, Contents
    <2>6. ASSUME NEW k \in 1..arg
          PROVE  Content(ROOT_INO)[k] =
                    IF k <= 2 THEN Dirent(ROOT_INO, k - 1) ELSE Dirent(k - 1, k - 1)
      <3>1. k \in 1..s /\ k <= arg /\ (k <= 2 <=> k - 1 < 2)
        BY <2>2, <2>4
      <3>2. Content(ROOT_INO)[k] = Meant(ROOT_INO, k - 1)
        BY <2>5, <3>1 DEF Text
      <3> QED BY <3>1, <3>2 DEF Meant
    <2> QED BY <2>2, <2>3, <2>4, <2>6
  <1> QED BY <1>1, Invariance, PTL

-----------------------------------------------------------------------------
(* The image grows as ImageSpec says *)

(* One unit more, n units more, n free units at the end.                   *)
LEMMA Texts ==
    ASSUME NEW s \in Nat, NEW n \in Nat, NEW i
    PROVE  /\ Text(i, s, s) \in Seq({Meant(i, k) : k \in Nat} \cup {Zero})
           /\ Len(Text(i, s, s)) = s
           /\ Text(i, s + 1, s + 1) = Append(Text(i, s, s), Meant(i, s))
           /\ Text(i, s + n, s + n) = Text(i, s, s) \o [k \in 1..n |-> Meant(i, s + k - 1)]
           /\ Text(i, s + n, s) = Text(i, s, s) \o [k \in 1..n |-> Zero]
  <1>1. PICK S : S = {Meant(i, k) : k \in Nat} \cup {Zero}
    OBVIOUS
  <1>2. PICK t : t = Text(i, s, s)
    OBVIOUS
  <1>3. t = [k \in 1..s |-> Meant(i, k - 1)]
    <2>1. \A k \in 1..s : k <= s
      OBVIOUS
    <2> QED BY <1>2, <2>1 DEF Text
  <1>4. t \in Seq(S) /\ Len(t) = s /\ \A k \in 1..s : t[k] = Meant(i, k - 1)
    <2>1. \A k \in 1..s : k - 1 \in Nat
      OBVIOUS
    <2>2. \A k \in 1..s : Meant(i, k - 1) \in S
      BY <1>1, <2>1
    <2> QED BY <1>3, <2>2
  <1>5. Text(i, s + 1, s + 1) = Append(t, Meant(i, s))
    <2>1. PICK y, z : y = Append(t, Meant(i, s)) /\ z = Text(i, s + 1, s + 1)
      OBVIOUS
    <2>2. Meant(i, s) \in S
      BY <1>1
    <2>3. /\ DOMAIN y = 1..(s + 1) /\ y[s + 1] = Meant(i, s)
          /\ \A k \in 1..s : y[k] = t[k]
          /\ y = [k \in DOMAIN y |-> y[k]]
      <3>1. /\ y \in Seq(S) /\ Len(y) = s + 1 /\ y[s + 1] = Meant(i, s)
            /\ \A k \in 1..s : y[k] = t[k]
        BY <1>4, <2>1, <2>2, AppendProperties
      <3>2. y \in [1..(s + 1) -> S]
        BY <3>1, LenProperties
      <3> QED BY <3>1, <3>2
    <2>4. z = [k \in 1..(s + 1) |-> Meant(i, k - 1)]
      <3>1. \A k \in 1..(s + 1) : k <= s + 1
        OBVIOUS
      <3> QED BY <2>1, <3>1 DEF Text
    <2>5. \A k \in 1..(s + 1) : y[k] = Meant(i, k - 1)
      <3>1. \A k \in 1..(s + 1) : k \in 1..s \/ k = s + 1
        OBVIOUS
      <3>2. s + 1 - 1 = s
        OBVIOUS
      <3> QED BY <1>4, <2>3, <3>1, <3>2
    <2> QED BY <2>1, <2>3, <2>4, <2>5
  <1>6. ASSUME NEW u, \A k \in 1..n : u[k] \in S, u = [k \in 1..n |-> u[k]],
               NEW p, p \in {s, s + n},
               \A k \in 1..n : u[k] = IF s + k <= p THEN Meant(i, s + k - 1) ELSE Zero
        PROVE  Text(i, s + n, p) = t \o u
    <2>1. PICK y, z : y = t \o u /\ z = Text(i, s + n, p)
      OBVIOUS
    <2>2. u \in Seq(S) /\ Len(u) = n
      BY <1>6
    <2>3. /\ DOMAIN y = 1..(s + n) /\ y = [k \in DOMAIN y |-> y[k]]
          /\ \A k \in 1..s : y[k] = t[k]
          /\ \A k \in 1..(s + n) : ~(k <= s) => y[k] = u[k - s]
      <3>1. /\ y \in Seq(S) /\ Len(y) = s + n
            /\ \A k \in 1..(s + n) : y[k] = IF k <= s THEN t[k] ELSE u[k - s]
        BY <1>4, <2>1, <2>2, ConcatProperties
      <3>2. y \in [1..(s + n) -> S]
        BY <3>1, LenProperties
      <3>3. \A k \in 1..s : k \in 1..(s + n) /\ k <= s
        OBVIOUS
      <3> QED BY <3>1, <3>2, <3>3
    <2>4. z = [k \in 1..(s + n) |-> IF k <= p THEN Meant(i, k - 1) ELSE Zero]
      BY <2>1 DEF Text
    <2>5. ASSUME NEW k \in 1..(s + n)
          PROVE  y[k] = IF k <= p THEN Meant(i, k - 1) ELSE Zero
      <3>1. CASE k <= s
        <4>1. k \in 1..s /\ k <= p
          BY <1>6, <3>1
        <4> QED BY <1>4, <2>3, <4>1
      <3>2. CASE ~(k <= s)
        <4>1. k - s \in 1..n /\ s + (k - s) = k
          BY <3>2
        <4>2. y[k] = IF s + (k - s) <= p THEN Meant(i, s + (k - s) - 1) ELSE Zero
          BY <1>6, <2>3, <3>2, <4>1
        <4>3. s + (k - s) - 1 = k - 1
          OBVIOUS
        <4> QED BY <4>1, <4>2, <4>3
      <3> QED BY <3>1, <3>2
    <2> QED BY <2>1, <2>3, <2>4, <2>5
  <1>7. Text(i, s + n, s + n) = t \o [k \in 1..n |-> Meant(i, s + k - 1)]
    <2>1. PICK u : u = [k \in 1..n |-> Meant(i, s + k - 1)]
      OBVIOUS
    <2>2. \A k \in 1..n : s + k - 1 \in Nat /\ s + k <= s + n
      OBVIOUS
    <2>3. \A k \in 1..n : u[k] \in S
      BY <1>1, <2>1, <2>2
    <2>4. \A k \in 1..n : u[k] = IF s + k <= s + n THEN Meant(i, s + k - 1) ELSE Zero
      BY <2>1, <2>2
    <2>5. u = [k \in 1..n |-> u[k]]
      BY <2>1
    <2> QED BY <1>6, <2>1, <2>3, <2>4, <2>5
  <1>8. Text(i, s + n, s) = t \o [k \in 1..n |-> Zero]
    <2>1. PICK u : u = [k \in 1..n |-> Zero]
      OBVIOUS
    <2>2. \A k \in 1..n : ~(s + k <= s)
      OBVIOUS
    <2>3. \A k \in 1..n : u[k] \in S
      BY <1>1, <2>1
    <2>4. \A k \in 1..n : u[k] = IF s + k <= s THEN Meant(i, s + k - 1) ELSE Zero
      BY <2>1, <2>2
    <2>5. u = [k \in 1..n |-> u[k]]
      BY <2>1
    <2> QED BY <1>6, <2>1, <2>3, <2>4, <2>5
  <1> QED BY <1>1, <1>2, <1>4, <1>5, <1>7, <1>8

(* The files of ImageSpec.                                                 *)
Files == [i \in DOMAIN dinodes |-> Content(i)]

LEMMA FilesSeq ==
    ASSUME Types
    PROVE  /\ Files \in Seq({Content(i) : i \in DOMAIN dinodes}) /\ Len(Files) = Count
           /\ DOMAIN Files = DOMAIN dinodes
           /\ \A i \in DOMAIN dinodes : Files[i] = Content(i)
  <1>1. Count \in Nat /\ DOMAIN dinodes = 1..Count
    BY Kinds
  <1> QED BY <1>1 DEF Files

(* The same, before and after a step.                                      *)
LEMMA AllContents ==
    IInv /\ pc \notin {"aborted", "beyond"} => \A i \in DOMAIN dinodes :
        Content(i) = Text(i, dinodes[i].size, Part(i)) /\ dinodes[i].size \in Nat
  BY Contents

LEMMA NextContents ==
    ASSUME IInv', pc' \notin {"aborted", "beyond"}
    PROVE  \A i \in DOMAIN dinodes' :
               /\ Content(i)' = Text(i, dinodes'[i].size, Part(i)')
               /\ dinodes'[i].size \in Nat
  <1>1. (IInv /\ pc \notin {"aborted", "beyond"} => \A i \in DOMAIN dinodes :
            Content(i) = Text(i, dinodes[i].size, Part(i)) /\ dinodes[i].size \in Nat)'
    BY AllContents, PTL
  <1>2. IInv' /\ pc' \notin {"aborted", "beyond"} => \A i \in DOMAIN dinodes' :
            /\ Content(i)' = Text(i, dinodes[i].size, Part(i))'
            /\ dinodes'[i].size \in Nat
    BY <1>1
  <1>3. \A i : Text(i, dinodes[i].size, Part(i))' = Text(i, dinodes'[i].size, Part(i)')
    BY DEF Text
  <1> QED BY <1>2, <1>3

(* A file more.                                                            *)
LEMMA Longer ==
    ASSUME NEW S, NEW n \in Nat, NEW f \in [1..n -> S], NEW e \in S,
           NEW g \in [1..(n + 1) -> S], g[n + 1] = e, \A i \in 1..n : g[i] = f[i]
    PROVE  g = Append(f, e)
  <1>2. f \in Seq(S) /\ Len(f) = n
    OBVIOUS
  <1>3. PICK h : h = Append(f, e)
    OBVIOUS
  <1>4. /\ h \in Seq(S) /\ Len(h) = n + 1 /\ h[n + 1] = e /\ \A i \in 1..n : h[i] = f[i]
    BY <1>2, <1>3, AppendProperties
  <1>5. h \in [1..(n + 1) -> S]
    BY <1>4, LenProperties
  <1>6. \A i \in 1..(n + 1) : i \in 1..n \/ i = n + 1
    OBVIOUS
  <1>7. \A i \in 1..(n + 1) : h[i] = g[i]
    BY <1>4, <1>6
  <1> QED BY <1>3, <1>5, <1>7

(* Steps that write no inode and no block of data.                         *)
LEMMA SameFiles == UNCHANGED <<dinodes, index, data>> => Files' = Files
  <1> SUFFICES ASSUME UNCHANGED <<dinodes, index, data>> PROVE Files' = Files
    OBVIOUS
  <1>1. \A i, o : UnitAt(i, o)' = UnitAt(i, o)
    BY DEF UnitAt
  <1>2. \A i : Content(i)' = Content(i)
    BY <1>1 DEF Content
  <1> QED BY <1>2 DEF Files

(* A round of iappend: the inode that would show its work is not written.  *)
LEMMA RoundHidden ==
    ASSUME IInv, IInv', pc = "append", pc' = "append", dinodes' = dinodes
    PROVE  Files' = Files
  <1>1. \A i : Part(i) = dinodes[i].size /\ Part(i)' = dinodes[i].size
    BY DEF Part, Padded
  <1>2. \A i \in DOMAIN dinodes : Content(i)' = Content(i)
    BY <1>1, AllContents, NextContents
  <1> QED BY <1>2 DEF Files

(* MakeRoot and OpenFile create a file.                                    *)
LEMMA CreateStep ==
    ASSUME IInv, IInv', pc \in {"root", "arg"}, pc' \in {"dot", "append"},
           NEW t \in {"dir", "file"}, dinodes' = Append(dinodes, NewInode(t))
    PROVE  Image!Next
  <1>0. PICK n : n = Count
    OBVIOUS
  <1>1. Types /\ n \in Nat /\ DOMAIN dinodes = 1..n /\ dinodes \in Seq(Dinode)
    BY <1>0, Kinds DEF IInv, Types
  <1>2. /\ DOMAIN dinodes' = 1..(n + 1) /\ dinodes'[n + 1].size = 0
        /\ \A i \in 1..n : dinodes'[i] = dinodes[i]
    <2>1. PICK d : d = NewInode(t)
      OBVIOUS
    <2>2. d \in Dinode /\ d.size = 0
      BY <2>1, Empty
    <2>3. dinodes' = Append(dinodes, d) /\ Len(dinodes) = n
      BY <1>0, <2>1 DEF Count
    <2> QED BY <1>1, <2>2, <2>3
  <1>3. ~Padded /\ ~Padded'
    BY DEF Padded
  <1>4. \A i : Part(i) = dinodes[i].size /\ Part(i)' = dinodes'[i].size
    BY <1>3 DEF Part
  <1>5. /\ \A i \in 1..n : Content(i) = Text(i, dinodes[i].size, dinodes[i].size)
        /\ \A i \in 1..(n + 1) : Content(i)' = Text(i, dinodes'[i].size, dinodes'[i].size)
    <2>1. pc \notin {"aborted", "beyond"} /\ pc' \notin {"aborted", "beyond"}
      OBVIOUS
    <2> QED BY <1>1, <1>2, <1>4, <2>1, AllContents, NextContents
  <1>6. \A i \in 1..n : i \in 1..(n + 1) /\ Content(i)' = Content(i)
    <2>1. \A i \in 1..n : i \in 1..(n + 1)
      BY <1>1
    <2> QED BY <1>2, <1>5, <2>1
  <1>7. Content(n + 1)' = <<>>
    <2>1. n + 1 \in 1..(n + 1)
      BY <1>1
    <2>2. \A i : Text(i, 0, 0) = <<>>
      BY DEF Text
    <2> QED BY <1>2, <1>5, <2>1, <2>2
  <1>8. PICK f, g : f = Files /\ g = Files'
    OBVIOUS
  <1>9. /\ f = [i \in 1..n |-> Content(i)]
        /\ g = [i \in 1..(n + 1) |-> Content(i)']
    BY <1>1, <1>2, <1>8 DEF Files
  <1>10. g = Append(f, <<>>)
    <2>1. PICK S : S = {g[i] : i \in 1..(n + 1)}
      OBVIOUS
    <2>2. g \in [1..(n + 1) -> S] /\ g[n + 1] = <<>> /\ n + 1 \in 1..(n + 1)
      BY <1>1, <1>7, <1>9, <2>1
    <2>3. <<>> \in S
      BY <2>1, <2>2
    <2>4. \A i \in 1..n : g[i] = f[i]
      BY <1>6, <1>9
    <2>5. f \in [1..n -> S]
      BY <1>6, <1>9, <2>2, <2>4
    <2> QED BY <1>1, <2>2, <2>3, <2>4, <2>5, Longer
  <1>11. Image!Create
    BY <1>8, <1>10 DEF Image!Create, Files
  <1> QED BY <1>11 DEF Image!Next

(* One file changes.                                                       *)
LEMMA Replaced ==
    ASSUME NEW i0 \in DOMAIN dinodes, DOMAIN dinodes' = DOMAIN dinodes, NEW c, Content(i0)' = c,
           \A i \in DOMAIN dinodes : i # i0 => Content(i)' = Content(i)
    PROVE  /\ Files' = [Files EXCEPT ![i0] = c] /\ Files[i0] = Content(i0)
           /\ DOMAIN Files = DOMAIN dinodes /\ Files # <<>>
  <1>1. /\ Files = [i \in DOMAIN dinodes |-> Content(i)]
        /\ Files' = [i \in DOMAIN dinodes |-> Content(i)']
    BY DEF Files
  <1>2. Files # <<>>
    <2>1. i0 \in DOMAIN Files
      BY <1>1
    <2>2. DOMAIN <<>> = {}
      OBVIOUS
    <2> QED BY <2>1, <2>2
  <1> QED BY <1>1, <1>2

(* winode at the end of iappend: the file in work grows.                   *)
LEMMA GrowStep == ASSUME IInv, IInv', AppendReturn PROVE Image!Next
  <1>1. /\ Types /\ Counts /\ Appending /\ pc = "append" /\ app.left = <<>>
    BY DEF IInv, Rules, AppendReturn
  <1>2. PICK i0, u, d : i0 = app.inum /\ u = app.off /\ d = [din EXCEPT !.size = u]
    OBVIOUS
  <1>3. dinodes' = [dinodes EXCEPT ![i0] = d] /\ pc' = back
    BY <1>2 DEF AppendReturn, Goto
  <1>4. /\ i0 \in DOMAIN dinodes /\ u \in Nat /\ Total = u /\ d.size = u
        /\ back \in {"dot", "arg", "copy"} /\ ROOT_INO = 1
    <2>1. app.inum = ROOT_INO \/ app.inum = Count
      BY <1>1 DEF Appending
    <2>2. ROOT_INO \in DOMAIN dinodes /\ Count \in DOMAIN dinodes
      BY <1>1, Numbers
    <2>3. Len(app.left) = 0
      BY <1>1
    <2>4. app.off \in Nat
      BY <1>1, Kinds
    <2>5. d.size = u
      BY <1>1, <1>2 DEF Types, Dinode
    <2> QED BY <1>1, <1>2, <2>1, <2>2, <2>3, <2>4, <2>5 DEF Appending, Total, ROOT_INO
  <1>5. /\ DOMAIN dinodes' = DOMAIN dinodes /\ dinodes'[i0].size = u
        /\ \A i \in DOMAIN dinodes : i # i0 => dinodes'[i] = dinodes[i]
    BY <1>3, <1>4
  <1>6. \A i : Part(i) = dinodes[i].size /\ Part(i)' = dinodes'[i].size
    <2>1. ~Padded /\ ~Padded'
      BY <1>1, <1>3, <1>4 DEF Padded
    <2> QED BY <2>1 DEF Part
  <1>7. pc \notin {"aborted", "beyond"} /\ pc' \notin {"aborted", "beyond"}
    BY <1>1, <1>3, <1>4
  <1>8. PICK s : s = dinodes[i0].size
    OBVIOUS
  <1>9. s \in Nat /\ Content(i0) = Text(i0, s, s) /\ Content(i0)' = Text(i0, u, u)
    BY <1>4, <1>5, <1>6, <1>7, <1>8, AllContents, NextContents
  <1>10. \A i \in DOMAIN dinodes : i # i0 => Content(i)' = Content(i)
    BY <1>5, <1>6, <1>7, AllContents, NextContents
  <1>11. PICK f, g, t, c : f = Files /\ g = Files' /\ t = Text(i0, s, s) /\ c = Text(i0, u, u)
    OBVIOUS
  <1>12. /\ g = [f EXCEPT ![i0] = c] /\ f[i0] = t /\ DOMAIN f = DOMAIN dinodes /\ f # <<>>
    BY <1>4, <1>5, <1>9, <1>10, <1>11, Replaced
  <1>13. Len(t) = s
    BY <1>9, <1>11, Texts
  <1>14. CASE i0 = 1
    <2>1. u = s + 1
      BY <1>1, <1>2, <1>4, <1>8, <1>9, <1>14, Kinds DEF Appending
    <2>2. c = Append(t, Meant(1, s))
      BY <1>9, <1>11, <1>14, <2>1, Texts
    <2>3. Meant(1, s) = Dirent(IF s < 2 THEN 1 ELSE s, s)
      BY <1>4 DEF Meant
    <2>4. g = [f EXCEPT ![1] = Append(@, Dirent(IF s < 2 THEN 1 ELSE s, s))]
      BY <1>12, <1>14, <2>2, <2>3
    <2>5. Image!Enter
      <3>1. Image!Enter <=>
              LET n == Len(Files[1])
              IN Files' = [Files EXCEPT ![1] = Append(@, Dirent(IF n < 2 THEN 1 ELSE n, n))]
        BY DEF Image!Enter, Files, Image!Dirent, Dirent
      <3>2. Len(f[1]) = s
        BY <1>12, <1>13, <1>14
      <3>3. Image!Enter <=>
              g = [f EXCEPT ![1] = Append(@, Dirent(IF s < 2 THEN 1 ELSE s, s))]
        BY <1>11, <3>1, <3>2
      <3> QED BY <2>4, <3>3
    <2> QED BY <1>11, <1>12, <2>5 DEF Image!Next, Files
  <1>15. CASE i0 # 1
    <2>1. PICK n : n = u - s
      OBVIOUS
    <2>2. n \in 1..B_SIZE /\ u = s + n /\ n \in Nat
      <3>1. i0 = Count /\ Total = got /\ s < got /\ got <= s + B_SIZE
        BY <1>1, <1>2, <1>4, <1>8, <1>15 DEF Appending
      <3> QED BY <1>4, <1>9, <2>1, <3>1, Sizes
    <2>3. c = t \o [k \in 1..n |-> Meant(i0, s + k - 1)]
      BY <1>9, <1>11, <2>2, Texts
    <2>4. \A k \in 1..n : Meant(i0, s + k - 1) = Copied(i0, s + k)
      <3>1. \A k \in 1..n : s + k - 1 + 1 = s + k
        BY <1>9, <2>2
      <3> QED BY <1>4, <1>15, <3>1 DEF Meant
    <2>5. c = t \o [k \in 1..n |-> Copied(i0, s + k)]
      BY <2>3, <2>4
    <2>6. g = [f EXCEPT ![i0] = @ \o [k \in 1..n |-> Copied(i0, Len(@) + k)]]
      BY <1>12, <1>13, <2>5
    <2>7. i0 \in DOMAIN f \ {1}
      BY <1>4, <1>12, <1>15
    <2>8. Image!Copy
      <3>1. Image!Copy <=> \E i \in DOMAIN Files \ {1}, m \in 1..B_SIZE :
              Files' = [Files EXCEPT ![i] = @ \o [k \in 1..m |-> Copied(i, Len(@) + k)]]
        BY DEF Image!Copy, Files, Image!Copied, Copied
      <3>2. /\ Files' = [Files EXCEPT ![i0] = @ \o [k \in 1..n |-> Copied(i0, Len(@) + k)]]
            /\ i0 \in DOMAIN Files \ {1}
        BY <1>11, <2>6, <2>7
      <3> QED BY <2>2, <3>1, <3>2
    <2> QED BY <1>11, <1>12, <2>8 DEF Image!Next, Files
  <1> QED BY <1>14, <1>15

(* The rounding of the root directory adds free entries.                   *)
LEMMA PadStep == ASSUME IInv, IInv', RoundRoot PROVE Image!Next
  <1>1. /\ Types /\ Counts /\ pc = "arg" /\ pc' = "bitmap" /\ arg' = arg /\ Counts'
    BY DEF IInv, Rules, RoundRoot, Goto
  <1>2. /\ ROOT_INO \in DOMAIN dinodes /\ ROOT_INO = 1 /\ arg \in Nat
        /\ dinodes[1].size = arg
    BY <1>1, Numbers, Kinds DEF Counts
  <1>3. PICK z, d : d = [dinodes[1] EXCEPT !.size = z] /\ dinodes' = [dinodes EXCEPT ![1] = d]
    BY <1>2 DEF RoundRoot
  <1>4. /\ DOMAIN dinodes' = DOMAIN dinodes
        /\ \A i \in DOMAIN dinodes : i # 1 => dinodes'[i] = dinodes[i]
        /\ dinodes'[1].size = (arg \div B_SIZE + 1) * B_SIZE
    BY <1>1, <1>2, <1>3 DEF Counts, Padded
  <1>5. PICK n : n = dinodes'[1].size - arg
    OBVIOUS
  <1>6. n \in 1..B_SIZE /\ dinodes'[1].size = arg + n /\ n \in Nat
    <2>1. /\ arg \div B_SIZE \in Nat /\ B_SIZE * (arg \div B_SIZE) <= arg
          /\ arg < B_SIZE * (arg \div B_SIZE) + B_SIZE /\ B_SIZE \in Nat
      BY <1>2, Sizes, Division
    <2>2. \A x, b \in Nat : (x + 1) * b = b * x + b /\ b * x \in Nat
      OBVIOUS
    <2>3. PICK m \in Nat : m = B_SIZE * (arg \div B_SIZE)
      BY <2>1, <2>2
    <2>4. dinodes'[1].size = m + B_SIZE
      BY <1>4, <2>1, <2>2, <2>3
    <2>5. n = (m + B_SIZE) - arg /\ m <= arg /\ arg < m + B_SIZE
      BY <1>5, <2>1, <2>3, <2>4
    <2>6. n \in 1..B_SIZE /\ m + B_SIZE = arg + n
      BY <1>2, <2>1, <2>5
    <2> QED BY <2>1, <2>4, <2>6
  <1>7. /\ \A i : Part(i) = dinodes[i].size /\ (i # 1 => Part(i)' = dinodes'[i].size)
        /\ Part(1)' = arg
    BY <1>1, <1>2 DEF Part, Padded
  <1>8. Content(1) = Text(1, arg, arg) /\ Content(1)' = Text(1, arg + n, arg)
    BY <1>1, <1>2, <1>4, <1>6, <1>7, AllContents, NextContents
  <1>9. \A i \in DOMAIN dinodes : i # 1 => Content(i)' = Content(i)
    BY <1>1, <1>4, <1>7, AllContents, NextContents
  <1>10. PICK f, g, t, c : f = Files /\ g = Files' /\ t = Text(1, arg, arg)
                           /\ c = Text(1, arg + n, arg)
    OBVIOUS
  <1>11. g = [f EXCEPT ![1] = c] /\ f[1] = t /\ DOMAIN f = DOMAIN dinodes /\ f # <<>>
    BY <1>2, <1>4, <1>8, <1>9, <1>10, Replaced
  <1>12. c = t \o [k \in 1..n |-> Zero]
    BY <1>2, <1>6, <1>10, Texts
  <1>13. g = [f EXCEPT ![1] = @ \o [k \in 1..n |-> Zero]]
    BY <1>11, <1>12
  <1>14. Image!Pad
    <2>1. Image!Pad <=> \E m \in 1..B_SIZE :
              Files' = [Files EXCEPT ![1] = @ \o [k \in 1..m |-> Zero]]
      BY DEF Image!Pad, Files, Image!Zero, Zero
    <2>2. Image!Pad <=> \E m \in 1..B_SIZE : g = [f EXCEPT ![1] = @ \o [k \in 1..m |-> Zero]]
      BY <1>10, <2>1
    <2> QED BY <1>6, <1>13, <2>2
  <1> QED BY <1>10, <1>11, <1>14 DEF Image!Next, Files

(* Every step of mkfs is a step of ImageSpec, or does not show.            *)
LEMMA ImageStep == IInv /\ IInv' /\ [Next]_vars => [Image!Next]_Files
  <1> SUFFICES ASSUME IInv, IInv', [Next]_vars PROVE Image!Next \/ Files' = Files
    OBVIOUS
  <1>1. CASE AppendDirect
    <2>1. pc = "append" /\ pc' = "append" /\ dinodes' = dinodes
      BY <1>1 DEF AppendDirect
    <2> QED BY <2>1, RoundHidden
  <1>2. CASE AppendIndirect
    <2>1. pc = "append" /\ pc' = "append" /\ dinodes' = dinodes
      BY <1>2 DEF AppendIndirect
    <2> QED BY <2>1, RoundHidden
  <1>3. CASE AppendReturn
    BY <1>3, GrowStep
  <1>4. CASE MakeRoot
    BY <1>4, CreateStep DEF MakeRoot, Goto
  <1>5. CASE OpenFile
    <2>1. /\ pc = "arg" /\ pc' = "append" /\ dinodes' = Append(dinodes, NewInode("file"))
      BY <1>5 DEF OpenFile, CallAppend, Goto
    <2> QED BY <2>1, CreateStep
  <1>6. CASE RoundRoot
    BY <1>6, PadStep
  <1>7. CASE AppendBeyond \/ AppendAborts \/ EnterDots \/ OpenBeyond \/ OpenFails
             \/ CopyChunk \/ CloseFile \/ Balloc \/ Exited \/ UNCHANGED vars
    <2>1. UNCHANGED <<dinodes, index, data>>
      BY <1>7 DEF AppendBeyond, AppendAborts, EnterDots, OpenBeyond, OpenFails, CopyChunk,
                  CloseFile, Balloc, Exited, vars
    <2> QED BY <2>1, SameFiles
  <1> QED BY <1>1, <1>2, <1>3, <1>4, <1>5, <1>6, <1>7 DEF Next

(* WritesFiles: mkfs builds the image as ImageSpec says: files are created *)
(* empty, one after the other, and grow at their end by what they are      *)
(* copied from, whatever the sizes of the blocks and of the pieces read,   *)
(* up to the first inode or block for which there is no room.              *)
THEOREM ImageRefinement == Spec => WritesFiles
  <1>1. Init => Image!Init
    <2>1. DOMAIN <<>> = {}
      OBVIOUS
    <2>2. Init => Files = <<>>
      BY <2>1 DEF Init, Files
    <2> QED BY <2>2 DEF Image!Init, Files
  <1>2. IInv /\ IInv' /\ [Next]_vars => [Image!Next]_Files
    BY ImageStep
  <1>3. [Image!Next]_Files => [Image!Next]_[i \in DOMAIN dinodes |-> Content(i)]
    BY DEF Files
  <1> QED BY <1>1, <1>2, <1>3, Invariance, PTL DEF Spec, WritesFiles, Image!Spec
=============================================================================
