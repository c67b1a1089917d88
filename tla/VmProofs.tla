------------------------------ MODULE VmProofs ------------------------------
(***************************************************************************)
(* Theorems about Vm for every size of memory, of the tables and of the    *)
(* kernel image: the allocator and the page tables never share or lose a   *)
(* page, every address space is what setup_kvm and init_uvm promise, and   *)
(* boot stops for lack of memory only.                                     *)
(***************************************************************************)
EXTENDS Vm, FiniteSetTheorems, SequenceTheorems, TLAPS

-----------------------------------------------------------------------------
(* The inductive invariant *)

VPages   == 0..(VSpace - 1)
Proc     == [kstack : Frames, pgdir : Frames \cup {None}, page : Frames \cup {None}]
Contents == [Frames -> [Slots -> Entry]]
Maps     == [va : VPages, last : VPages, pa : VPages, w : BOOLEAN, u : BOOLEAN]

Types ==
    /\ kend \in KENDS
    /\ freelist \in Seq(Frames)
    /\ mem \in Contents
    /\ cr3 \in Frames \cup {None} /\ kpgdir \in Frames \cup {None} /\ dir \in Frames \cup {None}
    /\ procs \in Seq(Proc) /\ Len(procs) <= NINIT
    /\ pc \in Labels
    /\ ptr \in kend..PHYSTOP
    /\ mapno \in 0..4
    /\ map \in Maps

InMap == pc \in {"map", "mapped"}

(* Where the pages are. *)
Free   == {freelist[k] : k \in DOMAIN freelist}
Tables == {f \in Frames : \E d \in Directories, s \in Slots : mem[d][s].p /\ mem[d][s].pa = f}
Stacks == {procs[k].kstack : k \in DOMAIN procs}
Memory == {procs[k].page : k \in DOMAIN procs} \ {None}

(* The five kinds of use exclude each other, and there is no other page in *)
(* them than those that free_range has passed.                             *)
Partition ==
    /\ Free \cup Directories \cup Tables \cup Stacks \cup Memory = kend..(ptr - 1)
    /\ Free \cap (Directories \cup Tables \cup Stacks \cup Memory) = {}
    /\ Directories \cap (Tables \cup Stacks \cup Memory) = {}
    /\ Tables \cap (Stacks \cup Memory) = {}
    /\ Stacks \cap Memory = {}

(* No page is twice in the free list, a table twice or in two directories, *)
(* or with two processes.                                                  *)
FreedOnce == \A j, k \in DOMAIN freelist : freelist[j] = freelist[k] => j = k
TabledOnce ==
    \A d, e \in Directories, s, t \in Slots :
        mem[d][s].p /\ mem[e][t].p /\ mem[d][s].pa = mem[e][t].pa => d = e /\ s = t
GivenOnce ==
    \A j, k \in DOMAIN procs :
        /\ procs[j].kstack = procs[k].kstack => j = k
        /\ procs[j].page = procs[k].page /\ procs[j].page # None => j = k
        /\ procs[j].pgdir = procs[k].pgdir /\ procs[j].pgdir # None => j = k

(* walk_pgdir makes a table for the kernel and the user to write. *)
Pointers ==
    \A d \in Directories, s \in Slots :
        mem[d][s].p => mem[d][s].pa \in Frames /\ mem[d][s].w /\ mem[d][s].u

(* The process that is being created has no directory yet. *)
Unready == pc = "setup" \/ (InMap /\ mapno # 0)

Phases ==
    /\ kpgdir = None => /\ cr3 = None /\ procs = <<>> /\ (InMap => mapno # 0)
                        /\ pc \in {"free", "setup", "map", "mapped"}
                        /\ IF pc = "free" THEN ptr <= N ELSE ptr = N
    /\ kpgdir # None => /\ N <= ptr /\ cr3 # None
                        /\ pc # "run" => cr3 = kpgdir
                        /\ Unready => procs # <<>>
    /\ pc = "free" => procs = <<>>
    /\ InMap => /\ dir # None /\ dir # kpgdir
                /\ \A k \in DOMAIN procs :
                      procs[k].pgdir = dir <=> (mapno = 0 /\ k = Len(procs))
                /\ mapno = 0 => procs # <<>>
    /\ \A k \in DOMAIN procs :
          /\ procs[k].pgdir = None <=> (Unready /\ k = Len(procs))
          /\ procs[k].page = None <=> procs[k].pgdir = None
          /\ procs[k].pgdir # kpgdir

(* The pages that setup_kvm maps, and what it maps them to. *)
Whole(va) == IF va < KERNBASE THEN Absent ELSE KernelPage(va)
First(k)  == CASE k = 1 -> KERNBASE
               [] k = 2 -> KERNBASE + EXTMEM
               [] k = 3 -> KERNBASE + KDATA
               [] k = 4 -> DEVSPACE
Last(k)   == CASE k = 1 -> KERNBASE + EXTMEM - 1
               [] k = 2 -> KERNBASE + KDATA - 1
               [] k = 3 -> KERNBASE + PHYSTOP - 1
               [] k = 4 -> VSpace - 1
Target(k, va) == IF k = 4 THEN va ELSE va - KERNBASE

(* The address space of a process whose memory is page f. *)
Space(f, va) == IF va = 0 THEN [p |-> TRUE, pa |-> f, w |-> TRUE, u |-> TRUE]
                ELSE Whole(va)

(* How far setup_kvm, or init_uvm, has come with dir. *)
Progress ==
    InMap =>
      IF mapno = 0
      THEN LET f == procs[Len(procs)].page
           IN /\ map = [va |-> 0, last |-> 0, pa |-> f, w |-> TRUE, u |-> TRUE]
              /\ \A va \in VPages : Translate(dir, va) =
                    IF pc = "map" THEN Whole(va) ELSE Space(f, va)
      ELSE /\ map.va \in First(mapno)..Last(mapno)
           /\ map.last = Last(mapno) /\ map.pa = Target(mapno, map.va)
           /\ map.w = k_maps[mapno].w /\ ~map.u
           /\ pc = "mapped" => map.va = map.last
           /\ \A va \in VPages : Translate(dir, va) =
                 IF va < map.va \/ (pc = "mapped" /\ va = map.va) THEN Whole(va) ELSE Absent

(* The address spaces that are complete. *)
Complete ==
    /\ kpgdir # None => \A va \in VPages : Translate(kpgdir, va) = Whole(va)
    /\ \A k \in DOMAIN procs :
          procs[k].pgdir # None /\ procs[k].pgdir \notin Building =>
              \/ /\ k = Len(procs) /\ freelist = <<>>
                 /\ \A va \in VPages : Translate(procs[k].pgdir, va) = Whole(va)
              \/ \A va \in VPages : Translate(procs[k].pgdir, va) = Space(procs[k].page, va)

IInv ==
    /\ Types
    /\ Partition
    /\ FreedOnce /\ TabledOnce /\ GivenOnce
    /\ Pointers
    /\ Phases
    /\ Progress
    /\ Complete
    /\ OnlyOutOfMemoryStops

-----------------------------------------------------------------------------
(* Lemmas: numbers *)

Hi(va) == va \div N
Lo(va) == va % N

(* What the assumption says of the sizes.                                  *)
LEMMA Sizes ==
    /\ N \in Nat \ {0} /\ NINIT \in Nat
    /\ KERNBASE \in Nat /\ EXTMEM \in Nat /\ KDATA \in Nat /\ PHYSTOP \in Nat
    /\ DEVSPACE \in Nat /\ VSpace \in Nat
    /\ 0 < EXTMEM /\ EXTMEM < KDATA /\ KDATA < N /\ N < PHYSTOP /\ PHYSTOP < KERNBASE
    /\ KERNBASE + PHYSTOP <= DEVSPACE /\ DEVSPACE < VSpace
    /\ \A f \in KENDS : f \in Nat /\ KDATA < f /\ f <= N
  BY LayoutAssumption DEF VSpace

(* A remainder of 32-bit arithmetic that needs none.                       *)
LEMMA NoCarry ==
    ASSUME NEW x \in Nat, x < VSpace
    PROVE  x % VSpace = x
  <1>1. \A m \in Nat \ {0} : \A y \in 0..(m - 1) : y % m = y
    OBVIOUS
  <1>2. VSpace \in Nat \ {0} /\ x \in 0..(VSpace - 1)
    BY Sizes
  <1> QED BY <1>1, <1>2

(* An address is the same as its entry of the directory and of the table.  *)
LEMMA Numbers ==
    /\ \A va \in VPages : Hi(va) \in Slots /\ Lo(va) \in Slots
    /\ \A va, vb \in VPages : Hi(va) = Hi(vb) /\ Lo(va) = Lo(vb) => va = vb
  <1>1. \A n \in Nat \ {0} : \A x \in 0..(n * n - 1) :
           x \div n \in 0..(n - 1) /\ x % n \in 0..(n - 1)
    <2> SUFFICES ASSUME NEW n \in Nat \ {0}, NEW x \in 0..(n * n - 1)
                 PROVE  x \div n \in 0..(n - 1) /\ x % n \in 0..(n - 1)
      OBVIOUS
    <2>1. x \div n \in 0..(n - 1)
      OBVIOUS
    <2>2. x % n \in 0..(n - 1)
      OBVIOUS
    <2> QED BY <2>1, <2>2
  <1>2. \A n \in Nat \ {0}, x, y \in Nat : x \div n = y \div n /\ x % n = y % n => x = y
    OBVIOUS
  <1>3. VPages = 0..(N * N - 1) /\ N \in Nat \ {0} /\ VPages \subseteq Nat
    BY Sizes DEF VPages, VSpace
  <1> QED BY <1>1, <1>2, <1>3, Zenon DEF Hi, Lo, Slots

(* What the entries of a directory and of a table mean together.           *)
Joint(pde, pte) ==
    IF ~pde.p \/ pde.pa \notin Frames \/ ~pte.p THEN Absent
    ELSE [pte EXCEPT !.w = @ /\ pde.w, !.u = @ /\ pde.u]

(* What the processor finds, by the two halves of the address.             *)
LEMMA Lookup ==
    ASSUME NEW d, NEW va
    PROVE  /\ Translate(d, va) = Joint(mem[d][Hi(va)], mem[mem[d][Hi(va)].pa][Lo(va)])
           /\ Translate(d, va)' = Joint(mem'[d][Hi(va)], mem'[mem'[d][Hi(va)].pa][Lo(va)])
           /\ \A pde, pte : ~pde.p => Joint(pde, pte) = Absent
  <1>1. Translate(d, va) = Joint(mem[d][Hi(va)], mem[mem[d][Hi(va)].pa][Lo(va)])
    BY DEF Translate, Hi, Lo, Joint
  <1>2. Translate(d, va)' = Joint(mem'[d][Hi(va)], mem'[mem'[d][Hi(va)].pa][Lo(va)])
    BY DEF Translate, Hi, Lo, Joint
  <1>3. \A pde, pte : ~pde.p => Joint(pde, pte) = Absent
    BY DEF Joint
  <1> QED BY <1>1, <1>2, <1>3

(* The kernel half, without remainders.                                    *)
LEMMA WholeIs ==
    ASSUME NEW va \in VPages
    PROVE  Whole(va) =
              IF va < KERNBASE THEN Absent
              ELSE IF va < KERNBASE + PHYSTOP
              THEN [p |-> TRUE, pa |-> va - KERNBASE,
                    w |-> va - KERNBASE \notin EXTMEM..(KDATA - 1), u |-> FALSE]
              ELSE IF va >= DEVSPACE THEN [p |-> TRUE, pa |-> va, w |-> TRUE, u |-> FALSE]
              ELSE Absent
  <1>1. P2V(0) = KERNBASE
    BY NoCarry, Sizes DEF P2V
  <1> QED BY <1>1 DEF Whole, KernelPage

(* The four rows of the table.                                             *)
LEMMA Rows ==
    /\ First(1) = KERNBASE /\ Last(1) = KERNBASE + EXTMEM - 1
    /\ First(2) = KERNBASE + EXTMEM /\ Last(2) = KERNBASE + KDATA - 1
    /\ First(3) = KERNBASE + KDATA /\ Last(3) = KERNBASE + PHYSTOP - 1
    /\ First(4) = DEVSPACE /\ Last(4) = VSpace - 1
    /\ k_maps[1].w = TRUE /\ k_maps[2].w = FALSE /\ k_maps[3].w = TRUE /\ k_maps[4].w = TRUE
    /\ \A va : /\ Target(1, va) = va - KERNBASE /\ Target(2, va) = va - KERNBASE
               /\ Target(3, va) = va - KERNBASE /\ Target(4, va) = va
  <1>1. /\ First(1) = KERNBASE /\ Last(1) = KERNBASE + EXTMEM - 1
        /\ First(2) = KERNBASE + EXTMEM /\ Last(2) = KERNBASE + KDATA - 1
        /\ First(3) = KERNBASE + KDATA /\ Last(3) = KERNBASE + PHYSTOP - 1
        /\ First(4) = DEVSPACE /\ Last(4) = VSpace - 1
    BY DEF First, Last
  <1>2. /\ k_maps[1].w = TRUE /\ k_maps[2].w = FALSE
        /\ k_maps[3].w = TRUE /\ k_maps[4].w = TRUE
    BY DEF k_maps
  <1> QED BY <1>1, <1>2 DEF Target

(* The four calls of map_pages in setup_kvm.                               *)
LEMMA Calls ==
    ASSUME NEW k \in 1..4
    PROVE  MapKernel(k) = [va |-> First(k), last |-> Last(k), pa |-> Target(k, First(k)),
                           w |-> k_maps[k].w, u |-> FALSE]
  <1>1. ASSUME NEW x \in {KERNBASE, KERNBASE + EXTMEM, KERNBASE + KDATA, EXTMEM, KDATA - EXTMEM,
                          PHYSTOP - KDATA, KERNBASE + EXTMEM - 1, KERNBASE + KDATA - 1,
                          KERNBASE + PHYSTOP - 1, VSpace - 1}
        PROVE  x % VSpace = x
    <2>1. x \in Nat /\ x < VSpace
      BY Sizes
    <2> QED BY <2>1, NoCarry
  <1>2. (0 - DEVSPACE) % VSpace = VSpace - DEVSPACE
    <2>1. \A m \in Nat \ {0} : \A x \in 1..m : x # m => (0 - x) % m = m - x
      OBVIOUS
    <2>2. VSpace \in Nat \ {0} /\ DEVSPACE \in 1..VSpace /\ DEVSPACE # VSpace
      BY Sizes
    <2> QED BY <2>1, <2>2
  <1>3. /\ P2V(0) = KERNBASE /\ P2V(EXTMEM) = KERNBASE + EXTMEM /\ P2V(KDATA) = KERNBASE + KDATA
    <2>1. 0 + KERNBASE = KERNBASE /\ EXTMEM + KERNBASE = KERNBASE + EXTMEM
          /\ KDATA + KERNBASE = KERNBASE + KDATA
      BY Sizes
    <2> QED BY <1>1, <2>1 DEF P2V
  <1>4. CASE k = 1
    <2>1. EXTMEM - 0 = EXTMEM /\ First(1) - KERNBASE = 0
      BY Rows, Sizes
    <2>2. k_maps[1] = [va |-> KERNBASE, from |-> 0, to |-> EXTMEM, w |-> TRUE]
      BY DEF k_maps
    <2>3. MapKernel(1) = MapCall(KERNBASE, (EXTMEM - 0) % VSpace, 0, TRUE, FALSE)
      BY <2>2 DEF MapKernel
    <2>4. (EXTMEM - 0) % VSpace = EXTMEM
      BY <1>1, <1>2, <2>1
    <2>5. (KERNBASE + EXTMEM - 1) % VSpace = KERNBASE + EXTMEM - 1
      BY <1>1, <2>1
    <2>6. MapKernel(1) = [va |-> KERNBASE, last |-> KERNBASE + EXTMEM - 1, pa |-> 0,
                          w |-> TRUE, u |-> FALSE]
      BY <2>3, <2>4, <2>5 DEF MapCall
    <2> QED BY <1>4, <2>1, <2>6, Rows
  <1>5. CASE k = 2
    <2>1. /\ KERNBASE + EXTMEM + (KDATA - EXTMEM) - 1 = KERNBASE + KDATA - 1
          /\ First(2) - KERNBASE = EXTMEM
      BY Rows, Sizes
    <2>2. k_maps[2] = [va |-> P2V(EXTMEM), from |-> EXTMEM, to |-> KDATA, w |-> FALSE]
      BY DEF k_maps
    <2>3. MapKernel(2) = MapCall(KERNBASE + EXTMEM, (KDATA - EXTMEM) % VSpace, EXTMEM, FALSE, FALSE)
      BY <1>3, <2>2 DEF MapKernel
    <2>4. (KDATA - EXTMEM) % VSpace = KDATA - EXTMEM
      BY <1>1, <1>2, <2>1
    <2>5. (KERNBASE + EXTMEM + (KDATA - EXTMEM) - 1) % VSpace = KERNBASE + KDATA - 1
      BY <1>1, <2>1
    <2>6. MapKernel(2) = [va |-> KERNBASE + EXTMEM, last |-> KERNBASE + KDATA - 1, pa |-> EXTMEM,
                          w |-> FALSE, u |-> FALSE]
      BY <2>3, <2>4, <2>5 DEF MapCall
    <2> QED BY <1>5, <2>1, <2>6, Rows
  <1>6. CASE k = 3
    <2>1. /\ KERNBASE + KDATA + (PHYSTOP - KDATA) - 1 = KERNBASE + PHYSTOP - 1
          /\ First(3) - KERNBASE = KDATA
      BY Rows, Sizes
    <2>2. k_maps[3] = [va |-> P2V(KDATA), from |-> KDATA, to |-> PHYSTOP, w |-> TRUE]
      BY DEF k_maps
    <2>3. MapKernel(3) = MapCall(KERNBASE + KDATA, (PHYSTOP - KDATA) % VSpace, KDATA, TRUE, FALSE)
      BY <1>3, <2>2 DEF MapKernel
    <2>4. (PHYSTOP - KDATA) % VSpace = PHYSTOP - KDATA
      BY <1>1, <1>2, <2>1
    <2>5. (KERNBASE + KDATA + (PHYSTOP - KDATA) - 1) % VSpace = KERNBASE + PHYSTOP - 1
      BY <1>1, <2>1
    <2>6. MapKernel(3) = [va |-> KERNBASE + KDATA, last |-> KERNBASE + PHYSTOP - 1, pa |-> KDATA,
                          w |-> TRUE, u |-> FALSE]
      BY <2>3, <2>4, <2>5 DEF MapCall
    <2> QED BY <1>6, <2>1, <2>6, Rows
  <1>7. CASE k = 4
    <2>1. DEVSPACE + (VSpace - DEVSPACE) - 1 = VSpace - 1
      BY Sizes
    <2>2. k_maps[4] = [va |-> DEVSPACE, from |-> DEVSPACE, to |-> 0, w |-> TRUE]
      BY DEF k_maps
    <2>3. MapKernel(4) = MapCall(DEVSPACE, (0 - DEVSPACE) % VSpace, DEVSPACE, TRUE, FALSE)
      BY <2>2 DEF MapKernel
    <2>4. (0 - DEVSPACE) % VSpace = VSpace - DEVSPACE
      BY <1>1, <1>2, <2>1
    <2>5. (DEVSPACE + (VSpace - DEVSPACE) - 1) % VSpace = VSpace - 1
      BY <1>1, <2>1
    <2>6. MapKernel(4) = [va |-> DEVSPACE, last |-> VSpace - 1, pa |-> DEVSPACE,
                          w |-> TRUE, u |-> FALSE]
      BY <2>3, <2>4, <2>5 DEF MapCall
    <2> QED BY <1>7, <2>6, Rows
  <1> QED BY <1>4, <1>5, <1>6, <1>7

(* What they map is the kernel half, and no address wraps.                 *)
LEMMA Ranges ==
    ASSUME NEW k \in 1..4
    PROVE  /\ k_maps[k].w \in BOOLEAN
           /\ First(k) \in VPages /\ Last(k) \in VPages /\ First(k) <= Last(k)
           /\ \A va \in First(k)..Last(k) :
                 /\ va \in VPages /\ Target(k, va) \in VPages
                 /\ Whole(va) = [p |-> TRUE, pa |-> Target(k, va), w |-> k_maps[k].w, u |-> FALSE]
                 /\ va # Last(k) => /\ (va + 1) % VSpace = va + 1
                                    /\ (Target(k, va) + 1) % VSpace = Target(k, va + 1)
  <1>0. k = 1 \/ k = 2 \/ k = 3 \/ k = 4
    OBVIOUS
  <1>1. k_maps[k].w \in BOOLEAN
    BY <1>0, Rows
  <1>2. First(k) \in VPages /\ Last(k) \in VPages /\ First(k) <= Last(k)
    BY <1>0, Rows, Sizes DEF VPages
  <1>3. ASSUME NEW va \in First(k)..Last(k)
        PROVE  /\ va \in VPages /\ Target(k, va) \in VPages
               /\ Whole(va) = [p |-> TRUE, pa |-> Target(k, va), w |-> k_maps[k].w, u |-> FALSE]
    <2>1. va \in VPages
      BY <1>2, Sizes DEF VPages
    <2>2. CASE k \in 1..3
      <3>1. /\ Target(k, va) = va - KERNBASE /\ va \in Nat
            /\ KERNBASE <= va /\ va < KERNBASE + PHYSTOP
            /\ va - KERNBASE \in VPages
        BY <2>1, <2>2, Rows, Sizes DEF VPages
      <3>2. k_maps[k].w = (va - KERNBASE \notin EXTMEM..(KDATA - 1))
        <4>1. CASE k = 1
          <5>1. va \in KERNBASE..KERNBASE + EXTMEM - 1
            BY <4>1, Rows
          <5>2. va - KERNBASE \notin EXTMEM..(KDATA - 1)
            BY <5>1, <3>1, Sizes
          <5> QED BY <4>1, <5>2, Rows
        <4>2. CASE k = 2
          <5>1. va \in KERNBASE + EXTMEM..KERNBASE + KDATA - 1
            BY <4>2, Rows
          <5>2. va - KERNBASE \in EXTMEM..(KDATA - 1)
            BY <5>1, <3>1, Sizes
          <5> QED BY <4>2, <5>2, Rows
        <4>3. CASE k = 3
          <5>1. va \in KERNBASE + KDATA..KERNBASE + PHYSTOP - 1
            BY <4>3, Rows
          <5>2. va - KERNBASE \notin EXTMEM..(KDATA - 1)
            BY <5>1, <3>1, Sizes
          <5> QED BY <4>3, <5>2, Rows
        <4> QED BY <4>1, <4>2, <4>3, <2>2
      <3>3. Whole(va) = [p |-> TRUE, pa |-> va - KERNBASE,
                         w |-> va - KERNBASE \notin EXTMEM..(KDATA - 1), u |-> FALSE]
        BY <2>1, <3>1, WholeIs, Sizes
      <3> QED BY <2>1, <3>1, <3>2, <3>3
    <2>3. CASE k = 4
      <3>1. Target(k, va) = va /\ va \in Nat /\ DEVSPACE <= va /\ k_maps[k].w = TRUE
        BY <2>1, <2>3, Rows, Sizes DEF VPages
      <3>2. Whole(va) = [p |-> TRUE, pa |-> va, w |-> TRUE, u |-> FALSE]
        <4>1. ~(va < KERNBASE) /\ ~(va < KERNBASE + PHYSTOP) /\ va >= DEVSPACE
          BY <3>1, Sizes
        <4> QED BY <2>1, <4>1, WholeIs
      <3> QED BY <2>1, <3>1, <3>2
    <2> QED BY <2>2, <2>3
  <1>4. ASSUME NEW va \in First(k)..Last(k), va # Last(k)
        PROVE  /\ (va + 1) % VSpace = va + 1
               /\ (Target(k, va) + 1) % VSpace = Target(k, va + 1)
    <2>1. va \in Nat /\ va + 1 \in First(k)..Last(k)
      BY <1>2, <1>4 DEF VPages
    <2>2. va + 1 \in VPages /\ Target(k, va + 1) \in VPages
      BY <2>1, <1>3
    <2>3. va + 1 \in Nat /\ va + 1 < VSpace
          /\ Target(k, va + 1) \in Nat /\ Target(k, va + 1) < VSpace
      BY <2>2, Sizes DEF VPages
    <2>4. Target(k, va + 1) = Target(k, va) + 1
      BY <2>1, Sizes DEF Target
    <2> QED BY <2>3, <2>4, NoCarry
  <1> QED BY <1>1, <1>2, <1>3, <1>4

(* The ranges follow each other, and what is between them is not mapped.   *)
LEMMA Successive ==
    ASSUME NEW k \in 1..3
    PROVE  /\ Last(k) < First(k + 1)
           /\ \A va \in VPages : Last(k) < va /\ va < First(k + 1) => Whole(va) = Absent
  <1>1. Last(k) < First(k + 1)
    BY Rows, Sizes
  <1>2. ASSUME NEW va \in VPages, Last(k) < va, va < First(k + 1)
        PROVE  Whole(va) = Absent
    BY <1>2, WholeIs, Rows, Sizes DEF VPages
  <1> QED BY <1>1, <1>2

-----------------------------------------------------------------------------
(* Lemmas: page tables *)

(* Without a write, every address space stays the same.                    *)
LEMMA SameMemory ==
    ASSUME mem' = mem
    PROVE  \A d, va : Translate(d, va)' = Translate(d, va)
  BY DEF Translate

(* The directory of a primed translation.                                  *)
LEMMA ByDirectory ==
    ASSUME NEW d, d = dir', NEW va
    PROVE  Translate(dir, va)' = Translate(d, va)'
  BY DEF Translate

(* A page that no directory uses can be written without an effect on any   *)
(* address space.                                                          *)
LEMMA Unread ==
    ASSUME Pointers, mem \in Contents,
           NEW f \in Frames, f \notin Directories, f \notin Tables,
           NEW X, mem' = [mem EXCEPT ![f] = X],
           NEW d \in Directories, NEW va \in VPages
    PROVE  Translate(d, va)' = Translate(d, va)
  <1> DEFINE h == Hi(va)
             l == Lo(va)
             pde == mem[d][h]
  <1>1. h \in Slots
    BY Numbers
  <1> HIDE DEF h, l
  <1>2. d \in Frames => mem'[d] = mem[d]
    OBVIOUS
  <1>3. mem'[d] = mem[d]
    BY <1>2
  <1>4. pde.p => pde.pa \in Tables /\ pde.pa \in Frames
    BY <1>1 DEF Tables, Pointers
  <1>5. pde.p => mem'[pde.pa] = mem[pde.pa]
    BY <1>4
  <1>6. /\ Translate(d, va) = Joint(pde, mem[pde.pa][l])
        /\ Translate(d, va)' = Joint(pde, mem'[pde.pa][l])
        /\ ~pde.p => \A pte : Joint(pde, pte) = Absent
    <2>1. /\ Translate(d, va) = Joint(mem[d][h], mem[mem[d][h].pa][l])
          /\ Translate(d, va)' = Joint(mem'[d][h], mem'[mem'[d][h].pa][l])
          /\ ~pde.p => \A pte : Joint(pde, pte) = Absent
      BY Lookup, Zenon DEF h, l
    <2> QED BY <2>1, <1>3
  <1> HIDE DEF pde
  <1> QED BY <1>5, <1>6

(* A new table is as empty as its absence.                                 *)
LEMMA TableAdded ==
    ASSUME Pointers, mem \in Contents,
           Directories \subseteq Frames, Directories \cap Tables = {},
           NEW f \in Frames, f \notin Directories, f \notin Tables,
           NEW d0 \in Directories, NEW h0 \in Slots, ~mem[d0][h0].p,
           mem' = [mem EXCEPT ![f] = Zeroed,
                              ![d0][h0] = [p |-> TRUE, pa |-> f, w |-> TRUE, u |-> TRUE]],
           NEW d \in Directories, NEW va \in VPages
    PROVE  Translate(d, va)' = Translate(d, va)
  <1> DEFINE h == Hi(va)
             l == Lo(va)
             pde == mem[d][h]
             new == mem'[d][h]
  <1>1. h \in Slots /\ l \in Slots
    BY Numbers
  <1>2. /\ Translate(d, va) = Joint(pde, mem[pde.pa][l])
        /\ Translate(d, va)' = Joint(new, mem'[new.pa][l])
        /\ \A x, y : ~x.p => Joint(x, y) = Absent
    BY Lookup, Zenon
  <1> HIDE DEF h, l
  <1>4. /\ \A g \in Frames \ {f, d0} : mem'[g] = mem[g]
        /\ mem'[f] = Zeroed
        /\ mem'[d0][h0] = [p |-> TRUE, pa |-> f, w |-> TRUE, u |-> TRUE]
        /\ \A s \in Slots \ {h0} : mem'[d0][s] = mem[d0][s]
    BY SMTT(60) DEF Contents
  <1>5. CASE d = d0 /\ h = h0
    <2>1. Translate(d, va) = Absent
      BY <1>2, <1>5
    <2>2. ~Zeroed[l].p
      BY <1>1 DEF Zeroed, Absent
    <2>3. new.pa = f /\ mem'[f] = Zeroed
      <3>1. new = [p |-> TRUE, pa |-> f, w |-> TRUE, u |-> TRUE]
        BY <1>4, <1>5
      <3> HIDE DEF new
      <3> QED BY <1>4, <3>1
    <2>4. Joint(new, mem'[new.pa][l]) = Absent
      BY <2>2, <2>3 DEF Joint
    <2> QED BY <1>2, <2>1, <2>4
  <1>6. CASE d # d0 \/ h # h0
    <2>1. new = pde
      BY <1>1, <1>4, <1>6
    <2>2. pde.p => pde.pa \in Tables /\ pde.pa \in Frames
      BY <1>1 DEF Tables, Pointers
    <2>3. pde.p => mem'[pde.pa] = mem[pde.pa]
      BY <1>4, <2>2
    <2>4. /\ Translate(d, va) = Joint(pde, mem[pde.pa][l])
          /\ Translate(d, va)' = Joint(pde, mem'[pde.pa][l])
      BY <1>2, <2>1
    <2> HIDE DEF new, pde
    <2> QED BY <1>2, <2>3, <2>4
  <1> QED BY <1>5, <1>6

(* An entry of a table changes what one address of one directory means.    *)
LEMMA EntrySet ==
    ASSUME Pointers, TabledOnce, mem \in Contents,
           Directories \subseteq Frames, Directories \cap Tables = {},
           NEW d0 \in Directories, NEW a \in VPages, NEW e \in Entry, e.p,
           NEW t, mem[d0][Hi(a)].p, t = mem[d0][Hi(a)].pa,
           mem' = [mem EXCEPT ![t][Lo(a)] = e]
    PROVE  /\ Translate(d0, a)' = e
           /\ \A d \in Directories, va \in VPages :
                 d # d0 \/ va # a => Translate(d, va)' = Translate(d, va)
           /\ \A d \in Directories : mem'[d] = mem[d]
  <1>1. /\ Hi(a) \in Slots /\ Lo(a) \in Slots
        /\ mem[d0][Hi(a)].w /\ mem[d0][Hi(a)].u
    BY Numbers DEF Pointers
  <1>2. t \in Frames /\ t \in Tables /\ t \notin Directories
    BY <1>1 DEF Pointers, Tables
  <1>3. /\ \A g \in Frames \ {t} : mem'[g] = mem[g]
        /\ mem'[t][Lo(a)] = e
        /\ \A s \in Slots \ {Lo(a)} : mem'[t][s] = mem[t][s]
    BY <1>1, <1>2 DEF Contents
  <1>4. \A d \in Directories : mem'[d] = mem[d]
    BY <1>2, <1>3
  <1>5. Translate(d0, a)' = e
    <2>1. mem'[d0][Hi(a)] = mem[d0][Hi(a)]
      BY <1>4
    <2>2. Translate(d0, a)' = Joint(mem'[d0][Hi(a)], mem'[mem'[d0][Hi(a)].pa][Lo(a)])
      BY Lookup, Zenon
    <2>3. Translate(d0, a)' = Joint(mem[d0][Hi(a)], e)
      BY <1>3, <2>1, <2>2
    <2>4. Joint(mem[d0][Hi(a)], e) =
             [e EXCEPT !.w = @ /\ mem[d0][Hi(a)].w, !.u = @ /\ mem[d0][Hi(a)].u]
      BY <1>2 DEF Joint
    <2>5. [e EXCEPT !.w = @ /\ TRUE, !.u = @ /\ TRUE] = e
      BY DEF Entry
    <2>6. mem[d0][Hi(a)].w = TRUE /\ mem[d0][Hi(a)].u = TRUE
      BY <1>1 DEF Entry
    <2> QED BY <2>3, <2>4, <2>5, <2>6
  <1>6. ASSUME NEW d \in Directories, NEW va \in VPages, d # d0 \/ va # a
        PROVE  Translate(d, va)' = Translate(d, va)
    <2> DEFINE h == Hi(va)
               l == Lo(va)
               pde == mem[d][h]
    <2>1. h \in Slots /\ l \in Slots
      <3>1. \A x \in VPages : Hi(x) \in Slots /\ Lo(x) \in Slots
        BY Numbers
      <3> QED BY <3>1
    <2>2. /\ Translate(d, va) = Joint(pde, mem[pde.pa][l])
          /\ Translate(d, va)' = Joint(pde, mem'[pde.pa][l])
          /\ ~pde.p => \A pte : Joint(pde, pte) = Absent
      <3>1. /\ Translate(d, va) = Joint(mem[d][h], mem[mem[d][h].pa][l])
            /\ Translate(d, va)' = Joint(mem'[d][h], mem'[mem'[d][h].pa][l])
            /\ ~pde.p => \A pte : Joint(pde, pte) = Absent
        BY Lookup, Zenon
      <3> QED BY <3>1, <1>4
    <2>4. pde.p => mem'[pde.pa][l] = mem[pde.pa][l]
      <3>1. CASE pde.p /\ pde.pa = t
        <4>1. d = d0 /\ h = Hi(a)
          BY <1>1, <2>1, <3>1 DEF TabledOnce
        <4>2. l # Lo(a)
          BY <1>6, <4>1, Numbers
        <4> QED BY <1>3, <2>1, <3>1, <4>2
      <3>2. CASE pde.p /\ pde.pa # t
        BY <1>3, <2>1, <3>2 DEF Pointers
      <3> QED BY <3>1, <3>2
    <2> HIDE DEF h, l, pde
    <2> QED BY <2>2, <2>4
  <1> QED BY <1>4, <1>5, <1>6

(* The kernel can write every page that free_range may give away.          *)
LEMMA AllWritable ==
    ASSUME Types, Complete, NEW f \in Frames, kend <= f,
           cr3 = None => f < N, cr3 # None => cr3 = kpgdir
    PROVE  Writable(f)
  <1>1. CASE cr3 = None
    BY <1>1 DEF Writable
  <1>2. CASE cr3 # None
    <2> DEFINE va == f + KERNBASE
    <2>0. kend \in KENDS /\ f \in Nat /\ f < PHYSTOP
      BY Sizes DEF Types, Frames
    <2>1. /\ va \in Nat /\ va < VSpace /\ va \in VPages /\ ~(va < KERNBASE)
          /\ va < KERNBASE + PHYSTOP /\ va - KERNBASE = f
      BY <2>0, Sizes DEF VPages
    <2>2. f \notin EXTMEM..(KDATA - 1)
      BY <2>0, Sizes
    <2>3. P2V(f) = va
      BY <2>1, NoCarry DEF P2V
    <2>4. Whole(va) = [p |-> TRUE, pa |-> f, w |-> TRUE, u |-> FALSE]
      BY <2>1, <2>2, WholeIs
    <2>5. Translate(cr3, va) = Whole(va)
      BY <1>2, <2>1 DEF Complete
    <2> QED BY <1>2, <2>3, <2>4, <2>5 DEF Writable
  <1> QED BY <1>1, <1>2

-----------------------------------------------------------------------------
(* Lemmas: the five uses of a page *)

(* kalloc takes the head of the list.                                      *)
LEMMA Taken ==
    ASSUME Types, FreedOnce, freelist # <<>>, freelist' = KallocRest
    PROVE  /\ NewPage \in Frames /\ NewPage \in Free
           /\ freelist' \in Seq(Frames) /\ FreedOnce' /\ Free' = Free \ {NewPage}
  <1> DEFINE n == Len(freelist)
  <1>1. freelist \in Seq(Frames) /\ n \in Nat /\ n > 0 /\ DOMAIN freelist = 1..n
    BY DEF Types
  <1>2. /\ freelist' \in Seq(Frames) /\ NewPage = freelist[1] /\ 1 \in 1..n
        /\ DOMAIN freelist' = 1..(n - 1)
        /\ \A k \in 1..(n - 1) : freelist'[k] = freelist[k + 1]
    BY <1>1 DEF KallocRest, NewPage
  <1> HIDE DEF n
  <1>3. NewPage \in Frames /\ NewPage \in Free
    BY <1>1, <1>2 DEF Free
  <1>4. FreedOnce'
    <2> SUFFICES ASSUME NEW j \in 1..(n - 1), NEW k \in 1..(n - 1), freelist'[j] = freelist'[k]
                 PROVE  j = k
      BY <1>2 DEF FreedOnce
    <2>1. j + 1 \in 1..n /\ k + 1 \in 1..n /\ freelist[j + 1] = freelist[k + 1]
      BY <1>1, <1>2
    <2>2. j + 1 = k + 1
      BY <2>1, <1>1 DEF FreedOnce
    <2> QED BY <2>2, <1>1
  <1>5. Free' = Free \ {NewPage}
    <2>1. ASSUME NEW g \in Free' PROVE g \in Free \ {NewPage}
      <3>1. PICK k \in 1..(n - 1) : g = freelist[k + 1]
        BY <1>2, <2>1 DEF Free
      <3>2. k + 1 \in 1..n /\ k + 1 # 1
        BY <1>1
      <3> QED BY <3>1, <3>2, <1>1, <1>2 DEF Free, FreedOnce
    <2>2. ASSUME NEW g \in Free \ {NewPage} PROVE g \in Free'
      <3>1. PICK k \in 1..n : g = freelist[k]
        BY <1>1, <2>2 DEF Free
      <3>2. k # 1
        BY <3>1, <1>2, <2>2
      <3>3. k - 1 \in 1..(n - 1) /\ k - 1 + 1 = k
        BY <3>2, <1>1
      <3>4. freelist'[k - 1] = g
        BY <3>1, <3>3, <1>2
      <3> QED BY <3>3, <3>4, <1>2 DEF Free
    <2> QED BY <2>1, <2>2
  <1> QED BY <1>2, <1>3, <1>4, <1>5

(* kfree puts a page at the head.                                          *)
LEMMA Given ==
    ASSUME Types, FreedOnce, NEW f \in Frames, f \notin Free, freelist' = <<f>> \o freelist
    PROVE  freelist' \in Seq(Frames) /\ FreedOnce' /\ Free' = Free \cup {f}
  <1> DEFINE n == Len(freelist)
  <1>1. freelist \in Seq(Frames) /\ n \in Nat /\ DOMAIN freelist = 1..n
    BY DEF Types
  <1>2. /\ freelist' \in Seq(Frames) /\ DOMAIN freelist' = 1..(n + 1) /\ freelist'[1] = f
        /\ \A k \in 1..n : freelist'[k + 1] = freelist[k]
    BY <1>1
  <1> HIDE DEF n
  <1>3. ASSUME NEW k \in 1..(n + 1) PROVE k = 1 \/ (k - 1 \in 1..n /\ freelist'[k] = freelist[k - 1])
    <2>1. CASE k # 1
      <3>1. k - 1 \in 1..n /\ k - 1 + 1 = k
        BY <1>1, <2>1
      <3> QED BY <3>1, <1>2
    <2> QED BY <2>1
  <1>4. FreedOnce'
    <2> SUFFICES ASSUME NEW j \in 1..(n + 1), NEW k \in 1..(n + 1), freelist'[j] = freelist'[k]
                 PROVE  j = k
      BY <1>2 DEF FreedOnce
    <2>1. ASSUME NEW i \in 1..n PROVE freelist[i] # f
      BY <1>1 DEF Free
    <2>2. CASE j = 1 \/ k = 1
      <3>1. ASSUME NEW i \in 1..(n + 1), freelist'[i] = f PROVE i = 1
        BY <1>3, <2>1, <3>1
      <3>2. freelist'[j] = f /\ freelist'[k] = f
        BY <1>2, <2>2
      <3> QED BY <3>1, <3>2
    <2>3. CASE j # 1 /\ k # 1
      <3>1. /\ j - 1 \in 1..n /\ k - 1 \in 1..n
            /\ freelist[j - 1] = freelist[k - 1]
        BY <1>3, <2>3
      <3>2. j - 1 = k - 1
        BY <1>1, <3>1 DEF FreedOnce
      <3> QED BY <3>2, <1>1
    <2> QED BY <2>2, <2>3
  <1>5. Free' = Free \cup {f}
    <2>1. ASSUME NEW g \in Free' PROVE g \in Free \cup {f}
      <3>1. PICK k \in 1..(n + 1) : g = freelist'[k]
        BY <1>2, <2>1 DEF Free
      <3> QED BY <3>1, <1>1, <1>2, <1>3 DEF Free
    <2>2. ASSUME NEW g \in Free PROVE g \in Free'
      <3>1. PICK k \in 1..n : g = freelist[k]
        BY <1>1, <2>2 DEF Free
      <3>2. k + 1 \in 1..(n + 1)
        BY <1>1
      <3> QED BY <3>1, <3>2, <1>2 DEF Free
    <2>3. f \in Free'
      <3>1. 1 \in 1..(n + 1)
        BY <1>1
      <3> QED BY <3>1, <1>2 DEF Free
    <2> QED BY <2>1, <2>2, <2>3
  <1> QED BY <1>2, <1>4, <1>5

(* A page goes from the free list to one other use.                        *)
LEMMA Moved ==
    ASSUME Partition, NEW f \in Free, Free' = Free \ {f}, UNCHANGED <<kend, ptr>>,
           \/ /\ Directories' = Directories \cup {f} /\ Tables' = Tables
              /\ Stacks' = Stacks /\ Memory' = Memory
           \/ /\ Directories' = Directories /\ Tables' = Tables \cup {f}
              /\ Stacks' = Stacks /\ Memory' = Memory
           \/ /\ Directories' = Directories /\ Tables' = Tables
              /\ Stacks' = Stacks \cup {f} /\ Memory' = Memory
           \/ /\ Directories' = Directories /\ Tables' = Tables
              /\ Stacks' = Stacks /\ Memory' = Memory \cup {f}
    PROVE  Partition'
  BY DEF Partition

(* Nothing is written in a directory.                                      *)
LEMMA SameTables ==
    ASSUME Directories' = Directories, \A d \in Directories : mem'[d] = mem[d]
    PROVE  /\ Tables' = Tables
           /\ Pointers => Pointers'
           /\ TabledOnce => TabledOnce'
  <1>1. Tables' = Tables
    BY DEF Tables
  <1>2. Pointers => Pointers'
    BY DEF Pointers
  <1>3. TabledOnce => TabledOnce'
    BY DEF TabledOnce
  <1> QED BY <1>1, <1>2, <1>3

(* A new directory is empty.                                               *)
LEMMA NewDirectory ==
    ASSUME NEW f, f \notin Directories, Directories' = Directories \cup {f},
           mem'[f] = Zeroed, \A d \in Directories : mem'[d] = mem[d]
    PROVE  /\ Tables' = Tables
           /\ Pointers => Pointers'
           /\ TabledOnce => TabledOnce'
  <1>1. \A s \in Slots : ~mem'[f][s].p
    BY DEF Zeroed, Absent
  <1>2. Tables' = Tables
    BY <1>1 DEF Tables
  <1>3. Pointers => Pointers'
    BY <1>1 DEF Pointers
  <1>4. TabledOnce => TabledOnce'
    BY <1>1 DEF TabledOnce
  <1> QED BY <1>2, <1>3, <1>4

(* One entry of a directory is set, to a page that is no table yet.        *)
LEMMA NewTable ==
    ASSUME NEW f \in Frames, f \notin Tables, Directories' = Directories,
           NEW d0 \in Directories, NEW h0 \in Slots, ~mem[d0][h0].p,
           mem'[d0][h0] = [p |-> TRUE, pa |-> f, w |-> TRUE, u |-> TRUE],
           \A s \in Slots \ {h0} : mem'[d0][s] = mem[d0][s],
           \A d \in Directories \ {d0} : mem'[d] = mem[d]
    PROVE  /\ Tables' = Tables \cup {f}
           /\ Pointers => Pointers'
           /\ TabledOnce => TabledOnce'
  <1>1. \A d \in Directories, s \in Slots : d # d0 \/ s # h0 => mem'[d][s] = mem[d][s]
    OBVIOUS
  <1>2. mem'[d0][h0].p /\ mem'[d0][h0].pa = f /\ mem'[d0][h0].w /\ mem'[d0][h0].u
    OBVIOUS
  <1>3. \A d \in Directories, s \in Slots : ~(mem[d][s].p /\ mem[d][s].pa = f)
    BY DEF Tables
  <1>4. Tables' = Tables \cup {f}
    <2>1. ASSUME NEW g \in Tables' PROVE g \in Tables \cup {f}
      BY <1>1, <1>2, <2>1 DEF Tables
    <2>2. ASSUME NEW g \in Tables PROVE g \in Tables'
      BY <1>1, <2>2 DEF Tables
    <2>3. f \in Tables'
      BY <1>2 DEF Tables
    <2> QED BY <2>1, <2>2, <2>3
  <1>5. Pointers => Pointers'
    BY <1>1, <1>2 DEF Pointers
  <1>6. TabledOnce => TabledOnce'
    BY <1>1, <1>2, <1>3 DEF TabledOnce
  <1> QED BY <1>4, <1>5, <1>6

-----------------------------------------------------------------------------
(* Lemmas: steps *)

(* The address spaces that no step touches stay complete.                  *)
LEMMA KeptSpaces ==
    ASSUME Complete, UNCHANGED <<kpgdir, procs>>, kpgdir # None => kpgdir \notin Building',
           Building \subseteq Building', freelist = <<>> => freelist' = <<>>,
           \A d \in Directories \ Building', va \in VPages :
               Translate(d, va)' = Translate(d, va)
    PROVE  Complete'
  <1>1. kpgdir # None => kpgdir \in Directories
    BY DEF Directories
  <1>2. \A k \in DOMAIN procs : procs[k].pgdir # None => procs[k].pgdir \in Directories
    BY DEF Directories
  <1>3. kpgdir' # None => \A va \in VPages : Translate(kpgdir, va)' = Whole(va)
    BY <1>1 DEF Complete
  <1>4. ASSUME NEW k \in DOMAIN procs', procs'[k].pgdir # None, procs'[k].pgdir \notin Building'
        PROVE  \/ /\ k = Len(procs') /\ freelist' = <<>>
                  /\ \A va \in VPages : Translate(procs[k].pgdir, va)' = Whole(va)
               \/ \A va \in VPages : Translate(procs[k].pgdir, va)' = Space(procs'[k].page, va)
    BY <1>2, <1>4 DEF Complete
  <1> QED BY <1>3, <1>4 DEF Complete

(* Nothing has been freed or created yet.                                  *)
LEMMA Nothing == DOMAIN <<>> = {} /\ Len(<<>>) = 0 /\ \A S : <<>> \in Seq(S)
  <1>1. Len(<<>>) = 0 /\ \A S : <<>> \in Seq(S)
    OBVIOUS
  <1>2. DOMAIN <<>> = 1..0
    OBVIOUS
  <1>3. 1..0 = {}
    OBVIOUS
  <1> QED BY <1>1, <1>2, <1>3

(* The types of what the pages are used for.                               *)
LEMMA Kinds ==
    ASSUME Types
    PROVE  /\ Directories \subseteq Frames /\ None \notin Frames
           /\ kend \in Nat /\ ptr \in Nat /\ KDATA < kend /\ kend <= N
           /\ kend <= ptr /\ ptr <= PHYSTOP
           /\ Len(procs) \in Nat /\ DOMAIN procs = 1..Len(procs)
           /\ \A k \in DOMAIN procs :
                 procs[k] \in Proc /\ procs[k].kstack \in Frames
                 /\ procs[k].pgdir \in Frames \cup {None} /\ procs[k].page \in Frames \cup {None}
           /\ \A d \in Directories : mem[d] \in [Slots -> Entry]
  <1>1. None \notin Frames
    BY DEF None, Frames
  <1>2. Len(procs) \in Nat /\ DOMAIN procs = 1..Len(procs)
    BY DEF Types
  <1>3. \A k \in DOMAIN procs : procs[k] \in Proc
    BY <1>2 DEF Types
  <1>4. \A k \in DOMAIN procs :
           procs[k].kstack \in Frames
           /\ procs[k].pgdir \in Frames \cup {None} /\ procs[k].page \in Frames \cup {None}
    BY <1>3 DEF Proc
  <1>5. Directories \subseteq Frames
    BY <1>4 DEF Directories, Building, Types
  <1>6. kend \in Nat /\ KDATA < kend /\ kend <= N /\ PHYSTOP \in Nat
    BY Sizes DEF Types
  <1>7. ptr \in Nat /\ kend <= ptr /\ ptr <= PHYSTOP
    BY <1>6 DEF Types
  <1>8. \A d \in Directories : mem[d] \in [Slots -> Entry]
    BY <1>5 DEF Types, Contents
  <1> QED BY <1>1, <1>2, <1>3, <1>4, <1>5, <1>6, <1>7, <1>8

(* Every state in which boot may begin.                                    *)
LEMMA InitIInv == Init => IInv
  <1> SUFFICES ASSUME Init PROVE IInv
    OBVIOUS
  <1>1. /\ kend \in KENDS /\ freelist = <<>> /\ mem = [f \in Frames |-> Zeroed]
        /\ cr3 = None /\ kpgdir = None /\ procs = <<>> /\ pc = "free" /\ ptr = kend
        /\ dir = None /\ mapno = 0 /\ halt = ""
        /\ map = [va |-> 0, last |-> 0, pa |-> 0, w |-> FALSE, u |-> FALSE]
    BY DEF Init
  <1>2. kend \in Nat /\ kend <= N /\ kend <= PHYSTOP /\ 0 \in VPages
    <2>1. kend \in Nat /\ kend <= N
      BY <1>1, Sizes
    <2> QED BY <2>1, Sizes DEF VPages
  <1>3. /\ DOMAIN procs = {} /\ DOMAIN freelist = {} /\ Len(procs) = 0
        /\ freelist \in Seq(Frames) /\ procs \in Seq(Proc)
    BY <1>1, Nothing
  <1>4. Free = {} /\ Stacks = {} /\ Memory = {}
    BY <1>3 DEF Free, Stacks, Memory
  <1>5. Directories = {}
    BY <1>1, <1>3 DEF Directories, Building
  <1>6. Tables = {} /\ Pointers /\ TabledOnce
    BY <1>5 DEF Tables, Pointers, TabledOnce
  <1>7. Types
    <2>1. Zeroed \in [Slots -> Entry]
      BY <1>2 DEF Zeroed, Absent, Entry, VPages
    <2>2. mem \in Contents
      BY <1>1, <2>1 DEF Contents
    <2>3. map \in Maps
      BY <1>1, <1>2 DEF Maps
    <2>4. ptr \in kend..PHYSTOP /\ mapno \in 0..4 /\ pc \in Labels /\ Len(procs) <= NINIT
      <3>1. ptr \in kend..PHYSTOP
        <4>1. \A x, y \in Nat : x <= y => x \in x..y
          OBVIOUS
        <4>2. kend \in Nat /\ kend <= PHYSTOP /\ PHYSTOP \in Nat /\ ptr = kend
          BY <1>1, <1>2, Sizes, Zenon
        <4> QED BY <4>1, <4>2, Zenon
      <3>2. mapno \in 0..4
        <4>1. 0 \in 0..4
          OBVIOUS
        <4> QED BY <1>1, <4>1, Zenon
      <3>3. pc \in Labels
        BY <1>1 DEF Labels
      <3>4. Len(procs) <= NINIT
        BY <1>3, Sizes
      <3> QED BY <3>1, <3>2, <3>3, <3>4
    <2> QED BY <1>1, <1>3, <2>2, <2>3, <2>4 DEF Types
  <1>8. Partition
    <2>1. kend..(kend - 1) = {}
      BY <1>2
    <2> QED BY <1>1, <1>4, <1>5, <1>6, <2>1 DEF Partition
  <1>9. FreedOnce /\ GivenOnce
    BY <1>3 DEF FreedOnce, GivenOnce
  <1>10. Phases /\ Progress /\ Complete /\ OnlyOutOfMemoryStops
    BY <1>1, <1>2, <1>3 DEF Phases, InMap, Progress, Complete, OnlyOutOfMemoryStops
  <1> QED BY <1>6, <1>7, <1>8, <1>9, <1>10 DEF IInv

(* Nothing changes, or the machine stops for lack of memory.               *)
LEMMA Rests ==
    ASSUME IInv, halt' = halt \/ freelist = <<>>,
           UNCHANGED <<kend, freelist, mem, cr3, kpgdir, procs, pc, ptr, dir, mapno, map>>
    PROVE  IInv'
  <1>1. Types'
    BY DEF IInv, Types
  <1>2. /\ Free' = Free /\ Directories' = Directories /\ Stacks' = Stacks /\ Memory' = Memory
        /\ InMap' = InMap /\ Building' = Building
    BY DEF Free, Directories, Building, Stacks, Memory, InMap
  <1>3. Tables' = Tables /\ Pointers' /\ TabledOnce'
    BY <1>2, SameTables DEF IInv
  <1>4. Partition' /\ FreedOnce' /\ GivenOnce'
    BY <1>2, <1>3 DEF IInv, Partition, FreedOnce, GivenOnce
  <1>5. Phases'
    BY <1>2 DEF IInv, Phases, Unready
  <1>6. \A d, va : Translate(d, va)' = Translate(d, va)
    BY SameMemory
  <1>7. Progress'
    BY <1>2, <1>6 DEF IInv, Progress
  <1>8. Complete'
    BY <1>2, <1>6 DEF IInv, Complete
  <1>9. OnlyOutOfMemoryStops'
    BY DEF IInv, OnlyOutOfMemoryStops
  <1> QED BY <1>1, <1>3, <1>4, <1>5, <1>7, <1>8, <1>9 DEF IInv

(* The free list grows by a page that was in no use.                       *)
LEMMA FreePageStep == ASSUME IInv, FreePage PROVE IInv'
  <1>1. /\ Types /\ Partition /\ FreedOnce /\ TabledOnce /\ GivenOnce /\ Pointers
        /\ Phases /\ Complete
    BY DEF IInv
  <1>2. /\ halt = "" /\ pc = "free" /\ procs = <<>> /\ ptr + 1 <= VEnd
        /\ (kpgdir = None <=> cr3 = None)
        /\ (kpgdir = None => ptr <= N)
        /\ (kpgdir # None => cr3 = kpgdir /\ N <= ptr)
    BY <1>1 DEF FreePage, At, Phases
  <1>3. /\ kend \in Nat /\ ptr \in Nat /\ kend <= ptr /\ ptr < PHYSTOP
        /\ (cr3 = None => ptr + 1 <= N) /\ DOMAIN procs = {}
    <2>1. DOMAIN procs = {}
      BY <1>2, Nothing
    <2>2. (cr3 = None => ptr + 1 <= N) /\ (cr3 # None => ptr + 1 <= PHYSTOP)
      BY <1>2 DEF VEnd
    <2>3. kend \in Nat /\ ptr \in Nat /\ kend <= ptr
      BY <1>1, Kinds
    <2> QED BY <2>1, <2>2, <2>3, Sizes
  <1>4. ptr \in Frames /\ Writable(ptr)
    <2>1. ptr \in Frames /\ (cr3 = None => ptr < N)
      BY <1>3, Sizes DEF Frames
    <2> QED BY <1>1, <1>2, <1>3, <2>1, AllWritable
  <1>5. /\ mem' = [mem EXCEPT ![ptr] = Junk] /\ freelist' = <<ptr>> \o freelist
        /\ ptr' = ptr + 1
        /\ UNCHANGED <<kend, cr3, kpgdir, procs, pc, dir, mapno, map, halt>>
    BY <1>4 DEF FreePage
  <1>6. ptr \notin Free /\ ptr \notin Directories /\ ptr \notin Tables
        /\ ptr \notin Stacks /\ ptr \notin Memory
    <2>1. ptr \notin kend..(ptr - 1)
      BY <1>3
    <2> QED BY <1>1, <2>1 DEF Partition
  <1>7. freelist' \in Seq(Frames) /\ FreedOnce' /\ Free' = Free \cup {ptr}
    BY <1>1, <1>4, <1>5, <1>6, Given
  <1>8. Directories' = Directories /\ Stacks' = Stacks /\ Memory' = Memory
    BY <1>5 DEF Directories, Building, Stacks, Memory
  <1>9. mem \in Contents /\ mem' \in Contents
    <2>1. Junk \in [Slots -> Entry]
      <3>1. Absent \in Entry
        BY Sizes DEF Entry, Absent
      <3>2. [p |-> TRUE, pa |-> PHYSTOP, w |-> TRUE, u |-> TRUE] \in Entry
        BY Sizes DEF Entry
      <3> QED BY <3>1, <3>2 DEF Junk
    <2>2. mem \in Contents
      BY <1>1 DEF Types
    <2> QED BY <1>5, <2>1, <2>2 DEF Contents
  <1>10. \A d \in Directories : mem'[d] = mem[d]
    BY <1>1, <1>5, <1>6, <1>9, Kinds DEF Contents
  <1>11. Tables' = Tables /\ Pointers' /\ TabledOnce'
    BY <1>1, <1>8, <1>10, SameTables
  <1>12. Types'
    <2>1. ptr' \in kend'..PHYSTOP
      BY <1>3, <1>5, Sizes
    <2> QED BY <1>1, <1>5, <1>7, <1>9, <2>1 DEF Types
  <1>13. Partition'
    <2>1. kend..(ptr' - 1) = kend..(ptr - 1) \cup {ptr}
      BY <1>3, <1>5
    <2> QED BY <1>1, <1>5, <1>6, <1>7, <1>8, <1>11, <2>1 DEF Partition
  <1>14. ~InMap' /\ ~Unready' /\ DOMAIN procs' = {}
    BY <1>2, <1>3, <1>5 DEF InMap, Unready
  <1>15. GivenOnce' /\ Progress' /\ OnlyOutOfMemoryStops'
    BY <1>2, <1>5, <1>14 DEF GivenOnce, Progress, OnlyOutOfMemoryStops
  <1>16. Phases'
    <2>1. (kpgdir = None => ptr' <= N) /\ (kpgdir # None => N <= ptr')
      <3>1. N \in Nat /\ ptr \in Nat /\ (N <= ptr => N <= ptr + 1)
        BY <1>3, Sizes
      <3> QED BY <1>2, <1>3, <1>5, <3>1
    <2> QED BY <1>2, <1>5, <1>14, <2>1 DEF Phases
  <1>17. Complete'
    <2>1. \A d \in Directories, va \in VPages : Translate(d, va)' = Translate(d, va)
      BY <1>1, <1>4, <1>5, <1>6, <1>9, Unread
    <2>2. kpgdir # None => kpgdir \in Directories
      BY DEF Directories
    <2>3. kpgdir' # None => \A va \in VPages : Translate(kpgdir, va)' = Whole(va)
      BY <1>1, <1>5, <2>1, <2>2 DEF Complete
    <2> QED BY <1>14, <2>3 DEF Complete
  <1> QED BY <1>7, <1>11, <1>12, <1>13, <1>15, <1>16, <1>17 DEF IInv

(* free_range has reached the end.                                         *)
LEMMA FreeRangeDoneStep == ASSUME IInv, FreeRangeDone PROVE IInv'
  <1>1. /\ Types /\ Partition /\ FreedOnce /\ TabledOnce /\ GivenOnce /\ Pointers
        /\ Phases /\ Complete
    BY DEF IInv
  <1>2. /\ halt = "" /\ pc = "free" /\ procs = <<>> /\ ptr + 1 > VEnd
        /\ pc' = (IF cr3 = None THEN "setup" ELSE "user")
        /\ (kpgdir = None <=> cr3 = None)
        /\ (kpgdir = None => ptr <= N)
        /\ (kpgdir # None => cr3 = kpgdir /\ N <= ptr)
        /\ UNCHANGED <<kend, freelist, mem, cr3, kpgdir, procs, ptr, dir, mapno, map, halt>>
    BY <1>1 DEF FreeRangeDone, At, Phases
  <1>3. Types'
    BY <1>1, <1>2 DEF Types, Labels
  <1>4. /\ Free' = Free /\ Directories' = Directories /\ Stacks' = Stacks /\ Memory' = Memory
        /\ ~InMap' /\ Building' = {} /\ DOMAIN procs' = {}
    BY <1>2, Nothing DEF Free, Directories, Building, Stacks, Memory, InMap
  <1>5. Tables' = Tables /\ Pointers' /\ TabledOnce'
    BY <1>1, <1>2, <1>4, SameTables
  <1>6. Partition'
    BY <1>1, <1>2, <1>4, <1>5 DEF Partition
  <1>7. FreedOnce' /\ GivenOnce'
    BY <1>1, <1>2, <1>4 DEF FreedOnce, GivenOnce
  <1>8. Phases'
    <2>1. kpgdir = None => ptr = N
      <3>1. ptr \in Nat
        BY <1>1, Kinds
      <3>2. kpgdir = None => ptr + 1 > N
        BY <1>2 DEF VEnd
      <3>3. \A x, y \in Nat : x <= y /\ x + 1 > y => x = y
        OBVIOUS
      <3>4. N \in Nat
        BY Sizes
      <3> QED BY <1>2, <3>1, <3>2, <3>3, <3>4, Zenon
    <2>2. (kpgdir = None => pc' = "setup") /\ (kpgdir # None => pc' = "user")
      BY <1>2
    <2> QED BY <1>2, <1>4, <2>1, <2>2 DEF Phases, Unready
  <1>9. Complete'
    <2>1. \A d, va : Translate(d, va)' = Translate(d, va)
      BY <1>2, SameMemory
    <2>2. kpgdir' # None => \A va \in VPages : Translate(kpgdir, va)' = Whole(va)
      BY <1>1, <1>2, <2>1 DEF Complete
    <2> QED BY <1>4, <2>2 DEF Complete
  <1>10. Progress' /\ OnlyOutOfMemoryStops'
    BY <1>2, <1>4 DEF Progress, OnlyOutOfMemoryStops
  <1> QED BY <1>3, <1>5, <1>6, <1>7, <1>8, <1>9, <1>10 DEF IInv

(* What kalloc hands out can be written, and is in no use.                 *)
LEMMA Handed ==
    ASSUME IInv, pc # "run", freelist # <<>>
    PROVE  /\ NewPage \in Frames /\ NewPage \in Free /\ NewPage # None
           /\ NewPage \notin Directories /\ NewPage \notin Tables
           /\ NewPage \notin Stacks /\ NewPage \notin Memory
           /\ Writable(NewPage)
           /\ NewPage # kpgdir /\ \A k \in DOMAIN procs : procs[k].pgdir # NewPage
  <1>1. Types /\ Partition /\ FreedOnce /\ Phases /\ Complete
    BY DEF IInv
  <1>2. NewPage \in Frames /\ NewPage \in Free
    <2>1. freelist \in Seq(Frames) /\ Len(freelist) \in Nat /\ DOMAIN freelist = 1..Len(freelist)
          /\ NewPage = freelist[1] /\ 1 \in DOMAIN freelist
      BY <1>1 DEF Types, NewPage
    <2> QED BY <2>1 DEF Free
  <1>3. NewPage # None
    BY <1>1, <1>2, Kinds
  <1>4. /\ NewPage \notin Directories /\ NewPage \notin Tables
        /\ NewPage \notin Stacks /\ NewPage \notin Memory
    BY <1>1, <1>2 DEF Partition
  <1>5. NewPage \in kend..(ptr - 1)
    BY <1>1, <1>2 DEF Partition
  <1>6. /\ cr3 = None => ptr <= N
        /\ cr3 # None => cr3 = kpgdir
    <2>1. N <= N
      BY Sizes
    <2> QED BY <1>1, <2>1 DEF Phases
  <1>7. kend <= NewPage /\ (cr3 = None => NewPage < N)
    <2>1. kend \in Nat /\ ptr \in Nat /\ N \in Nat
      BY <1>1, Kinds, Sizes
    <2> QED BY <1>5, <1>6, <2>1
  <1>8. Writable(NewPage)
    BY <1>1, <1>2, <1>6, <1>7, AllWritable
  <1>9. NewPage # kpgdir /\ \A k \in DOMAIN procs : procs[k].pgdir # NewPage
    BY <1>3, <1>4 DEF Directories
  <1> QED BY <1>2, <1>3, <1>4, <1>8, <1>9

(* A cleared page is a table of absent entries.                            *)
LEMMA Empty == Zeroed \in [Slots -> Entry]
  <1>1. 0 \in 0..(VSpace - 1)
    BY Sizes
  <1>2. Absent \in Entry
    BY <1>1 DEF Entry, Absent
  <1> QED BY <1>2 DEF Zeroed

(* The page tables after kalloc's page is cleared.                         *)
LEMMA Cleared ==
    ASSUME mem \in Contents, NEW f \in Frames, f \notin Directories,
           mem' = [mem EXCEPT ![f] = Zeroed]
    PROVE  /\ Zeroed \in [Slots -> Entry] /\ mem' \in Contents /\ mem'[f] = Zeroed
           /\ \A d \in Directories : mem'[d] = mem[d]
           /\ \A va \in VPages : Translate(f, va)' = Absent
  <1>1. Zeroed \in [Slots -> Entry]
    BY Empty
  <1>2. mem' \in Contents /\ mem'[f] = Zeroed
    BY <1>1 DEF Contents
  <1>3. \A d \in Directories : mem'[d] = mem[d]
    BY DEF Contents
  <1>4. ASSUME NEW va \in VPages PROVE Translate(f, va)' = Absent
    <2>1. ~mem'[f][Hi(va)].p
      <3>1. Hi(va) \in Slots
        BY Numbers
      <3> QED BY <1>2, <3>1 DEF Zeroed, Absent
    <2>2. Translate(f, va)' = Joint(mem'[f][Hi(va)], mem'[mem'[f][Hi(va)].pa][Lo(va)])
      BY Lookup, Zenon
    <2>3. \A pde, pte : ~pde.p => Joint(pde, pte) = Absent
      BY Lookup, Zenon
    <2> QED BY <2>1, <2>2, <2>3
  <1> QED BY <1>1, <1>2, <1>3, <1>4

(* Each of the four calls begins with its first page.                      *)
LEMMA Begins ==
    ASSUME NEW k \in 1..4
    PROVE  /\ MapKernel(k) \in Maps
           /\ MapKernel(k).va = First(k) /\ MapKernel(k).last = Last(k)
           /\ MapKernel(k).va \in First(k)..Last(k)
           /\ MapKernel(k).pa = Target(k, First(k))
           /\ MapKernel(k).w = k_maps[k].w /\ ~MapKernel(k).u
  <1>1. MapKernel(k) = [va |-> First(k), last |-> Last(k), pa |-> Target(k, First(k)),
                        w |-> k_maps[k].w, u |-> FALSE]
    BY Calls
  <1>2. First(k) \in First(k)..Last(k)
    <2>1. First(k) \in Nat /\ Last(k) \in Nat /\ First(k) <= Last(k)
      BY Ranges, Sizes DEF VPages
    <2> QED BY <2>1
  <1>3. /\ k_maps[k].w \in BOOLEAN /\ First(k) \in VPages /\ Last(k) \in VPages
        /\ Target(k, First(k)) \in VPages
    BY <1>2, Ranges
  <1> QED BY <1>1, <1>2, <1>3 DEF Maps

(* The new directory is empty.                                             *)
LEMMA SetupKvmStep == ASSUME IInv, SetupKvm PROVE IInv'
  <1>1. /\ Types /\ Partition /\ FreedOnce /\ TabledOnce /\ GivenOnce /\ Pointers
        /\ Phases /\ Complete /\ OnlyOutOfMemoryStops
    BY DEF IInv
  <1>2. halt = "" /\ pc = "setup" /\ ~InMap /\ Unready /\ Building = {}
    BY DEF SetupKvm, At, InMap, Unready, Building
  <1>3. CASE KallocFails
    <2>1. freelist = <<>>
          /\ UNCHANGED <<kend, freelist, mem, cr3, kpgdir, procs, pc, ptr, dir, mapno, map>>
      BY <1>3 DEF SetupKvm, KallocFails, Stop
    <2> QED BY <2>1, Rests
  <1>4. CASE ~KallocFails
    <2>1. freelist # <<>>
      BY <1>4 DEF KallocFails
    <2>0. PICK f : f = NewPage
      OBVIOUS
    <2>2. /\ f \in Frames /\ f \in Free /\ f # None
          /\ f \notin Directories /\ f \notin Tables /\ Writable(f)
          /\ f # kpgdir /\ \A k \in DOMAIN procs : procs[k].pgdir # f
      BY <1>2, <2>0, <2>1, Handed
    <2>3. /\ freelist' = KallocRest /\ mem' = [mem EXCEPT ![f] = Zeroed] /\ dir' = f
          /\ mapno' = 1 /\ map' = MapKernel(1) /\ pc' = "map"
          /\ UNCHANGED <<kend, cr3, kpgdir, procs, ptr, halt>>
      BY <1>4, <2>0, <2>2 DEF SetupKvm
    <2>4. freelist' \in Seq(Frames) /\ FreedOnce' /\ Free' = Free \ {f}
      BY <1>1, <2>0, <2>1, <2>3, Taken
    <2>5. /\ mem \in Contents /\ mem' \in Contents /\ mem'[f] = Zeroed
          /\ \A d \in Directories : mem'[d] = mem[d]
          /\ \A va \in VPages : Translate(f, va)' = Absent
      <3>1. mem \in Contents
        BY <1>1 DEF Types
      <3> QED BY <2>2, <2>3, <3>1, Cleared
    <2>6. /\ InMap' /\ Unready' /\ Building' = {f} /\ Stacks' = Stacks /\ Memory' = Memory
          /\ DOMAIN procs' = DOMAIN procs
      BY <2>3 DEF InMap, Unready, Building, Stacks, Memory
    <2>8. Directories' = Directories \cup {f}
      BY <1>2, <2>3, <2>6, <2>2 DEF Directories
    <2>9. Tables' = Tables /\ Pointers' /\ TabledOnce'
      BY <1>1, <2>5, <2>2, <2>8, NewDirectory
    <2>10. Partition'
      BY <1>1, <2>3, <2>4, <2>6, <2>2, <2>8, <2>9, Moved
    <2>11. /\ map' \in Maps /\ map'.va = First(1) /\ map'.last = Last(1)
           /\ map'.va \in First(1)..Last(1) /\ map'.pa = Target(1, map'.va)
           /\ map'.w = k_maps[1].w /\ ~map'.u
      <3>1. 1 \in 1..4
        OBVIOUS
      <3> QED BY <2>3, <3>1, Begins
    <2>12. Types'
      <3>1. mapno' \in 0..4 /\ pc' \in Labels
        BY <2>3 DEF Labels
      <3> QED BY <1>1, <2>3, <2>4, <2>5, <2>2, <2>11, <3>1 DEF Types
    <2>13. GivenOnce' /\ OnlyOutOfMemoryStops'
      BY <1>1, <1>2, <2>3 DEF GivenOnce, OnlyOutOfMemoryStops
    <2>14. Phases'
      <3>1. /\ kpgdir = None => cr3 = None /\ procs = <<>> /\ ptr = N
            /\ kpgdir # None => N <= ptr /\ cr3 # None /\ cr3 = kpgdir /\ procs # <<>>
            /\ \A k \in DOMAIN procs :
                  /\ procs[k].pgdir = None <=> k = Len(procs)
                  /\ procs[k].page = None <=> procs[k].pgdir = None
                  /\ procs[k].pgdir # kpgdir
        BY <1>1, <1>2 DEF Phases
      <3>2. pc' = "map" /\ pc' # "free" /\ mapno' # 0 /\ dir' # None /\ dir' # kpgdir'
            /\ \A k \in DOMAIN procs : procs[k].pgdir # dir'
        BY <2>2, <2>3
      <3> QED BY <2>3, <2>6, <3>1, <3>2 DEF Phases
    <2>15. Progress'
      <3>1. ASSUME NEW va \in VPages
            PROVE  Translate(dir, va)' = IF va < map'.va THEN Whole(va) ELSE Absent
        <4>1. Translate(dir, va)' = Absent
          BY <2>3, <2>5, ByDirectory
        <4>2. va < First(1) => Whole(va) = Absent
          BY Rows DEF Whole
        <4> QED BY <2>11, <4>1, <4>2
      <3>2. mapno' = 1 /\ pc' # "mapped"
        BY <2>3
      <3> QED BY <2>11, <3>1, <3>2 DEF Progress
    <2>16. Complete'
      <3>1. \A d \in Directories, va \in VPages : Translate(d, va)' = Translate(d, va)
        BY <1>1, <2>3, <2>5, <2>2, Unread
      <3>2. \A d \in Directories \ Building', va \in VPages : Translate(d, va)' = Translate(d, va)
        BY <3>1
      <3>3. freelist = <<>> => freelist' = <<>>
        BY <2>1
      <3> QED BY <1>1, <1>2, <2>3, <2>6, <2>2, <3>2, <3>3, KeptSpaces
    <2> QED BY <2>4, <2>9, <2>10, <2>12, <2>13, <2>14, <2>15, <2>16 DEF IInv
  <1> QED BY <1>3, <1>4

(* The directory in which map_pages works.                                 *)
LEMMA Working ==
    ASSUME IInv, InMap
    PROVE  /\ dir # None /\ dir \in Directories /\ dir \in Frames /\ dir # kpgdir
           /\ Building = {dir} /\ map.va \in VPages /\ mem \in Contents
           /\ map.va \div N = Hi(map.va) /\ map.va % N = Lo(map.va)
           /\ Hi(map.va) \in Slots /\ Lo(map.va) \in Slots
           /\ mem[dir] \in [Slots -> Entry]
           /\ mapno = 0 => /\ procs # <<>> /\ kpgdir # None
                           /\ \A k \in DOMAIN procs : procs[k].pgdir = dir <=> k = Len(procs)
           /\ mapno # 0 => \A k \in DOMAIN procs : procs[k].pgdir # dir
  <1>1. Types /\ Phases
    BY DEF IInv
  <1>2. dir # None /\ dir # kpgdir /\ Building = {dir}
    BY <1>1 DEF Phases, InMap, Building
  <1>3. dir \in Directories
    BY <1>2 DEF Directories
  <1>4. dir \in Frames /\ mem \in Contents /\ mem[dir] \in [Slots -> Entry]
    BY <1>1, <1>3, Kinds DEF Types
  <1>5. map.va \in VPages
    BY <1>1 DEF Types, Maps
  <1>6. /\ map.va \div N = Hi(map.va) /\ map.va % N = Lo(map.va)
        /\ Hi(map.va) \in Slots /\ Lo(map.va) \in Slots
    BY <1>5, Numbers DEF Hi, Lo
  <1>7. /\ mapno = 0 => /\ procs # <<>> /\ kpgdir # None
                        /\ \A k \in DOMAIN procs : procs[k].pgdir = dir <=> k = Len(procs)
        /\ mapno # 0 => \A k \in DOMAIN procs : procs[k].pgdir # dir
    BY <1>1 DEF Phases
  <1> QED BY <1>2, <1>3, <1>4, <1>5, <1>6, <1>7

(* The boot code goes on with a process whose address space is done, or    *)
(* could not be finished for lack of memory.                               *)
LEMMA Finished ==
    ASSUME IInv, InMap, mapno = 0, pc' = "user",
           UNCHANGED <<kend, freelist, mem, cr3, kpgdir, procs, ptr, dir, mapno, map, halt>>,
           pc = "mapped" \/ freelist = <<>>
    PROVE  IInv'
  <1>1. /\ Types /\ Partition /\ FreedOnce /\ TabledOnce /\ GivenOnce /\ Pointers
        /\ Phases /\ Progress /\ Complete /\ OnlyOutOfMemoryStops
    BY DEF IInv
  <1>2. /\ dir # None /\ dir \in Directories /\ procs # <<>> /\ kpgdir # None
        /\ Building = {dir} /\ \A k \in DOMAIN procs : procs[k].pgdir = dir <=> k = Len(procs)
    BY Working
  <1>3. Len(procs) \in DOMAIN procs
    <2>1. Len(procs) \in Nat /\ DOMAIN procs = 1..Len(procs) /\ Len(procs) # 0
      <3>1. procs \in Seq(Proc)
        BY <1>1 DEF Types
      <3> QED BY <1>2, <3>1
    <2> QED BY <2>1
  <1>4. ~InMap' /\ ~Unready /\ ~Unready' /\ Building' = {}
    BY DEF InMap, Unready, Building
  <1>5. /\ Free' = Free /\ Directories' = Directories /\ Stacks' = Stacks /\ Memory' = Memory
    <2>1. Directories' = Directories
      BY <1>2, <1>3, <1>4 DEF Directories
    <2> QED BY <2>1 DEF Free, Stacks, Memory
  <1>6. Tables' = Tables /\ Pointers' /\ TabledOnce'
    BY <1>1, <1>5, SameTables
  <1>7. Types'
    BY <1>1 DEF Types, Labels
  <1>8. Partition' /\ FreedOnce' /\ GivenOnce'
    BY <1>1, <1>5, <1>6 DEF Partition, FreedOnce, GivenOnce
  <1>9. Phases'
    <2>1. /\ N <= ptr /\ cr3 # None /\ cr3 = kpgdir
          /\ \A k \in DOMAIN procs :
                /\ procs[k].pgdir # None
                /\ procs[k].page = None <=> procs[k].pgdir = None
                /\ procs[k].pgdir # kpgdir
      BY <1>1, <1>2, <1>4 DEF Phases, InMap
    <2>2. pc' # "free" /\ pc' # "run"
      OBVIOUS
    <2> QED BY <1>2, <1>4, <2>1, <2>2 DEF Phases
  <1>10. Complete'
    <2>1. \A d, va : Translate(d, va)' = Translate(d, va)
      BY SameMemory
    <2>2. kpgdir' # None => \A va \in VPages : Translate(kpgdir, va)' = Whole(va)
      BY <1>1, <2>1 DEF Complete
    <2>3. ASSUME NEW k \in DOMAIN procs
          PROVE  \/ /\ k = Len(procs) /\ freelist = <<>>
                    /\ \A va \in VPages : Translate(procs[k].pgdir, va) = Whole(va)
                 \/ \A va \in VPages : Translate(procs[k].pgdir, va) = Space(procs[k].page, va)
      <3>1. CASE procs[k].pgdir = dir
        <4>1. k = Len(procs)
          BY <1>2, <3>1
        <4>2. \A va \in VPages : Translate(dir, va) =
                 IF pc = "map" THEN Whole(va) ELSE Space(procs[Len(procs)].page, va)
          BY <1>1 DEF Progress
        <4>3. (pc = "map" => freelist = <<>>) /\ (pc # "map" => pc = "mapped")
          BY DEF InMap
        <4> QED BY <3>1, <4>1, <4>2, <4>3
      <3>2. CASE procs[k].pgdir # dir
        <4>1. procs[k].pgdir # None
          BY <1>1, <1>4 DEF Phases
        <4> QED BY <1>1, <1>2, <3>2, <4>1 DEF Complete
      <3> QED BY <3>1, <3>2
    <2> QED BY <1>4, <2>1, <2>2, <2>3 DEF Complete
  <1>11. Progress' /\ OnlyOutOfMemoryStops'
    BY <1>1, <1>4 DEF Progress, OnlyOutOfMemoryStops
  <1> QED BY <1>6, <1>7, <1>8, <1>9, <1>10, <1>11 DEF IInv

(* init_uvm is done.                                                       *)
LEMMA InitUvmDoneStep == ASSUME IInv, InitUvmDone PROVE IInv'
  <1>1. /\ InMap /\ pc = "mapped" /\ mapno = 0 /\ pc' = "user"
        /\ UNCHANGED <<kend, freelist, mem, cr3, kpgdir, procs, ptr, dir, mapno, map, halt>>
    BY DEF InitUvmDone, At, InMap
  <1> QED BY <1>1, Finished

(* Phases does not look at the page tables or the free list.               *)
LEMMA SamePhases ==
    ASSUME Phases, InMap, InMap', (mapno' # 0 <=> mapno # 0),
           UNCHANGED <<kend, cr3, kpgdir, procs, ptr, dir>>
    PROVE  Phases'
  <1>1. Unready' <=> Unready
    BY DEF InMap, Unready
  <1>2. pc' # "free" /\ pc' # "run" /\ pc # "free" /\ pc # "run"
        /\ pc' \in {"free", "setup", "map", "mapped"}
    BY DEF InMap
  <1> QED BY <1>1, <1>2 DEF Phases

(* The new table is empty, too.                                            *)
LEMMA WalkNewTableStep == ASSUME IInv, WalkNewTable PROVE IInv'
  <1>1. /\ Types /\ Partition /\ FreedOnce /\ TabledOnce /\ GivenOnce /\ Pointers
        /\ Phases /\ Progress /\ Complete /\ OnlyOutOfMemoryStops
    BY DEF IInv
  <1>2. halt = "" /\ pc = "map" /\ InMap /\ ~Pde.p
    BY DEF WalkNewTable, At, InMap
  <1>3. CASE KallocFails /\ mapno = 0
    <2>1. /\ freelist = <<>> /\ pc' = "user"
          /\ UNCHANGED <<kend, freelist, mem, cr3, kpgdir, procs, ptr, dir, mapno, map, halt>>
      BY <1>3 DEF WalkNewTable, KallocFails
    <2> QED BY <1>2, <1>3, <2>1, Finished
  <1>4. CASE KallocFails /\ mapno # 0
    <2>1. freelist = <<>>
          /\ UNCHANGED <<kend, freelist, mem, cr3, kpgdir, procs, pc, ptr, dir, mapno, map>>
      BY <1>4 DEF WalkNewTable, KallocFails, Stop
    <2> QED BY <2>1, Rests
  <1>5. CASE ~KallocFails
    <2>1. freelist # <<>>
      BY <1>5 DEF KallocFails
    <2>2. PICK f, d0, h0 : f = NewPage /\ d0 = dir /\ h0 = Hi(map.va)
      OBVIOUS
    <2>3. /\ f \in Frames /\ f \in Free
          /\ f \notin Directories /\ f \notin Tables /\ Writable(f)
      BY <1>2, <2>1, <2>2, Handed
    <2>4. /\ d0 \in Directories /\ d0 # kpgdir /\ h0 \in Slots /\ mem \in Contents
          /\ Building = {d0} /\ ~mem[d0][h0].p /\ map.va \div N = h0
      BY <1>2, <2>2, Working DEF Pde
    <2>5. /\ freelist' = KallocRest
          /\ mem' = [mem EXCEPT ![f] = Zeroed,
                                ![d0][h0] = [p |-> TRUE, pa |-> f, w |-> TRUE, u |-> TRUE]]
          /\ UNCHANGED <<kend, cr3, kpgdir, procs, pc, ptr, dir, mapno, map, halt>>
      BY <1>5, <2>2, <2>3, <2>4 DEF WalkNewTable
    <2>6. freelist' \in Seq(Frames) /\ FreedOnce' /\ Free' = Free \ {f}
      BY <1>1, <2>1, <2>2, <2>5, Taken
    <2>7. /\ InMap' /\ (Unready' <=> Unready) /\ Building' = Building /\ Directories' = Directories
          /\ Stacks' = Stacks /\ Memory' = Memory
      <3>1. InMap' = InMap /\ Building' = Building
        BY <2>5 DEF InMap, Building
      <3>2. Unready' <=> Unready
        BY <2>5, <3>1 DEF Unready
      <3>3. Directories' = Directories /\ Stacks' = Stacks /\ Memory' = Memory
        BY <2>5, <3>1 DEF Stacks, Memory, Directories
      <3> QED BY <1>2, <3>1, <3>2, <3>3
    <2>8. /\ Directories \subseteq Frames /\ Directories \cap Tables = {}
      BY <1>1, Kinds DEF Partition
    <2>9. \A d \in Directories, va \in VPages : Translate(d, va)' = Translate(d, va)
      BY <1>1, <2>3, <2>4, <2>5, <2>8, TableAdded
    <2>10. /\ mem' \in Contents
           /\ mem'[d0][h0] = [p |-> TRUE, pa |-> f, w |-> TRUE, u |-> TRUE]
           /\ \A s \in Slots \ {h0} : mem'[d0][s] = mem[d0][s]
           /\ \A d \in Directories \ {d0} : mem'[d] = mem[d]
      <3> DEFINE e == [p |-> TRUE, pa |-> f, w |-> TRUE, u |-> TRUE]
                 m == [mem EXCEPT ![f] = Zeroed]
      <3>1. d0 \in Frames /\ d0 # f
        BY <2>3, <2>4, <2>8
      <3>2. e \in Entry
        BY <2>3, Sizes DEF Frames, Entry
      <3>3. m \in Contents /\ mem' = [m EXCEPT ![d0][h0] = e]
            /\ \A d \in Frames \ {f} : m[d] = mem[d]
        BY <2>3, <2>4, <2>5, Empty DEF Contents
      <3> HIDE DEF e, m
      <3>4. /\ mem' \in Contents /\ mem'[d0][h0] = e
            /\ \A s \in Slots \ {h0} : mem'[d0][s] = m[d0][s]
            /\ \A d \in Frames \ {d0} : mem'[d] = m[d]
        BY <2>4, <3>1, <3>2, <3>3 DEF Contents
      <3>5. \A d \in Directories \ {d0} : d \in Frames \ {d0} /\ d # f
        BY <2>3, <2>8
      <3> QED BY <3>1, <3>3, <3>4, <3>5 DEF e
    <2>11. Tables' = Tables \cup {f} /\ Pointers' /\ TabledOnce'
      BY <1>1, <2>3, <2>4, <2>7, <2>10, NewTable
    <2>12. Partition'
      BY <1>1, <2>3, <2>5, <2>6, <2>7, <2>11, Moved
    <2>13. Types'
      BY <1>1, <2>5, <2>6, <2>10 DEF Types
    <2>14. GivenOnce' /\ OnlyOutOfMemoryStops'
      BY <1>1, <1>2, <2>5 DEF GivenOnce, OnlyOutOfMemoryStops
    <2>15. Phases'
      BY <1>1, <1>2, <2>5, <2>7, SamePhases
    <2>16. Progress'
      <3>1. ASSUME NEW va \in VPages PROVE Translate(dir, va)' = Translate(dir, va)
        BY <2>2, <2>4, <2>5, <2>9, ByDirectory
      <3>2. pc' = "map" /\ map' = map /\ mapno' = mapno /\ procs' = procs
        BY <1>2, <2>5
      <3>3. CASE mapno = 0
        <4>1. /\ map = [va |-> 0, last |-> 0, pa |-> procs[Len(procs)].page,
                       w |-> TRUE, u |-> TRUE]
              /\ \A va \in VPages : Translate(dir, va) = Whole(va)
          BY <1>1, <1>2, <3>3 DEF Progress
        <4> QED BY <1>2, <3>1, <3>2, <3>3, <4>1 DEF Progress
      <3>4. CASE mapno # 0
        <4>1. /\ map.va \in First(mapno)..Last(mapno)
              /\ map.last = Last(mapno) /\ map.pa = Target(mapno, map.va)
              /\ map.w = k_maps[mapno].w /\ ~map.u
              /\ \A va \in VPages : Translate(dir, va) =
                    IF va < map.va THEN Whole(va) ELSE Absent
          BY <1>1, <1>2, <3>4 DEF Progress
        <4> QED BY <1>2, <3>1, <3>2, <3>4, <4>1 DEF Progress
      <3> QED BY <3>3, <3>4
    <2>17. Complete'
      BY <1>1, <2>1, <2>4, <2>5, <2>7, <2>9, KeptSpaces
    <2> QED BY <2>6, <2>11, <2>12, <2>13, <2>14, <2>15, <2>16, <2>17 DEF IInv
  <1> QED BY <1>3, <1>4, <1>5

(* The entry that is set is the one the address space needs.               *)
LEMMA MapPageStep == ASSUME IInv, MapPage PROVE IInv'
  <1>1. /\ Types /\ Partition /\ FreedOnce /\ TabledOnce /\ GivenOnce /\ Pointers
        /\ Phases /\ Progress /\ Complete /\ OnlyOutOfMemoryStops
    BY DEF IInv
  <1>2. halt = "" /\ pc = "map" /\ InMap /\ Pde.p
    BY DEF MapPage, At, InMap
  <1>3. PICK d0, a, t : d0 = dir /\ a = map.va /\ t = Pde.pa
    OBVIOUS
  <1>4. /\ d0 \in Directories /\ d0 # kpgdir /\ Building = {d0} /\ a \in VPages
        /\ mem \in Contents /\ map.va % N = Lo(a) /\ Hi(a) \in Slots /\ Lo(a) \in Slots
        /\ mem[d0][Hi(a)].p /\ t = mem[d0][Hi(a)].pa /\ Pde = mem[d0][Hi(a)]
    BY <1>2, <1>3, Working DEF Pde
  <1>5. t \in Frames /\ t \in Tables /\ Directories \subseteq Frames
        /\ Directories \cap Tables = {}
    BY <1>1, <1>4, Kinds DEF Pointers, Tables, Partition
  <1>6. Writable(t)
    <2>1. t \in kend..(ptr - 1)
      BY <1>1, <1>5 DEF Partition
    <2>2. kend <= t /\ (ptr <= N => t < N)
      <3>1. kend \in Nat /\ ptr \in Nat /\ N \in Nat
        BY <1>1, Kinds, Sizes
      <3> QED BY <2>1, <3>1
    <2>3. /\ cr3 = None => ptr <= N
          /\ cr3 # None => cr3 = kpgdir
      <3>1. N <= N
        BY Sizes
      <3> QED BY <1>1, <1>2, <3>1 DEF Phases
    <2> QED BY <1>1, <1>5, <2>2, <2>3, AllWritable
  <1>7. Translate(dir, a) = Absent
    <2>1. CASE mapno = 0
      <3>1. map.va = 0 /\ Translate(dir, a) = Whole(a)
        <4>1. /\ map = [va |-> 0, last |-> 0, pa |-> procs[Len(procs)].page,
                       w |-> TRUE, u |-> TRUE]
              /\ \A va \in VPages : Translate(dir, va) = Whole(va)
          BY <1>1, <1>2, <2>1 DEF Progress
        <4> QED BY <1>4, <4>1
      <3>2. 0 < KERNBASE
        BY Sizes
      <3> QED BY <1>3, <3>1, <3>2 DEF Whole
    <2>2. CASE mapno # 0
      <3>1. Translate(dir, a) = IF a < map.va THEN Whole(a) ELSE Absent
        BY <1>1, <1>2, <1>4, <2>2 DEF Progress
      <3>2. ~(a < map.va)
        BY <1>3, <1>4, Sizes DEF VPages
      <3> QED BY <3>1, <3>2
    <2> QED BY <2>1, <2>2
  <1>8. ~mem[t][Lo(a)].p
    <2>1. Translate(d0, a) = Joint(mem[d0][Hi(a)], mem[t][Lo(a)])
      BY <1>4, Lookup, Zenon
    <2>2. mem[t][Lo(a)] \in Entry
      BY <1>4, <1>5 DEF Contents
    <2>3. mem[t][Lo(a)].p => Joint(mem[d0][Hi(a)], mem[t][Lo(a)]).p
      BY <1>4, <1>5, <2>2 DEF Joint, Entry
    <2> QED BY <1>3, <1>7, <2>1, <2>3 DEF Absent
  <1>9. PICK e : e = [p |-> TRUE, pa |-> map.pa, w |-> map.w, u |-> map.u]
    OBVIOUS
  <1>10. /\ mem' = [mem EXCEPT ![t][Lo(a)] = e]
         /\ IF map.va = map.last
            THEN pc' = "mapped" /\ UNCHANGED map
            ELSE /\ map' = [map EXCEPT !.va = (@ + 1) % VSpace, !.pa = (@ + 1) % VSpace]
                 /\ UNCHANGED pc
         /\ UNCHANGED <<kend, freelist, cr3, kpgdir, procs, ptr, dir, mapno, halt>>
    BY <1>3, <1>4, <1>5, <1>6, <1>8, <1>9 DEF MapPage
  <1>11. map \in Maps /\ e \in Entry /\ e.p
    BY <1>1, <1>9 DEF Types, Maps, Entry, VPages
  <1>12. /\ Translate(d0, a)' = e
         /\ \A d \in Directories, va \in VPages :
               d # d0 \/ va # a => Translate(d, va)' = Translate(d, va)
         /\ \A d \in Directories : mem'[d] = mem[d]
    BY <1>1, <1>4, <1>5, <1>10, <1>11, EntrySet
  <1>13. /\ InMap' /\ Building' = Building /\ Directories' = Directories /\ Free' = Free
         /\ Stacks' = Stacks /\ Memory' = Memory
    <2>1. InMap' /\ Building' = Building
      BY <1>2, <1>10 DEF InMap, Building
    <2> QED BY <1>10, <2>1 DEF Directories, Free, Stacks, Memory
  <1>14. Tables' = Tables /\ Pointers' /\ TabledOnce'
    BY <1>1, <1>12, <1>13, SameTables
  <1>15. Partition' /\ FreedOnce' /\ GivenOnce' /\ OnlyOutOfMemoryStops'
    BY <1>1, <1>2, <1>10, <1>13, <1>14
    DEF Partition, FreedOnce, GivenOnce, OnlyOutOfMemoryStops
  <1>16. Phases'
    BY <1>1, <1>2, <1>10, <1>13, SamePhases
  <1>17. mem' \in Contents
    BY <1>4, <1>5, <1>10, <1>11 DEF Contents
  <1>18. Complete'
    <2>1. \A d \in Directories \ Building', va \in VPages : Translate(d, va)' = Translate(d, va)
      BY <1>4, <1>12, <1>13
    <2> QED BY <1>1, <1>4, <1>10, <1>13, <2>1, KeptSpaces
  <1>19. \A va \in VPages : Translate(dir, va)' = IF va = a THEN e ELSE Translate(dir, va)
    BY <1>3, <1>4, <1>10, <1>12, ByDirectory
  <1>20. CASE mapno = 0
    <2>1. PICK f : f = procs[Len(procs)].page
      OBVIOUS
    <2>2. /\ map = [va |-> 0, last |-> 0, pa |-> f, w |-> TRUE, u |-> TRUE]
          /\ \A va \in VPages : Translate(dir, va) = Whole(va)
      BY <1>1, <1>2, <1>20, <2>1 DEF Progress
    <2>3. /\ pc' = "mapped" /\ map' = map /\ procs' = procs /\ mapno' = 0 /\ a = 0
          /\ e = [p |-> TRUE, pa |-> f, w |-> TRUE, u |-> TRUE]
      BY <1>3, <1>9, <1>10, <1>20, <2>2
    <2>4. Progress'
      BY <1>19, <2>1, <2>2, <2>3 DEF Progress, Space
    <2>5. Types'
      BY <1>1, <1>10, <1>17, <2>3 DEF Types, Labels
    <2> QED BY <1>14, <1>15, <1>16, <1>18, <2>4, <2>5 DEF IInv
  <1>21. CASE mapno # 0
    <2>1. PICK k \in 1..4 : k = mapno
      BY <1>1, <1>21 DEF Types
    <2>2. /\ a \in First(k)..Last(k) /\ map.last = Last(k) /\ map.pa = Target(k, a)
          /\ map.w = k_maps[k].w /\ ~map.u
          /\ \A va \in VPages : Translate(dir, va) = IF va < a THEN Whole(va) ELSE Absent
      BY <1>1, <1>2, <1>3, <1>21, <2>1 DEF Progress
    <2>3. e = Whole(a)
      <3>1. map.u = FALSE
        BY <1>11, <2>2 DEF Maps
      <3> QED BY <1>9, <2>2, <3>1, Ranges
    <2>4. a \in Nat /\ \A va \in VPages : va \in Nat
      BY <1>4, Sizes DEF VPages
    <2>5. CASE map.va = map.last
      <3>1. pc' = "mapped" /\ map' = map /\ mapno' = k /\ k # 0 /\ map.va = a
        BY <1>3, <1>10, <2>1, <2>5
      <3>2. \A va \in VPages : Translate(dir, va)' =
               IF va < a \/ va = a THEN Whole(va) ELSE Absent
        BY <1>19, <2>2, <2>3, <2>4
      <3>3. Progress'
        BY <1>3, <2>2, <2>5, <3>1, <3>2 DEF Progress
      <3>4. Types'
        BY <1>1, <1>10, <1>17, <3>1 DEF Types, Labels
      <3> QED BY <1>14, <1>15, <1>16, <1>18, <3>3, <3>4 DEF IInv
    <2>6. CASE map.va # map.last
      <3>1. /\ pc' = "map" /\ mapno' = k /\ k # 0
            /\ map' = [map EXCEPT !.va = (@ + 1) % VSpace, !.pa = (@ + 1) % VSpace]
        <4>1. /\ map' = [map EXCEPT !.va = (@ + 1) % VSpace, !.pa = (@ + 1) % VSpace]
              /\ pc' = pc /\ mapno' = mapno
          BY <1>10, <2>6, Zenon
        <4>2. k # 0
          BY <1>21, <2>1
        <4> QED BY <1>2, <2>1, <4>1, <4>2
      <3>2. /\ (a + 1) % VSpace = a + 1 /\ (Target(k, a) + 1) % VSpace = Target(k, a + 1)
        BY <1>3, <2>2, <2>6, Ranges
      <3>3. /\ map'.va = a + 1 /\ map'.pa = Target(k, a + 1) /\ map'.last = Last(k)
            /\ map'.w = k_maps[k].w /\ map'.u = map.u
        BY <1>3, <1>11, <2>2, <3>1, <3>2 DEF Maps
      <3>4. a + 1 \in First(k)..Last(k)
        <4>1. First(k) \in Nat /\ Last(k) \in Nat
          BY Ranges, Sizes DEF VPages
        <4>2. a # Last(k)
          BY <1>3, <2>2, <2>6
        <4> QED BY <2>2, <2>4, <4>1, <4>2
      <3>5. map' \in Maps
        <4>1. a + 1 \in VPages /\ Target(k, a + 1) \in VPages
          BY <3>4, Ranges
        <4> QED BY <1>11, <3>1, <3>2, <3>3, <2>2, <1>3, <4>1 DEF Maps
      <3>6. \A va \in VPages : Translate(dir, va)' = IF va < a + 1 THEN Whole(va) ELSE Absent
        BY <1>19, <2>2, <2>3, <2>4
      <3>7. Progress'
        <4>1. pc' # "mapped" /\ ~map'.u
          BY <2>2, <3>1, <3>3
        <4> QED BY <3>1, <3>3, <3>4, <3>6, <4>1 DEF Progress
      <3>8. Types'
        BY <1>1, <1>10, <1>17, <3>1, <3>5 DEF Types, Labels
      <3> QED BY <1>14, <1>15, <1>16, <1>18, <3>7, <3>8 DEF IInv
    <2> QED BY <2>5, <2>6
  <1> QED BY <1>20, <1>21

(* What no step of the boot code but kalloc, kfree and the page tables     *)
(* changes.                                                                *)
LEMMA SameUses ==
    ASSUME IInv, UNCHANGED <<kend, freelist, mem, procs, ptr>>, Directories' = Directories
    PROVE  Partition' /\ FreedOnce' /\ TabledOnce' /\ GivenOnce' /\ Pointers'
  <1>1. Free' = Free /\ Stacks' = Stacks /\ Memory' = Memory
    BY DEF Free, Stacks, Memory
  <1>2. Partition /\ FreedOnce /\ TabledOnce /\ GivenOnce /\ Pointers
    BY DEF IInv
  <1>3. Tables' = Tables /\ Pointers' /\ TabledOnce'
    BY <1>2, SameTables
  <1> QED BY <1>1, <1>2, <1>3 DEF Partition, FreedOnce, GivenOnce

(* The next range begins above the last page that is mapped.               *)
LEMMA NextRangeStep == ASSUME IInv, NextRange PROVE IInv'
  <1>1. /\ Types /\ Phases /\ Progress /\ Complete /\ OnlyOutOfMemoryStops
    BY DEF IInv
  <1>2. /\ halt = "" /\ pc = "mapped" /\ InMap /\ pc' = "map"
        /\ UNCHANGED <<kend, freelist, mem, cr3, kpgdir, procs, ptr, dir, halt>>
    BY DEF NextRange, At, InMap
  <1>3. PICK k \in 1..3 : k = mapno
    BY DEF NextRange
  <1>4. k \in 1..4 /\ k + 1 \in 1..4 /\ k # 0 /\ k + 1 # 0 /\ k + 1 \in 0..4
    OBVIOUS
  <1>5. mapno' = k + 1 /\ map' = MapKernel(k + 1)
    BY <1>3 DEF NextRange
  <1>6. InMap' /\ Building' = Building /\ Directories' = Directories
    <2>1. InMap' /\ Building' = Building
      BY <1>2 DEF InMap, Building
    <2> QED BY <1>2, <2>1 DEF Directories
  <1>7. Partition' /\ FreedOnce' /\ TabledOnce' /\ GivenOnce' /\ Pointers'
    BY <1>2, <1>6, SameUses
  <1>8. /\ map' \in Maps /\ map'.va = First(k + 1) /\ map'.last = Last(k + 1)
        /\ map'.va \in First(k + 1)..Last(k + 1) /\ map'.pa = Target(k + 1, map'.va)
        /\ map'.w = k_maps[k + 1].w /\ ~map'.u
    BY <1>4, <1>5, Begins
  <1>9. Types'
    BY <1>1, <1>2, <1>4, <1>5, <1>8 DEF Types, Labels
  <1>10. Phases'
    BY <1>1, <1>2, <1>3, <1>4, <1>5, <1>6, SamePhases
  <1>11. \A d, va : Translate(d, va)' = Translate(d, va)
    BY <1>2, SameMemory
  <1>12. Progress'
    <2>1. /\ map.va = Last(k)
          /\ \A va \in VPages : Translate(dir, va) =
                IF va < Last(k) \/ va = Last(k) THEN Whole(va) ELSE Absent
      <3>1. map.va = map.last /\ map.last = Last(k)
        BY <1>1, <1>2, <1>3, <1>4 DEF Progress
      <3>2. \A va \in VPages : Translate(dir, va) =
                IF va < map.va \/ va = map.va THEN Whole(va) ELSE Absent
        BY <1>1, <1>2, <1>3, <1>4 DEF Progress
      <3> QED BY <3>1, <3>2
    <2>2. ASSUME NEW va \in VPages
          PROVE  Translate(dir, va)' = IF va < map'.va THEN Whole(va) ELSE Absent
      <3>1. va \in Nat /\ Last(k) \in Nat /\ First(k + 1) \in Nat
        BY <1>4, Ranges, Sizes DEF VPages
      <3>2. /\ Last(k) < First(k + 1)
            /\ Last(k) < va /\ va < First(k + 1) => Whole(va) = Absent
        BY Successive
      <3>3. Translate(dir, va)' = Translate(dir, va)
        BY <1>2, <1>11
      <3> QED BY <1>8, <2>1, <3>1, <3>2, <3>3
    <2>3. mapno' = k + 1 /\ mapno' # 0 /\ pc' # "mapped"
      BY <1>2, <1>4, <1>5
    <2> QED BY <1>8, <2>2, <2>3 DEF Progress
  <1>13. Complete'
    BY <1>1, <1>2, <1>6, <1>11, Working, KeptSpaces
  <1>14. OnlyOutOfMemoryStops'
    BY <1>2 DEF OnlyOutOfMemoryStops
  <1> QED BY <1>7, <1>9, <1>10, <1>12, <1>13, <1>14 DEF IInv

(* All four ranges are mapped.                                             *)
LEMMA FourthDone ==
    ASSUME IInv, pc = "mapped", mapno = 4
    PROVE  \A va \in VPages : Translate(dir, va) = Whole(va)
  <1>1. Progress
    BY DEF IInv
  <1>2. map.va = Last(4)
    BY <1>1 DEF Progress, InMap
  <1>3. \A va \in VPages : Translate(dir, va) =
           IF va < map.va \/ va = map.va THEN Whole(va) ELSE Absent
    BY <1>1 DEF Progress, InMap
  <1>4. \A va \in VPages : va < Last(4) \/ va = Last(4)
    <2>1. Last(4) = VSpace - 1
      BY Rows
    <2> QED BY <2>1, Sizes DEF VPages
  <1> QED BY <1>2, <1>3, <1>4

(* The kernel's table is complete when it is loaded.                       *)
LEMMA InitKvmStep == ASSUME IInv, InitKvm PROVE IInv'
  <1>1. /\ Types /\ Phases /\ OnlyOutOfMemoryStops
    BY DEF IInv
  <1>2. /\ halt = "" /\ pc = "mapped" /\ InMap /\ mapno = 4 /\ kpgdir = None
        /\ kpgdir' = dir /\ cr3' = dir /\ ptr' = N /\ pc' = "free"
        /\ UNCHANGED <<kend, freelist, mem, procs, dir, mapno, map, halt>>
    BY DEF InitKvm, At, InMap
  <1>3. /\ ptr = N /\ procs = <<>> /\ DOMAIN procs = {}
    <2>1. ptr = N /\ procs = <<>>
      BY <1>1, <1>2 DEF Phases
    <2> QED BY <2>1, Nothing
  <1>4. dir # None /\ dir \in Frames /\ Building = {dir}
    BY <1>2, Working
  <1>5. ~InMap' /\ ~Unready' /\ Building' = {} /\ DOMAIN procs' = {}
    BY <1>2, <1>3 DEF InMap, Unready, Building
  <1>6. Directories' = Directories
    BY <1>2, <1>3, <1>4, <1>5 DEF Directories
  <1>7. Partition' /\ FreedOnce' /\ TabledOnce' /\ GivenOnce' /\ Pointers'
    BY <1>2, <1>3, <1>6, SameUses
  <1>8. Types'
    BY <1>1, <1>2, <1>3, <1>4 DEF Types, Labels
  <1>9. Phases'
    <2>1. N <= ptr'
      <3>1. N <= N
        BY Sizes
      <3> QED BY <1>2, <3>1
    <2>2. kpgdir' # None /\ cr3' # None /\ cr3' = kpgdir' /\ procs' = <<>>
      BY <1>2, <1>3, <1>4
    <2> QED BY <1>5, <2>1, <2>2 DEF Phases
  <1>10. Complete'
    <2>1. ASSUME NEW va \in VPages PROVE Translate(kpgdir, va)' = Whole(va)
      <3>1. Translate(dir, va) = Whole(va)
        BY <1>2, FourthDone
      <3>2. Translate(kpgdir, va)' = Translate(dir, va)
        BY <1>2 DEF Translate
      <3> QED BY <3>1, <3>2
    <2> QED BY <1>5, <2>1 DEF Complete
  <1>11. Progress' /\ OnlyOutOfMemoryStops'
    BY <1>2, <1>5 DEF Progress, OnlyOutOfMemoryStops
  <1> QED BY <1>7, <1>8, <1>9, <1>10, <1>11 DEF IInv

(* The boot code starts the scheduler.                                     *)
LEMMA StartSchedulerStep == ASSUME IInv, StartScheduler PROVE IInv'
  <1>1. /\ Types /\ Phases /\ Complete /\ OnlyOutOfMemoryStops
    BY DEF IInv
  <1>2. /\ halt = "" /\ pc = "user" /\ pc' = "run"
        /\ UNCHANGED <<kend, freelist, mem, cr3, kpgdir, procs, ptr, dir, mapno, map, halt>>
    BY DEF StartScheduler, At
  <1>3. /\ ~InMap /\ ~Unready /\ ~InMap' /\ ~Unready' /\ Building = {} /\ Building' = {}
    BY <1>2 DEF InMap, Unready, Building
  <1>4. Directories' = Directories
    BY <1>2, <1>3 DEF Directories
  <1>5. Partition' /\ FreedOnce' /\ TabledOnce' /\ GivenOnce' /\ Pointers'
    BY <1>2, <1>4, SameUses
  <1>6. Types'
    BY <1>1, <1>2 DEF Types, Labels
  <1>7. Phases'
    <2>1. kpgdir # None
      BY <1>1, <1>2 DEF Phases
    <2> QED BY <1>1, <1>2, <1>3, <2>1 DEF Phases
  <1>8. Complete'
    <2>1. \A d, va : Translate(d, va)' = Translate(d, va)
      BY <1>2, SameMemory
    <2> QED BY <1>1, <1>2, <1>3, <2>1 DEF Complete
  <1>9. Progress' /\ OnlyOutOfMemoryStops'
    BY <1>2, <1>3 DEF Progress, OnlyOutOfMemoryStops
  <1> QED BY <1>5, <1>6, <1>7, <1>8, <1>9 DEF IInv

(* Another address space is loaded.                                        *)
LEMMA Loaded ==
    ASSUME IInv, pc = "run", cr3' \in Directories, cr3' # None,
           UNCHANGED <<kend, freelist, mem, kpgdir, procs, pc, ptr, dir, mapno, map, halt>>
    PROVE  IInv'
  <1>1. /\ Types /\ Phases /\ Complete /\ OnlyOutOfMemoryStops
    BY DEF IInv
  <1>2. /\ ~InMap /\ ~Unready /\ ~InMap' /\ ~Unready' /\ Building = {} /\ Building' = {}
    BY DEF InMap, Unready, Building
  <1>3. Directories' = Directories
    BY <1>2 DEF Directories
  <1>4. Partition' /\ FreedOnce' /\ TabledOnce' /\ GivenOnce' /\ Pointers'
    BY <1>3, SameUses
  <1>5. Types'
    <2>1. cr3' \in Frames
      BY <1>1, Kinds
    <2> QED BY <1>1, <2>1 DEF Types
  <1>6. Phases'
    <2>1. kpgdir # None
      BY <1>1 DEF Phases
    <2> QED BY <1>1, <1>2, <2>1 DEF Phases
  <1>7. Complete'
    <2>1. \A d, va : Translate(d, va)' = Translate(d, va)
      BY SameMemory
    <2> QED BY <1>1, <1>2, <2>1 DEF Complete
  <1>8. Progress' /\ OnlyOutOfMemoryStops'
    BY <1>1, <1>2 DEF Progress, OnlyOutOfMemoryStops
  <1> QED BY <1>4, <1>5, <1>6, <1>7, <1>8 DEF IInv

(* Every process has a directory when the scheduler runs.                  *)
LEMMA SwitchUvmStep == ASSUME IInv, SwitchUvm PROVE IInv'
  <1>1. pc = "run" /\ Types /\ Phases
    BY DEF SwitchUvm, At, IInv
  <1>2. PICK k \in 1..Latest :
           IF procs[k].pgdir = None THEN Stop("switch_uvm: no pgdir")
           ELSE /\ cr3' = procs[k].pgdir
                /\ UNCHANGED <<kend, freelist, mem, kpgdir, procs, pc, ptr, dir, mapno,
                               map, halt>>
    BY DEF SwitchUvm
  <1>3. k \in DOMAIN procs
    BY <1>1, Kinds DEF Latest
  <1>4. procs[k].pgdir # None
    BY <1>1, <1>3 DEF Phases, Unready, InMap
  <1>5. procs[k].pgdir \in Directories
    BY <1>3, <1>4 DEF Directories
  <1> QED BY <1>1, <1>2, <1>4, <1>5, Loaded

(* The kernel's table is loaded again.                                     *)
LEMMA SwitchKvmStep == ASSUME IInv, SwitchKvm PROVE IInv'
  <1>1. /\ pc = "run" /\ Phases /\ cr3' = kpgdir
        /\ UNCHANGED <<kend, freelist, mem, kpgdir, procs, pc, ptr, dir, mapno, map, halt>>
    BY DEF SwitchKvm, At, IInv
  <1>2. kpgdir # None
    BY <1>1 DEF Phases
  <1>3. kpgdir \in Directories
    BY <1>2 DEF Directories
  <1> QED BY <1>1, <1>2, <1>3, Loaded

(* A process with nothing but its kernel stack.                            *)
LEMMA InitUserStep == ASSUME IInv, InitUser PROVE IInv'
  <1>1. /\ Types /\ Partition /\ FreedOnce /\ TabledOnce /\ GivenOnce /\ Pointers
        /\ Phases /\ Complete /\ OnlyOutOfMemoryStops
    BY DEF IInv
  <1>2. halt = "" /\ pc = "user" /\ ~InMap /\ ~Unready /\ Building = {} /\ kpgdir # None
        /\ Latest < NINIT
    BY <1>1 DEF InitUser, At, InMap, Unready, Building, Phases
  <1>3. CASE KallocFails
    <2>1. freelist = <<>>
          /\ UNCHANGED <<kend, freelist, mem, cr3, kpgdir, procs, pc, ptr, dir, mapno, map>>
      BY <1>3 DEF InitUser, KallocFails, Stop
    <2> QED BY <2>1, Rests
  <1>4. CASE ~KallocFails
    <2>1. freelist # <<>>
      BY <1>4 DEF KallocFails
    <2>2. PICK f : f = NewPage
      OBVIOUS
    <2>3. f \in Frames /\ f \in Free /\ f \notin Stacks /\ Writable(f)
      BY <1>2, <2>1, <2>2, Handed
    <2>4. PICK q, n : q = [kstack |-> f, pgdir |-> None, page |-> None] /\ n = Len(procs)
      OBVIOUS
    <2>5. /\ freelist' = KallocRest /\ procs' = Append(procs, q) /\ pc' = "setup"
          /\ UNCHANGED <<kend, mem, cr3, kpgdir, ptr, dir, mapno, map, halt>>
      BY <1>4, <2>2, <2>3, <2>4 DEF InitUser
    <2>6. freelist' \in Seq(Frames) /\ FreedOnce' /\ Free' = Free \ {f}
      BY <1>1, <2>1, <2>2, <2>5, Taken
    <2>7. /\ n \in Nat /\ DOMAIN procs = 1..n /\ procs \in Seq(Proc) /\ n + 1 \notin 1..n
          /\ 1..(n + 1) = 1..n \cup {n + 1}
      <3>1. n \in Nat /\ DOMAIN procs = 1..n /\ procs \in Seq(Proc)
        BY <1>1, <2>4, Kinds DEF Types
      <3> QED BY <3>1
    <2>8. /\ procs' \in Seq(Proc) /\ Len(procs') = n + 1 /\ DOMAIN procs' = 1..(n + 1)
          /\ procs'[n + 1] = q /\ \A k \in 1..n : procs'[k] = procs[k]
      <3>1. q \in Proc
        BY <2>3, <2>4 DEF Proc
      <3> QED BY <2>4, <2>5, <2>7, <3>1
    <2>9. procs' # <<>>
      BY <2>7, <2>8
    <2>10. q.kstack = f /\ q.pgdir = None /\ q.page = None
      BY <2>4
    <2>11. Stacks' = Stacks \cup {f}
      <3>1. Stacks = {procs[k].kstack : k \in 1..n}
        BY <2>7 DEF Stacks
      <3>2. Stacks' = {procs'[k].kstack : k \in 1..n \cup {n + 1}}
        BY <2>7, <2>8 DEF Stacks
      <3> QED BY <2>8, <2>10, <3>1, <3>2
    <2>12. Memory' = Memory
      <3>1. Memory = {procs[k].page : k \in 1..n} \ {None}
        BY <2>7 DEF Memory
      <3>2. Memory' = {procs'[k].page : k \in 1..n \cup {n + 1}} \ {None}
        BY <2>7, <2>8 DEF Memory
      <3> QED BY <2>8, <2>10, <3>1, <3>2
    <2>13. ~InMap' /\ Unready' /\ Building' = {}
      BY <2>5 DEF InMap, Unready, Building
    <2>14. Directories' = Directories
      <3>1. Directories = ({kpgdir} \cup {procs[k].pgdir : k \in 1..n}) \ {None}
        BY <1>2, <2>7 DEF Directories
      <3>2. Directories' = ({kpgdir} \cup {procs'[k].pgdir : k \in 1..n \cup {n + 1}}) \ {None}
        BY <2>5, <2>7, <2>8, <2>13 DEF Directories
      <3> QED BY <2>8, <2>10, <3>1, <3>2
    <2>15. Tables' = Tables /\ Pointers' /\ TabledOnce'
      BY <1>1, <2>5, <2>14, SameTables
    <2>16. Partition'
      BY <1>1, <2>3, <2>5, <2>6, <2>11, <2>12, <2>14, <2>15, Moved
    <2>17. GivenOnce'
      <3>1. ASSUME NEW j \in 1..n PROVE procs[j].kstack # f
        BY <2>3, <2>7 DEF Stacks
      <3>2. ASSUME NEW j \in 1..n, NEW k \in 1..n
            PROVE  /\ procs'[j].kstack = procs'[k].kstack => j = k
                   /\ procs'[j].page = procs'[k].page /\ procs'[j].page # None => j = k
                   /\ procs'[j].pgdir = procs'[k].pgdir /\ procs'[j].pgdir # None => j = k
        BY <1>1, <2>7, <2>8 DEF GivenOnce
      <3>3. ASSUME NEW j \in 1..n
            PROVE  /\ procs'[j].kstack # procs'[n + 1].kstack
                   /\ procs'[n + 1].page = None /\ procs'[n + 1].pgdir = None
        BY <2>8, <2>10, <3>1
      <3>4. DOMAIN procs' = 1..n \cup {n + 1}
        BY <2>7, <2>8
      <3>5. ASSUME NEW j \in DOMAIN procs', NEW k \in DOMAIN procs'
            PROVE  /\ procs'[j].kstack = procs'[k].kstack => j = k
                   /\ procs'[j].page = procs'[k].page /\ procs'[j].page # None => j = k
                   /\ procs'[j].pgdir = procs'[k].pgdir /\ procs'[j].pgdir # None => j = k
        <4>1. CASE j \in 1..n /\ k \in 1..n
          BY <4>1, <3>2
        <4>2. CASE j \in 1..n /\ k = n + 1
          BY <4>2, <3>3
        <4>3. CASE j = n + 1 /\ k \in 1..n
          BY <4>3, <3>3, <2>8, <2>10
        <4>4. CASE j = n + 1 /\ k = n + 1
          BY <4>4
        <4> QED BY <3>4, <4>1, <4>2, <4>3, <4>4
      <3> QED BY <3>5 DEF GivenOnce
    <2>18. Types'
      <3>1. n + 1 <= NINIT
        <4>1. \A x, y \in Nat : x < y => x + 1 <= y
          OBVIOUS
        <4>2. n < NINIT /\ n \in Nat /\ NINIT \in Nat
          BY <1>2, <2>4, <2>7, Sizes DEF Latest
        <4> QED BY <4>1, <4>2
      <3>2. Len(procs') <= NINIT
        BY <2>8, <3>1
      <3> QED BY <1>1, <2>5, <2>6, <2>8, <3>2 DEF Types, Labels
    <2>19. Phases'
      <3>1. /\ N <= ptr /\ cr3 # None /\ cr3 = kpgdir
            /\ \A k \in 1..n : /\ procs[k].pgdir # None
                               /\ procs[k].page = None <=> procs[k].pgdir = None
                               /\ procs[k].pgdir # kpgdir
        <4>1. N <= ptr /\ cr3 # None /\ (pc # "run" => cr3 = kpgdir)
          BY <1>1, <1>2 DEF Phases
        <4>2. \A k \in DOMAIN procs :
                 /\ procs[k].pgdir = None <=> (Unready /\ k = Len(procs))
                 /\ procs[k].page = None <=> procs[k].pgdir = None
                 /\ procs[k].pgdir # kpgdir
          BY <1>1 DEF Phases
        <4>3. cr3 = kpgdir
          BY <1>2, <4>1
        <4>4. \A k \in DOMAIN procs : procs[k].pgdir # None /\ procs[k].pgdir # kpgdir
                                     /\ procs[k].page # None
          BY <1>2, <4>2
        <4> QED BY <2>7, <4>1, <4>3, <4>4
      <3>2. ASSUME NEW k \in DOMAIN procs'
            PROVE  /\ procs'[k].pgdir = None <=> k = Len(procs')
                   /\ procs'[k].page = None <=> procs'[k].pgdir = None
                   /\ procs'[k].pgdir # kpgdir
        <4>1. CASE k \in 1..n
          BY <2>7, <2>8, <3>1, <4>1
        <4>2. CASE k = n + 1
          BY <1>2, <2>8, <2>10, <4>2
        <4> QED BY <2>7, <2>8, <4>1, <4>2
      <3> QED BY <1>2, <2>5, <2>9, <2>13, <3>1, <3>2 DEF Phases
    <2>20. Complete'
      <3>1. \A d, va : Translate(d, va)' = Translate(d, va)
        BY <2>5, SameMemory
      <3>2. kpgdir' # None => \A va \in VPages : Translate(kpgdir, va)' = Whole(va)
        BY <1>1, <2>5, <3>1 DEF Complete
      <3>3. ASSUME NEW k \in DOMAIN procs', procs'[k].pgdir # None
            PROVE  \A va \in VPages :
                      Translate(procs[k].pgdir, va)' = Space(procs'[k].page, va)
        <4>1. k \in DOMAIN procs /\ procs'[k] = procs[k]
          BY <2>7, <2>8, <2>10, <3>3
        <4>2. \A va \in VPages :
                 Translate(procs[k].pgdir, va) = Space(procs[k].page, va)
          BY <1>1, <1>2, <2>1, <3>3, <4>1 DEF Complete
        <4> QED BY <3>1, <4>1, <4>2
      <3> QED BY <3>2, <3>3 DEF Complete
    <2>21. Progress' /\ OnlyOutOfMemoryStops'
      BY <1>2, <2>5, <2>13 DEF Progress, OnlyOutOfMemoryStops
    <2> QED BY <2>6, <2>15, <2>16, <2>17, <2>18, <2>19, <2>20, <2>21 DEF IInv
  <1> QED BY <1>3, <1>4

(* Its directory and its page; the page is not mapped yet.                 *)
LEMMA InitUvmStep == ASSUME IInv, InitUvm PROVE IInv'
  <1>1. /\ Types /\ Partition /\ FreedOnce /\ TabledOnce /\ GivenOnce /\ Pointers
        /\ Phases /\ Complete /\ OnlyOutOfMemoryStops
    BY DEF IInv
  <1>2. /\ halt = "" /\ pc = "mapped" /\ InMap /\ Unready /\ mapno = 4 /\ mapno # 0
        /\ kpgdir # None /\ procs # <<>>
    <2>1. halt = "" /\ pc = "mapped" /\ mapno = 4 /\ kpgdir # None
      BY DEF InitUvm, At
    <2>2. InMap /\ Unready /\ mapno # 0
      <3>1. mapno # 0
        <4>1. 4 # 0
          OBVIOUS
        <4> QED BY <2>1, <4>1, Zenon
      <3>2. InMap
        BY <2>1 DEF InMap
      <3> QED BY <3>1, <3>2 DEF Unready
    <2> QED BY <1>1, <2>1, <2>2 DEF Phases
  <1>3. CASE KallocFails
    <2>1. freelist = <<>>
          /\ UNCHANGED <<kend, freelist, mem, cr3, kpgdir, procs, pc, ptr, dir, mapno, map>>
      BY <1>3 DEF InitUvm, KallocFails, Stop
    <2> QED BY <2>1, Rests
  <1>4. CASE ~KallocFails
    <2>1. freelist # <<>>
      BY <1>4 DEF KallocFails
    <2>2. PICK f, d0, n : f = NewPage /\ d0 = dir /\ n = Latest
      OBVIOUS
    <2>3. /\ f \in Frames /\ f \in Free /\ f # None /\ f \notin Directories
          /\ f \notin Tables /\ f \notin Memory /\ Writable(f)
      BY <1>2, <2>1, <2>2, Handed
    <2>4. /\ d0 \in Directories /\ d0 # None /\ d0 # kpgdir /\ d0 \in Frames
          /\ Building = {d0} /\ mem \in Contents
          /\ \A k \in DOMAIN procs : procs[k].pgdir # d0
      BY <1>2, <2>2, Working
    <2>5. /\ freelist' = KallocRest /\ mem' = [mem EXCEPT ![f] = Zeroed]
          /\ procs' = [procs EXCEPT ![n].pgdir = d0, ![n].page = f]
          /\ mapno' = 0 /\ map' = MapCall(0, 1, f, TRUE, TRUE) /\ pc' = "map"
          /\ UNCHANGED <<kend, cr3, kpgdir, ptr, dir, halt>>
      BY <1>4, <2>2, <2>3 DEF InitUvm
    <2>6. freelist' \in Seq(Frames) /\ FreedOnce' /\ Free' = Free \ {f}
      BY <1>1, <2>1, <2>2, <2>5, Taken
    <2>7. /\ procs \in Seq(Proc) /\ n = Len(procs) /\ n \in Nat /\ DOMAIN procs = 1..n
          /\ n \in 1..n /\ procs[n] \in Proc
      <3>1. procs \in Seq(Proc) /\ n = Len(procs) /\ n \in Nat /\ DOMAIN procs = 1..n
        BY <1>1, <2>2, Kinds DEF Types, Latest
      <3>2. n # 0
        <4>1. \A s \in Seq(Proc) : Len(s) = 0 => s = <<>>
          OBVIOUS
        <4> QED BY <1>2, <3>1, <4>1
      <3> QED BY <3>1, <3>2
    <2>8. /\ procs' \in Seq(Proc) /\ Len(procs') = n /\ DOMAIN procs' = 1..n
          /\ procs'[n].kstack = procs[n].kstack /\ procs'[n].pgdir = d0 /\ procs'[n].page = f
          /\ \A k \in 1..n : k # n => procs'[k] = procs[k]
      <3> DEFINE q == [procs[n] EXCEPT !.pgdir = d0, !.page = f]
      <3>1. q \in Proc /\ q.kstack = procs[n].kstack /\ q.pgdir = d0 /\ q.page = f
        BY <2>3, <2>4, <2>7 DEF Proc
      <3>2. procs' = [procs EXCEPT ![n] = q]
        BY <2>5, <2>7
      <3> HIDE DEF q
      <3>3. /\ procs' \in Seq(Proc) /\ Len(procs') = n /\ DOMAIN procs' = 1..n
            /\ procs'[n] = q /\ \A k \in 1..n : k # n => procs'[k] = procs[k]
        BY <2>7, <3>1, <3>2
      <3> QED BY <3>1, <3>3
    <2>9. procs[n].pgdir = None /\ procs[n].page = None
      BY <1>1, <1>2, <2>7 DEF Phases
    <2>10. procs' # <<>> /\ \A k \in 1..n : procs'[k].kstack = procs[k].kstack
      BY <2>7, <2>8
    <2>11. Stacks' = Stacks
      BY <2>7, <2>8, <2>10 DEF Stacks
    <2>12. Memory' = Memory \cup {f}
      <3>1. Memory = {procs[k].page : k \in 1..n} \ {None}
        BY <2>7 DEF Memory
      <3>2. Memory' = {procs'[k].page : k \in 1..n} \ {None}
        BY <2>8 DEF Memory
      <3> QED BY <2>3, <2>7, <2>8, <2>9, <3>1, <3>2
    <2>13. InMap' /\ ~Unready' /\ Building' = {d0}
      BY <2>2, <2>5 DEF InMap, Unready, Building
    <2>14. Directories' = Directories
      <3>1. Directories = ({kpgdir} \cup {procs[k].pgdir : k \in 1..n} \cup {d0}) \ {None}
        BY <2>4, <2>7 DEF Directories
      <3>2. Directories' = ({kpgdir} \cup {procs'[k].pgdir : k \in 1..n} \cup {d0}) \ {None}
        BY <2>5, <2>8, <2>13 DEF Directories
      <3> QED BY <2>7, <2>8, <2>9, <3>1, <3>2
    <2>15. /\ mem' \in Contents /\ \A d \in Directories : mem'[d] = mem[d]
      BY <2>3, <2>4, <2>5, Cleared
    <2>16. \A d \in Directories, va \in VPages : Translate(d, va)' = Translate(d, va)
      BY <1>1, <2>3, <2>4, <2>5, Unread
    <2>17. Tables' = Tables /\ Pointers' /\ TabledOnce'
      BY <1>1, <2>14, <2>15, SameTables
    <2>18. Partition'
      BY <1>1, <2>3, <2>5, <2>6, <2>11, <2>12, <2>14, <2>17, Moved
    <2>19. GivenOnce'
      <3>1. ASSUME NEW j \in 1..n
            PROVE  procs[j].page # f /\ procs[j].pgdir # d0
        BY <2>3, <2>4, <2>7 DEF Memory
      <3>2. ASSUME NEW j \in 1..n, NEW k \in 1..n
            PROVE  /\ procs'[j].kstack = procs'[k].kstack => j = k
                   /\ procs'[j].page = procs'[k].page /\ procs'[j].page # None => j = k
                   /\ procs'[j].pgdir = procs'[k].pgdir /\ procs'[j].pgdir # None => j = k
        <4>1. procs'[j].kstack = procs'[k].kstack => j = k
          BY <1>1, <2>7, <2>10 DEF GivenOnce
        <4>2. CASE j # n /\ k # n
          BY <1>1, <2>7, <2>8, <4>1, <4>2 DEF GivenOnce
        <4>3. CASE j = n \/ k = n
          BY <2>8, <3>1, <4>1, <4>3
        <4> QED BY <4>2, <4>3
      <3> QED BY <2>8, <3>2 DEF GivenOnce
    <2>20. /\ map' = [va |-> 0, last |-> 0, pa |-> f, w |-> TRUE, u |-> TRUE]
           /\ map' \in Maps
      <3>1. (0 + 1 - 1) % VSpace = 0
        <4>1. 0 \in Nat /\ 0 < VSpace /\ 0 + 1 - 1 = 0
          BY Sizes
        <4> QED BY <4>1, NoCarry
      <3>2. map' = [va |-> 0, last |-> 0, pa |-> f, w |-> TRUE, u |-> TRUE]
        BY <2>5, <3>1 DEF MapCall
      <3>3. 0 \in VPages /\ f \in VPages
        BY <2>3, Sizes DEF VPages, Frames
      <3> QED BY <3>2, <3>3 DEF Maps
    <2>21. Types'
      <3>1. Len(procs') <= NINIT
        BY <1>1, <2>7, <2>8 DEF Types
      <3>2. mapno' \in 0..4 /\ pc' \in Labels
        BY <2>5 DEF Labels
      <3> QED BY <1>1, <2>5, <2>6, <2>8, <2>15, <2>20, <3>1, <3>2 DEF Types
    <2>22. Phases'
      <3>1. /\ N <= ptr /\ cr3 # None /\ cr3 = kpgdir
            /\ \A k \in 1..n : k # n =>
                  /\ procs[k].pgdir # None /\ procs[k].page # None
                  /\ procs[k].pgdir # kpgdir
        <4>1. N <= ptr /\ cr3 # None /\ (pc # "run" => cr3 = kpgdir)
          BY <1>1, <1>2 DEF Phases
        <4>2. \A k \in DOMAIN procs :
                 /\ procs[k].pgdir = None <=> (Unready /\ k = Len(procs))
                 /\ procs[k].page = None <=> procs[k].pgdir = None
                 /\ procs[k].pgdir # kpgdir
          BY <1>1 DEF Phases
        <4> QED BY <1>2, <2>7, <4>1, <4>2
      <3>2. ASSUME NEW k \in DOMAIN procs'
            PROVE  /\ procs'[k].pgdir # None /\ procs'[k].page # None
                   /\ procs'[k].pgdir # kpgdir
                   /\ procs'[k].pgdir = d0 <=> k = n
        <4>1. CASE k = n
          BY <2>3, <2>4, <2>8, <4>1
        <4>2. CASE k # n
          BY <2>4, <2>7, <2>8, <3>1, <4>2
        <4> QED BY <4>1, <4>2
      <3>3. pc' # "free" /\ pc' # "run" /\ dir' = d0 /\ mapno' = 0
        BY <2>2, <2>5
      <3> QED BY <1>2, <2>4, <2>5, <2>8, <2>10, <2>13, <3>1, <3>2, <3>3 DEF Phases
    <2>23. Progress'
      <3>1. ASSUME NEW va \in VPages PROVE Translate(dir, va)' = Whole(va)
        BY <1>2, <2>2, <2>4, <2>5, <2>16, FourthDone, ByDirectory
      <3>2. procs'[Len(procs')].page = f /\ mapno' = 0 /\ pc' = "map"
        BY <2>5, <2>8
      <3> QED BY <2>20, <3>1, <3>2 DEF Progress
    <2>24. Complete'
      <3>1. kpgdir' # None => \A va \in VPages : Translate(kpgdir, va)' = Whole(va)
        <4>1. kpgdir \in Directories
          BY <1>2 DEF Directories
        <4> QED BY <1>1, <2>5, <2>16, <4>1 DEF Complete
      <3>2. ASSUME NEW k \in DOMAIN procs', procs'[k].pgdir # None,
                   procs'[k].pgdir \notin Building'
            PROVE  \A va \in VPages :
                      Translate(procs[k].pgdir, va)' = Space(procs'[k].page, va)
        <4>1. k \in DOMAIN procs /\ procs'[k] = procs[k]
          BY <2>7, <2>8, <2>13, <3>2
        <4>2. \A va \in VPages :
                 Translate(procs[k].pgdir, va) = Space(procs[k].page, va)
          BY <1>1, <2>1, <2>4, <2>13, <3>2, <4>1 DEF Complete
        <4>3. procs[k].pgdir \in Directories
          BY <3>2, <4>1 DEF Directories
        <4> QED BY <2>16, <4>1, <4>2, <4>3
      <3> QED BY <3>1, <3>2 DEF Complete
    <2>25. OnlyOutOfMemoryStops'
      BY <1>2, <2>5 DEF OnlyOutOfMemoryStops
    <2> QED BY <2>6, <2>17, <2>18, <2>19, <2>21, <2>22, <2>23, <2>24, <2>25 DEF IInv
  <1> QED BY <1>3, <1>4

(* Every step keeps the invariant.                                         *)
LEMMA NextIInv == IInv /\ [Next]_vars => IInv'
  <1> SUFFICES ASSUME IInv, [Next]_vars PROVE IInv'
    OBVIOUS
  <1>1. CASE UNCHANGED vars
    BY <1>1, Rests DEF vars
  <1>2. CASE Halted
    BY <1>2, Rests DEF Halted, vars
  <1> QED
    BY <1>1, <1>2, FreePageStep, FreeRangeDoneStep, SetupKvmStep, WalkNewTableStep,
       MapPageStep, NextRangeStep, InitKvmStep, InitUserStep, InitUvmStep,
       InitUvmDoneStep, StartSchedulerStep, SwitchUvmStep, SwitchKvmStep, Zenon DEF Next

(* The invariant holds in every state of boot and of the scheduler.        *)
THEOREM Invariance == Spec => []IInv
  BY InitIInv, NextIInv, PTL DEF Spec

-----------------------------------------------------------------------------
(* The properties *)

(* All variables of kalloc.c and vm.c keep their types.                    *)
THEOREM TypeCorrect == Spec => []TypeOK
  <1>1. IInv => TypeOK
    BY DEF IInv, Types, TypeOK, VPages, Proc, Contents, Maps
  <1> QED BY <1>1, Invariance, PTL

(* A set without two elements.                                             *)
LEMMA AtMostOne ==
    ASSUME NEW A, \A x, y \in A : x = y
    PROVE  /\ A = {} => Cardinality(A) = 0
           /\ A # {} => Cardinality(A) = 1
  <1>1. A = {} => Cardinality(A) = 0
    BY FS_EmptySet
  <1>2. ASSUME A # {} PROVE Cardinality(A) = 1
    <2>1. PICK x \in A : A = {x}
      BY <1>2
    <2> QED BY <2>1, FS_Singleton
  <1> QED BY <1>1, <1>2

(* kalloc and kfree never give a page to two users and never lose one.     *)
THEOREM Ownership == Spec => []PagesOwnedOnce
  <1>1. IInv => PagesOwnedOnce
    <2> SUFFICES ASSUME IInv, NEW f \in Frames
                 PROVE  Uses(f) = IF f \in kend..(ptr - 1) THEN 1 ELSE 0
      BY DEF PagesOwnedOnce
    <2>1. /\ Types /\ Partition /\ FreedOnce /\ TabledOnce /\ GivenOnce
      BY DEF IInv
    <2>2. f # None
      BY <2>1, Kinds
    <2>3. PICK A, B, C, D, E :
             /\ A = {k \in DOMAIN freelist : freelist[k] = f}
             /\ B = {d \in Directories : d = f}
             /\ C = {e \in Directories \X Slots :
                       mem[e[1]][e[2]].p /\ mem[e[1]][e[2]].pa = f}
             /\ D = {k \in DOMAIN procs : procs[k].kstack = f}
             /\ E = {k \in DOMAIN procs : procs[k].page = f}
      OBVIOUS
    <2>4. Uses(f) = Cardinality(A) + Cardinality(B) + Cardinality(C)
                    + Cardinality(D) + Cardinality(E)
      BY <2>3 DEF Uses
    <2>5. (A # {} <=> f \in Free) /\ \A x, y \in A : x = y
      BY <2>1, <2>3 DEF Free, FreedOnce
    <2>6. (B # {} <=> f \in Directories) /\ \A x, y \in B : x = y
      BY <2>3
    <2>7. (C # {} <=> f \in Tables) /\ \A x, y \in C : x = y
      <3>1. ASSUME NEW x \in C
            PROVE  /\ x = <<x[1], x[2]>> /\ x[1] \in Directories /\ x[2] \in Slots
                   /\ mem[x[1]][x[2]].p /\ mem[x[1]][x[2]].pa = f
        BY <2>3
      <3>2. ASSUME NEW x \in C, NEW y \in C PROVE x = y
        <4>1. x[1] = y[1] /\ x[2] = y[2]
          BY <2>1, <3>1 DEF TabledOnce
        <4> QED BY <3>1, <4>1
      <3>3. ASSUME f \in Tables PROVE C # {}
        <4>1. PICK d \in Directories, s \in Slots : mem[d][s].p /\ mem[d][s].pa = f
          BY <3>3 DEF Tables
        <4>2. <<d, s>> \in C
          BY <2>3, <4>1
        <4> QED BY <4>2
      <3>4. ASSUME C # {} PROVE f \in Tables
        <4>1. PICK x : x \in C
          BY <3>4
        <4> QED BY <3>1, <4>1 DEF Tables
      <3> QED BY <3>2, <3>3, <3>4
    <2>8. (D # {} <=> f \in Stacks) /\ \A x, y \in D : x = y
      BY <2>1, <2>3 DEF Stacks, GivenOnce
    <2>9. (E # {} <=> f \in Memory) /\ \A x, y \in E : x = y
      BY <2>1, <2>2, <2>3 DEF Memory, GivenOnce
    <2>10. /\ Cardinality(A) = IF f \in Free THEN 1 ELSE 0
           /\ Cardinality(B) = IF f \in Directories THEN 1 ELSE 0
           /\ Cardinality(C) = IF f \in Tables THEN 1 ELSE 0
           /\ Cardinality(D) = IF f \in Stacks THEN 1 ELSE 0
           /\ Cardinality(E) = IF f \in Memory THEN 1 ELSE 0
      BY <2>5, <2>6, <2>7, <2>8, <2>9, AtMostOne
    <2>11. CASE f \in kend..(ptr - 1)
      <3>1. \/ /\ f \in Free /\ f \notin Directories /\ f \notin Tables
               /\ f \notin Stacks /\ f \notin Memory
            \/ /\ f \notin Free /\ f \in Directories /\ f \notin Tables
               /\ f \notin Stacks /\ f \notin Memory
            \/ /\ f \notin Free /\ f \notin Directories /\ f \in Tables
               /\ f \notin Stacks /\ f \notin Memory
            \/ /\ f \notin Free /\ f \notin Directories /\ f \notin Tables
               /\ f \in Stacks /\ f \notin Memory
            \/ /\ f \notin Free /\ f \notin Directories /\ f \notin Tables
               /\ f \notin Stacks /\ f \in Memory
        BY <2>1, <2>11 DEF Partition
      <3>2. Cardinality(A) + Cardinality(B) + Cardinality(C)
                    + Cardinality(D) + Cardinality(E) = 1
        BY <2>10, <3>1
      <3> QED BY <2>4, <2>11, <3>2
    <2>12. CASE f \notin kend..(ptr - 1)
      <3>1. /\ f \notin Free /\ f \notin Directories /\ f \notin Tables
            /\ f \notin Stacks /\ f \notin Memory
        BY <2>1, <2>12 DEF Partition
      <3>2. Cardinality(A) + Cardinality(B) + Cardinality(C)
                    + Cardinality(D) + Cardinality(E) = 0
        BY <2>10, <3>1
      <3> QED BY <2>4, <2>12, <3>2
    <2> QED BY <2>11, <2>12
  <1> QED BY <1>1, Invariance, PTL

(* setup_kvm builds the same kernel half in every address space.           *)
THEOREM KernelHalf == Spec => []KernelHalfExact
  <1>1. IInv => KernelHalfExact
    <2> SUFFICES ASSUME IInv, NEW d \in Directories \ Building, NEW va \in KERNBASE..(VSpace - 1)
                 PROVE  Translate(d, va) = KernelPage(va)
      BY DEF KernelHalfExact
    <2>1. Complete
      BY DEF IInv
    <2>2. va \in VPages /\ ~(va < KERNBASE) /\ va # 0
      BY Sizes DEF VPages
    <2>3. Whole(va) = KernelPage(va) /\ \A f : Space(f, va) = Whole(va)
      BY <2>2 DEF Whole, Space
    <2>4. CASE d = kpgdir
      <3>1. kpgdir # None
        BY <2>4 DEF Directories
      <3> QED BY <2>1, <2>2, <2>3, <2>4, <3>1 DEF Complete
    <2>5. CASE d # kpgdir
      <3>1. PICK k \in DOMAIN procs : d = procs[k].pgdir
        BY <2>5 DEF Directories
      <3>2. procs[k].pgdir # None /\ procs[k].pgdir \notin Building
        BY <3>1 DEF Directories
      <3> QED BY <2>1, <2>2, <2>3, <3>1, <3>2 DEF Complete
    <2> QED BY <2>4, <2>5
  <1> QED BY <1>1, Invariance, PTL

(* Every finished address space reaches its own page and nothing else; the *)
(* failure of init_uvm for lack of memory is confined to the last process. *)
THEOREM UserSpaces == Spec => []UserHalfExact
  <1>1. IInv => UserHalfExact
    <2> SUFFICES ASSUME IInv PROVE UserHalfExact
      OBVIOUS
    <2>1. Complete
      BY DEF IInv
    <2>2. ASSUME NEW va \in UserHalf
          PROVE  /\ va \in VPages /\ Whole(va) = Absent
                 /\ \A f : Space(f, va) =
                       IF va = 0 THEN [p |-> TRUE, pa |-> f, w |-> TRUE, u |-> TRUE]
                       ELSE Absent
      <3>1. va \in VPages /\ va < KERNBASE
        BY Sizes DEF VPages, UserHalf
      <3> QED BY <3>1 DEF Whole, Space
    <2>3. ASSUME kpgdir # None, NEW va \in UserHalf
          PROVE  Translate(kpgdir, va) = Absent
      BY <2>1, <2>2, <2>3 DEF Complete
    <2>4. ASSUME NEW k \in DOMAIN procs, procs[k].pgdir \notin Building \cup {None}
          PROVE  \/ \A va \in UserHalf : Translate(procs[k].pgdir, va) =
                       IF va = 0
                       THEN [p |-> TRUE, pa |-> procs[k].page, w |-> TRUE, u |-> TRUE]
                       ELSE Absent
                 \/ /\ k = Latest /\ freelist = <<>>
                    /\ \A va \in UserHalf : Translate(procs[k].pgdir, va) = Absent
      <3>1. CASE \A va \in VPages : Translate(procs[k].pgdir, va) = Space(procs[k].page, va)
        BY <2>2, <3>1
      <3>2. CASE /\ k = Len(procs) /\ freelist = <<>>
                 /\ \A va \in VPages : Translate(procs[k].pgdir, va) = Whole(va)
        BY <2>2, <3>2 DEF Latest
      <3> QED BY <2>1, <2>4, <3>1, <3>2 DEF Complete
    <2> QED BY <2>3, <2>4 DEF UserHalfExact
  <1> QED BY <1>1, Invariance, PTL

(* Boot never stops because a page cannot be written or is mapped twice.   *)
THEOREM Stops == Spec => []OnlyOutOfMemoryStops
  <1>1. IInv => OnlyOutOfMemoryStops
    BY DEF IInv
  <1> QED BY <1>1, Invariance, PTL
=============================================================================
