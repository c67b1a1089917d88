--------------------------------- MODULE Vm ---------------------------------
(***************************************************************************)
(* Physical pages and page tables: kernel/mm/kalloc.c and kernel/mm/vm.c   *)
(* in the order kernel_main uses them, from the boot page table through    *)
(* init_kvm to the address spaces of the processes and the switches among  *)
(* them.                                                                   *)
(*                                                                         *)
(* Addresses are counted in pages: all that reach this code are multiples  *)
(* of PGSIZE (kernel.ld aligns .data).  A page directory and a page table  *)
(* have N entries, so the virtual space has N * N pages and 32-bit         *)
(* arithmetic is arithmetic modulo N * N.  The boot page table maps the    *)
(* first N physical pages (one 4 MB entry).                                *)
(***************************************************************************)
EXTENDS Integers, Sequences, FiniteSets

CONSTANTS N, KERNBASE, EXTMEM, KDATA, PHYSTOP, DEVSPACE,
          KENDS,    \* where the kernel image may end
          NINIT     \* the most processes the boot code creates

ASSUME LayoutAssumption ==
    /\ {N, KERNBASE, EXTMEM, KDATA, PHYSTOP, DEVSPACE, NINIT} \subseteq Nat
    /\ 0 < EXTMEM /\ EXTMEM < KDATA /\ KDATA < N /\ N < PHYSTOP
    /\ KENDS \subseteq (KDATA + 1)..N
    /\ 0 < KERNBASE /\ KERNBASE % N = 0 /\ KERNBASE + PHYSTOP <= DEVSPACE
    /\ PHYSTOP < KERNBASE /\ DEVSPACE < N * N

Frames == 0..(PHYSTOP - 1)
Slots  == 0..(N - 1)
VSpace == N * N
P2V(a) == (a + KERNBASE) % VSpace
None   == -1        \* a null pointer; as cr3, the boot page table

VARIABLES
    kend,       \* first page after the kernel image
    freelist,   \* kmem.freelist
    mem,        \* the page tables in memory, page by page
    cr3,        \* page directory in use
    kpgdir,     \* kpgdir
    procs,      \* kstack, pgdir and user page of the processes of init_user
    pc,         \* what the boot code does next
    ptr,        \* local `p' of free_range
    dir,        \* local `pgdir' of setup_kvm
    mapno,      \* local `i' of setup_kvm; 0 in init_uvm
    map,        \* locals of map_pages
    halt        \* "" or why the machine stopped

vars == <<kend, freelist, mem, cr3, kpgdir, procs, pc, ptr, dir, mapno, map, halt>>

-----------------------------------------------------------------------------
(* Page table entries *)

Entry  == [p : BOOLEAN, pa : 0..(VSpace - 1), w : BOOLEAN, u : BOOLEAN]
Absent == [p |-> FALSE, pa |-> 0, w |-> FALSE, u |-> FALSE]
Zeroed == [s \in Slots |-> Absent]
(* kfree fills a page with 0xdeadbeef: read as an entry, it is present.    *)
(* (The first word is the link of the free list, read as an absent entry.) *)
Junk   == [s \in Slots |-> IF s = 0 THEN Absent ELSE
               [p |-> TRUE, pa |-> PHYSTOP, w |-> TRUE, u |-> TRUE]]

Translate(d, va) ==
    LET pde == mem[d][va \div N]
        pte == mem[pde.pa][va % N]
    IN IF ~pde.p \/ pde.pa \notin Frames \/ ~pte.p THEN Absent
       ELSE [pte EXCEPT !.w = @ /\ pde.w, !.u = @ /\ pde.u]

(* The kernel can write physical page f through P2V (CR0.WP is set). *)
Writable(f) ==
    IF cr3 = None THEN f < N
    ELSE LET e == Translate(cr3, P2V(f)) IN e.p /\ e.w /\ e.pa = f

Init ==
    /\ kend \in KENDS
    /\ freelist = <<>>
    /\ mem = [f \in Frames |-> Zeroed]
    /\ cr3 = None
    /\ kpgdir = None
    /\ procs = <<>>
    /\ pc = "free"
    /\ ptr = kend
    /\ dir = None
    /\ mapno = 0
    /\ map = [va |-> 0, last |-> 0, pa |-> 0, w |-> FALSE, u |-> FALSE]
    /\ halt = ""

Stop(why) ==
    /\ halt' = why
    /\ UNCHANGED <<kend, freelist, mem, cr3, kpgdir, procs, pc, ptr, dir, mapno, map>>

At(label) == halt = "" /\ pc = label

-----------------------------------------------------------------------------
(* kalloc.c *)

(* kalloc: the head of the list; 0 if it is empty. *)
KallocFails == freelist = <<>>
NewPage     == Head(freelist)

(* Seeded fault: kalloc does not advance the list. *)
NotAdvanced == freelist
KallocRest  == Tail(freelist)

(* vend of the two calls of init_physical_memory: 4 MB, then PHYSTOP. *)
VEnd == IF cr3 = None THEN N ELSE PHYSTOP

(* free_range: kfree the page at ptr. *)
FreePage ==
    /\ At("free")
    /\ ptr + 1 <= VEnd
    /\ IF ~Writable(ptr) THEN Stop("page fault")
       ELSE /\ mem' = [mem EXCEPT ![ptr] = Junk]
            /\ freelist' = <<ptr>> \o freelist
            /\ ptr' = ptr + 1
            /\ UNCHANGED <<kend, cr3, kpgdir, procs, pc, dir, mapno, map, halt>>

FreeRangeDone ==
    /\ At("free")
    /\ ptr + 1 > VEnd
    /\ pc' = IF cr3 = None THEN "setup" ELSE "user"
    /\ UNCHANGED <<kend, freelist, mem, cr3, kpgdir, procs, ptr, dir, mapno, map, halt>>

-----------------------------------------------------------------------------
(* setup_kvm and map_pages *)

(* Seeded fault: the kernel's text is mapped writable. *)
WritableText ==
    <<[va |-> KERNBASE,      from |-> 0,        to |-> EXTMEM,  w |-> TRUE],
      [va |-> P2V(EXTMEM),   from |-> EXTMEM,   to |-> KDATA,   w |-> TRUE],
      [va |-> P2V(KDATA),    from |-> KDATA,    to |-> PHYSTOP, w |-> TRUE],
      [va |-> DEVSPACE,      from |-> DEVSPACE, to |-> 0,       w |-> TRUE]>>

k_maps ==
    <<[va |-> KERNBASE,      from |-> 0,        to |-> EXTMEM,  w |-> TRUE],
      [va |-> P2V(EXTMEM),   from |-> EXTMEM,   to |-> KDATA,   w |-> FALSE],
      [va |-> P2V(KDATA),    from |-> KDATA,    to |-> PHYSTOP, w |-> TRUE],
      [va |-> DEVSPACE,      from |-> DEVSPACE, to |-> 0,       w |-> TRUE]>>

(* map_pages(pgdir, va, size, pa, perm): the loop runs from va to last.    *)
MapCall(va, size, pa, w, u) ==
    [va |-> va, last |-> (va + size - 1) % VSpace, pa |-> pa, w |-> w, u |-> u]
MapKernel(k) ==
    MapCall(k_maps[k].va, (k_maps[k].to - k_maps[k].from) % VSpace,
            k_maps[k].from, k_maps[k].w, FALSE)

(* setup_kvm takes a page for the directory.  init_kvm does not test its   *)
(* result and loads it into cr3.                                           *)
SetupKvm ==
    /\ At("setup")
    /\ IF KallocFails
       THEN Stop(IF kpgdir = None THEN "cr3 = V2P(0)" ELSE "userinit: out of memory?")
       ELSE IF ~Writable(NewPage) THEN Stop("page fault")
       ELSE /\ freelist' = KallocRest
            /\ mem' = [mem EXCEPT ![NewPage] = Zeroed]
            /\ dir' = NewPage
            /\ mapno' = 1
            /\ map' = MapKernel(1)
            /\ pc' = "map"
            /\ UNCHANGED <<kend, cr3, kpgdir, procs, ptr, halt>>

Pde == mem[dir][map.va \div N]

(* Seeded fault: walk_pgdir does not clear a new table. *)
WalkUncleared ==
    /\ At("map")
    /\ ~Pde.p
    /\ IF KallocFails
       THEN IF mapno = 0
            THEN /\ pc' = "user"
                 /\ UNCHANGED <<kend, freelist, mem, cr3, kpgdir, procs, ptr, dir,
                                mapno, map, halt>>
            ELSE Stop("setup_kvm: map_pages")
       ELSE IF ~Writable(NewPage) THEN Stop("page fault")
       ELSE /\ freelist' = KallocRest
            /\ mem' = [mem EXCEPT ![dir][map.va \div N] =
                          [p |-> TRUE, pa |-> NewPage, w |-> TRUE, u |-> TRUE]]
            /\ UNCHANGED <<kend, cr3, kpgdir, procs, pc, ptr, dir, mapno, map, halt>>

(* walk_pgdir finds no table for map.va and makes one.  If it cannot,      *)
(* setup_kvm panics, but init_uvm ignores the failure.                     *)
WalkNewTable ==
    /\ At("map")
    /\ ~Pde.p
    /\ IF KallocFails
       THEN IF mapno = 0
            THEN /\ pc' = "user"
                 /\ UNCHANGED <<kend, freelist, mem, cr3, kpgdir, procs, ptr, dir,
                                mapno, map, halt>>
            ELSE Stop("setup_kvm: map_pages")
       ELSE IF ~Writable(NewPage) THEN Stop("page fault")
       ELSE /\ freelist' = KallocRest
            /\ mem' = [mem EXCEPT ![NewPage] = Zeroed,
                                  ![dir][map.va \div N] =
                          [p |-> TRUE, pa |-> NewPage, w |-> TRUE, u |-> TRUE]]
            /\ UNCHANGED <<kend, cr3, kpgdir, procs, pc, ptr, dir, mapno, map, halt>>

(* One round of the loop: set the entry, stop after the last page. *)
MapPage ==
    /\ At("map")
    /\ Pde.p
    /\ IF Pde.pa \notin Frames \/ ~Writable(Pde.pa) THEN Stop("page fault")
       ELSE IF mem[Pde.pa][map.va % N].p THEN Stop("mapped twice")
       ELSE /\ mem' = [mem EXCEPT ![Pde.pa][map.va % N] =
                          [p |-> TRUE, pa |-> map.pa, w |-> map.w, u |-> map.u]]
            /\ IF map.va = map.last
               THEN pc' = "mapped" /\ UNCHANGED map
               ELSE /\ map' = [map EXCEPT !.va = (@ + 1) % VSpace,
                                          !.pa = (@ + 1) % VSpace]
                    /\ UNCHANGED pc
            /\ UNCHANGED <<kend, freelist, cr3, kpgdir, procs, ptr, dir, mapno, halt>>

(* The next of the four ranges. *)
NextRange ==
    /\ At("mapped")
    /\ mapno \in 1..3
    /\ mapno' = mapno + 1
    /\ map' = MapKernel(mapno + 1)
    /\ pc' = "map"
    /\ UNCHANGED <<kend, freelist, mem, cr3, kpgdir, procs, ptr, dir, halt>>

(* Seeded fault: the second range begins below 4 MB again. *)
InitKvmFreesAll ==
    /\ At("mapped")
    /\ mapno = 4
    /\ kpgdir = None
    /\ kpgdir' = dir
    /\ cr3' = dir
    /\ ptr' = EXTMEM
    /\ pc' = "free"
    /\ UNCHANGED <<kend, freelist, mem, procs, dir, mapno, map, halt>>

(* init_kvm switches to the new table; kernel_main frees the rest. *)
InitKvm ==
    /\ At("mapped")
    /\ mapno = 4
    /\ kpgdir = None
    /\ kpgdir' = dir
    /\ cr3' = dir
    /\ ptr' = N
    /\ pc' = "free"
    /\ UNCHANGED <<kend, freelist, mem, procs, dir, mapno, map, halt>>

-----------------------------------------------------------------------------
(* init_user *)

Latest == Len(procs)

(* config_proc_kstack.  Without a page alloc_process returns 0 and         *)
(* init_user writes through it.                                            *)
InitUser ==
    /\ At("user")
    /\ Latest < NINIT
    /\ IF KallocFails \/ ~Writable(NewPage) THEN Stop("page fault")
       ELSE /\ freelist' = KallocRest
            /\ procs' = Append(procs, [kstack |-> NewPage, pgdir |-> None, page |-> None])
            /\ pc' = "setup"
            /\ UNCHANGED <<kend, mem, cr3, kpgdir, ptr, dir, mapno, map, halt>>

(* Seeded fault: init_uvm maps its page at both ends of the user half. *)
UvmMapsMore ==
    /\ At("mapped")
    /\ mapno = 4
    /\ kpgdir # None
    /\ IF KallocFails \/ ~Writable(NewPage) THEN Stop("page fault")
       ELSE /\ freelist' = KallocRest
            /\ mem' = [mem EXCEPT ![NewPage] = Zeroed]
            /\ procs' = [procs EXCEPT ![Latest].pgdir = dir, ![Latest].page = NewPage]
            /\ mapno' = 0
            /\ map' = MapCall(0, 2, NewPage, TRUE, TRUE)
            /\ pc' = "map"
            /\ UNCHANGED <<kend, cr3, kpgdir, ptr, dir, halt>>

(* p->pgdir is set; init_uvm takes a page, untested, clears it and maps it *)
(* at 0 for the user.                                                      *)
InitUvm ==
    /\ At("mapped")
    /\ mapno = 4
    /\ kpgdir # None
    /\ IF KallocFails \/ ~Writable(NewPage) THEN Stop("page fault")
       ELSE /\ freelist' = KallocRest
            /\ mem' = [mem EXCEPT ![NewPage] = Zeroed]
            /\ procs' = [procs EXCEPT ![Latest].pgdir = dir, ![Latest].page = NewPage]
            /\ mapno' = 0
            /\ map' = MapCall(0, 1, NewPage, TRUE, TRUE)
            /\ pc' = "map"
            /\ UNCHANGED <<kend, cr3, kpgdir, ptr, dir, halt>>

(* init_uvm copies the code into the page (its content is not modelled).   *)
InitUvmDone ==
    /\ At("mapped")
    /\ mapno = 0
    /\ pc' = "user"
    /\ UNCHANGED <<kend, freelist, mem, cr3, kpgdir, procs, ptr, dir, mapno, map, halt>>

-----------------------------------------------------------------------------
(* The scheduler changes address spaces *)

StartScheduler ==
    /\ At("user")
    /\ Latest > 0
    /\ pc' = "run"
    /\ UNCHANGED <<kend, freelist, mem, cr3, kpgdir, procs, ptr, dir, mapno, map, halt>>

SwitchUvm ==
    /\ At("run")
    /\ cr3 = kpgdir
    /\ \E k \in 1..Latest :
        IF procs[k].pgdir = None THEN Stop("switch_uvm: no pgdir")
        ELSE /\ cr3' = procs[k].pgdir
             /\ UNCHANGED <<kend, freelist, mem, kpgdir, procs, pc, ptr, dir, mapno,
                            map, halt>>

SwitchKvm ==
    /\ At("run")
    /\ cr3 # kpgdir
    /\ cr3' = kpgdir
    /\ UNCHANGED <<kend, freelist, mem, kpgdir, procs, pc, ptr, dir, mapno, map, halt>>

Halted == halt # "" /\ UNCHANGED vars

Next ==
    \/ FreePage \/ FreeRangeDone
    \/ SetupKvm \/ WalkNewTable \/ MapPage \/ NextRange
    \/ InitKvm
    \/ InitUser \/ InitUvm \/ InitUvmDone
    \/ StartScheduler \/ SwitchUvm \/ SwitchKvm
    \/ Halted

Spec == Init /\ [][Next]_vars

-----------------------------------------------------------------------------
(* Properties *)

Labels == {"free", "setup", "map", "mapped", "user", "run"}

(* Types of the variables. *)
TypeOK ==
    /\ kend \in KENDS
    /\ freelist \in Seq(Frames)
    /\ mem \in [Frames -> [Slots -> Entry]]
    /\ {cr3, kpgdir, dir} \subseteq Frames \cup {None}
    /\ procs \in Seq([kstack : Frames, pgdir : Frames \cup {None},
                      page : Frames \cup {None}])
    /\ Len(procs) <= NINIT
    /\ pc \in Labels
    /\ ptr \in kend..PHYSTOP
    /\ mapno \in 0..4
    /\ map \in [va : 0..(VSpace - 1), last : 0..(VSpace - 1), pa : 0..(VSpace - 1),
                w : BOOLEAN, u : BOOLEAN]

Building == IF pc \in {"map", "mapped"} THEN {dir} ELSE {}
Directories == ({kpgdir} \cup {procs[k].pgdir : k \in DOMAIN procs} \cup Building) \ {None}

(* The number of uses of a page: a place in the free list, a directory, a  *)
(* table of some directory, a kernel stack, the memory of a process.       *)
Uses(f) ==
      Cardinality({k \in DOMAIN freelist : freelist[k] = f})
    + Cardinality({d \in Directories : d = f})
    + Cardinality({e \in Directories \X Slots :
                       mem[e[1]][e[2]].p /\ mem[e[1]][e[2]].pa = f})
    + Cardinality({k \in DOMAIN procs : procs[k].kstack = f})
    + Cardinality({k \in DOMAIN procs : procs[k].page = f})

(* Every page given to the allocator is in exactly one place, none is lost *)
(* and none is shared, also after a failure halfway; the kernel image and  *)
(* the pages not yet freed are in none.                                    *)
PagesOwnedOnce ==
    \A f \in Frames : Uses(f) = IF f \in kend..(ptr - 1) THEN 1 ELSE 0

(* What a complete address space maps in the kernel half: the first        *)
(* PHYSTOP pages at KERNBASE, the text read-only, and the device registers *)
(* at their own address; nothing of it is for the user.                    *)
KernelPage(va) ==
    IF va < P2V(0) + PHYSTOP
    THEN [p |-> TRUE, pa |-> va - KERNBASE,
          w |-> va - KERNBASE \notin EXTMEM..(KDATA - 1), u |-> FALSE]
    ELSE IF va >= DEVSPACE THEN [p |-> TRUE, pa |-> va, w |-> TRUE, u |-> FALSE]
    ELSE Absent

(* Whatever address space is loaded, the kernel finds the same memory at   *)
(* the same place: setup_kvm builds the four ranges exactly, over table    *)
(* boundaries and up to the last page of the 32-bit space, and nothing     *)
(* that is built later disturbs them.                                      *)
KernelHalfExact ==
    \A d \in Directories \ Building, va \in KERNBASE..(VSpace - 1) :
        Translate(d, va) = KernelPage(va)

UserHalf == 0..(KERNBASE - 1)

(* A finished address space reaches one page in the user half, the one     *)
(* taken for its process, at address 0.  init_uvm does not notice when     *)
(* memory runs out between that page and the table for it: then the        *)
(* process reaches nothing, but it is the last one created, the free list  *)
(* is empty, and every process before it is whole and stays so.  The       *)
(* kernel's own table has no user half.                                    *)
UserHalfExact ==
    /\ kpgdir # None => \A va \in UserHalf : Translate(kpgdir, va) = Absent
    /\ \A k \in DOMAIN procs : procs[k].pgdir \notin Building \cup {None} =>
        \/ \A va \in UserHalf : Translate(procs[k].pgdir, va) =
              IF va = 0 THEN [p |-> TRUE, pa |-> procs[k].page, w |-> TRUE, u |-> TRUE]
              ELSE Absent
        \/ /\ k = Latest /\ freelist = <<>>
           /\ \A va \in UserHalf : Translate(procs[k].pgdir, va) = Absent

(* Boot stops only for lack of memory: every page the allocator hands out  *)
(* can be written through the page table in use at that moment, and no     *)
(* address is mapped twice.                                                *)
OnlyOutOfMemoryStops == halt # "" => freelist = <<>>
=============================================================================
