--------------------------- MODULE ProcessProofs ---------------------------
(***************************************************************************)
(* For every number of process slots, locks and channels: with clients     *)
(* that keep the locking rules (~Wild), the invariant IInv of Process is   *)
(* inductive.  One lemma per action shows that the action preserves it;    *)
(* the safety properties follow.  The last two parts are about any         *)
(* clients: types, and what sched() guarantees by its own checks.          *)
(***************************************************************************)
EXTENDS Process, FiniteSetTheorems, TLAPS

(* The names of threads, page tables and locks are distinct. *)
LEMMA Names ==
    /\ Sched \in Threads /\ Irq \in Threads /\ Procs \subseteq Threads
    /\ Sched \notin Procs /\ Irq \notin Procs /\ Sched # Irq
    /\ NoProc \notin Procs /\ KPGDIR \notin Procs
    /\ Procs \subseteq Nat /\ Ptable \in Locks
    /\ NPROC \in Nat /\ 0 <= NPROC
  BY SizeAssumption DEF Sched, Irq, Threads, Procs, NoProc, KPGDIR, Locks

(* The scheduler's loop index names a slot while it is below NPROC. *)
LEMMA SlotIndex ==
    ASSUME NEW i \in Nat, i < NPROC
    PROVE  i \in Procs /\ i + 1 \in Nat /\ i + 1 <= NPROC
  BY SizeAssumption DEF Procs

(* Moving one thread leaves the others where they are. *)
LEMMA GotoMoves ==
    ASSUME TypeOK, NEW t \in Threads, NEW label, Goto(t, label)
    PROVE  /\ pc'[t] = label
           /\ \A u \in Threads : u # t => pc'[u] = pc[u]
           /\ cur \in Threads
  BY Names DEF TypeOK, Goto

-----------------------------------------------------------------------------
(* The CPU record and the count of held locks *)

(* cli, sti, pushcli and popcli keep the CPU state well formed. *)
LEMMA CpuType ==
    ASSUME NEW c \in CpuState
    PROVE  /\ PushCli(c) \in CpuState /\ PopCli(c) \in CpuState
           /\ Cli(c) \in CpuState /\ Cli(c).ncli = c.ncli /\ ~Cli(c).if
           /\ Sti(c) \in CpuState /\ Sti(c).ncli = c.ncli
           /\ Cli(c).intena = c.intena /\ Sti(c).intena = c.intena
  <1>1. PushCli(c) \in CpuState
    BY DEF PushCli, CpuState
  <1>2. PopCli(c) \in CpuState
    BY DEF PopCli, CpuState
  <1>3. Cli(c) \in CpuState /\ Cli(c).ncli = c.ncli /\ ~Cli(c).if
        /\ Cli(c).intena = c.intena
    BY DEF Cli, CpuState
  <1>4. Sti(c) \in CpuState /\ Sti(c).ncli = c.ncli /\ Sti(c).intena = c.intena
    BY DEF Sti, CpuState
  <1> QED BY <1>1, <1>2, <1>3, <1>4

(* So is the CPU state at boot. *)
LEMMA CpuInitType == CpuInit \in CpuState
  BY DEF CpuInit, CpuState

(* Only finitely many locks are taken. *)
LEMMA TakenFinite == IsFiniteSet(Taken) /\ Cardinality(Taken) \in Nat
  <1>1. IsFiniteSet(Locks)
    BY NameAssumption, FS_AddElement DEF Locks
  <1>2. Taken \subseteq Locks
    BY DEF Taken
  <1> QED BY <1>1, <1>2, FS_Subset, FS_CardinalityType

(* acquire of a free lock raises ncli with the number of taken locks. *)
LEMMA AcquireCounts ==
    ASSUME TypeOK, cpu.ncli = Cardinality(Taken),
           NEW l \in Locks, ~locked[l], Acquire(l)
    PROVE  cpu'.ncli = Cardinality(Taken')
  <1>1. Taken' = Taken \cup {l} /\ l \notin Taken
    BY DEF Taken, Acquire, TypeOK
  <1>2. Cardinality(Taken') = Cardinality(Taken) + 1
    BY <1>1, TakenFinite, FS_AddElement
  <1>3. cpu'.ncli = cpu.ncli + 1
    BY DEF Acquire, PushCli
  <1> QED BY <1>2, <1>3

(* release of a taken lock lowers both. *)
LEMMA ReleaseCounts ==
    ASSUME TypeOK, NEW c \in CpuState, c.ncli = Cardinality(Taken),
           NEW l \in Locks, locked[l], ReleaseFrom(l, c)
    PROVE  cpu'.ncli = Cardinality(Taken')
  <1>1. Taken' = Taken \ {l} /\ l \in Taken
    BY DEF Taken, ReleaseFrom, TypeOK
  <1>2. Cardinality(Taken') = Cardinality(Taken) - 1
    BY <1>1, TakenFinite, FS_RemoveElement
  <1>3. cpu'.ncli = c.ncli - 1
    BY DEF ReleaseFrom, PopCli, CpuState
  <1> QED BY <1>2, <1>3

(* release does not panic on a taken lock while interrupts are off. *)
LEMMA ReleaseOk ==
    ASSUME IInv, NEW l \in Locks, locked[l], ~cpu.if
    PROVE  ReleaseFault(l) = "" /\ cpu.ncli > 0
  <1>1. Taken # {} /\ cpu.ncli = Cardinality(Taken)
    BY DEF Taken, IInv, LocksAccounted
  <1>2. cpu.ncli > 0
    BY <1>1, TakenFinite, FS_EmptySet
  <1>3. cpu.ncli \in Nat
    BY <1>1, TakenFinite
  <1> QED BY <1>2, <1>3 DEF ReleaseFault, PopCliFault

(* sched() accepts a caller that holds ptable.lock and nothing else. *)
LEMMA SchedOk ==
    ASSUME IInv, ~cpu.if, \A l \in Locks : locked[l] <=> l = Ptable,
           NEW s, s # "RUNNING"
    PROVE  SchedFault(s, cpu) = "" /\ cpu.ncli > 0
  <1>1. Taken = {Ptable} /\ cpu.ncli = Cardinality(Taken)
    BY Names DEF Taken, IInv, LocksAccounted
  <1>2. cpu.ncli = 1
    BY <1>1, FS_Singleton
  <1> QED BY <1>2, Names DEF SchedFault

(* No lock taken: ncli is zero. *)
LEMMA NoneTaken ==
    ASSUME IInv, \A l \in Locks : ~locked[l]
    PROVE  cpu.ncli = 0 /\ ~(cpu.ncli > 0)
  <1>1. Taken = {} /\ cpu.ncli = Cardinality(Taken)
    BY DEF Taken, IInv, LocksAccounted
  <1> QED BY <1>1, FS_EmptySet

(* Inside a system call or a handler, acquire saves intena = FALSE ... *)
LEMMA AcquireWindow ==
    ASSUME IInv, ~cpu.if, pc[Irq] # "off" \/ InSyscall(cur),
           NEW l \in Locks, Acquire(l)
    PROVE  ~cpu'.if /\ ~cpu'.intena
  <1>1. cpu.ncli \in Nat
    BY TakenFinite DEF IInv, LocksAccounted
  <1>2. CASE cpu.ncli = 0
    BY <1>2 DEF Acquire, PushCli
  <1>3. CASE cpu.ncli > 0
    BY <1>3 DEF Acquire, PushCli, IInv, InterruptWindow
  <1> QED BY <1>1, <1>2, <1>3

(* ... so release leaves interrupts off. *)
LEMMA ReleaseWindow ==
    ASSUME NEW c \in CpuState, ~c.if, ~c.intena, NEW l \in Locks,
           ReleaseFrom(l, c)
    PROVE  ~cpu'.if /\ ~cpu'.intena
  BY DEF ReleaseFrom, PopCli

(* A thread at a label where interrupts may be on holds no lock. *)
LEMMA OpenHoldsNothing ==
    ASSUME IInv, Open(cur)
    PROVE  Holds(cur) = {}
  <1>1. CASE cur = Sched
    BY <1>1, Names DEF IInv, TypeOK, Open, OwnershipByLabel, OwnedAtLabel,
       Holds, PtableLabels,
       SchedLabels
  <1>2. CASE cur \in Procs
    BY <1>2, Names DEF IInv, TypeOK, Open, OwnershipByLabel, OwnedAtLabel,
       Holds, PtableLabels,
       ProcLabels
  <1> QED BY <1>1, <1>2 DEF IInv, TypeOK

-----------------------------------------------------------------------------
(* One lemma per action *)

(* The head of the loop opens the interrupt window. *)
LEMMA SchedStiStep ==
    ASSUME IInv, ~Wild, SchedSti
    PROVE  IInv'
  <1> USE Names DEF At, Running, Goto
  <1>0. TypeOK
    BY DEF IInv
  <1>1. cur = Sched /\ pc[Sched] = "sti" /\ pc[Irq] = "off" /\ halt = ""
    BY DEF SchedSti
  <1>2. cpu' = Sti(cpu) /\ Goto(Sched, "acquire")
        /\ UNCHANGED <<state, chan, cproc, cr3, esp0, locked, svint, cur, idx,
                       arg, slk, own, halt>>
    BY DEF SchedSti
  <1>3. TypeOK'
    BY <1>0, <1>1, <1>2, CpuType DEF IInv, TypeOK, ProcLabels, SchedLabels,
       IrqLabels, ProcState, Messages
  <1>4. LocksAccounted'
    <2>1. Taken' = Taken
      BY <1>2 DEF Taken
    <2> QED
      BY <1>0, <1>1, <1>2, <2>1, CpuType DEF IInv, TypeOK, LocksAccounted,
         OwnershipByLabel, OwnedAtLabel, Holds, PtableLabels
  <1>5. OwnershipByLabel'
    BY <1>0, <1>1, <1>2 DEF IInv, TypeOK, OwnershipByLabel, OwnedAtLabel
  <1>6. InterruptWindow'
    BY <1>0, <1>1, <1>2, CpuType DEF IInv, TypeOK, InterruptWindow, Open,
       InSyscall
  <1>7. Parked'
    BY <1>0, <1>1, <1>2 DEF IInv, TypeOK, Parked
  <1>8. Current'
    BY <1>0, <1>1, <1>2 DEF IInv, TypeOK, Current
  <1>9. SleepersHaveChannel'
    BY <1>0, <1>1, <1>2 DEF IInv, TypeOK, SleepersHaveChannel
  <1>10. NoPanic'
    BY <1>0, <1>1, <1>2 DEF IInv, TypeOK, NoPanic
  <1> QED BY <1>3, <1>4, <1>5, <1>6, <1>7, <1>8, <1>9, <1>10 DEF IInv

(* The scheduler finds ptable.lock free. *)
LEMMA SchedAcquireStep ==
    ASSUME IInv, ~Wild, SchedAcquire
    PROVE  IInv'
  <1> USE Names DEF At, Running, Goto
  <1>0. TypeOK
    BY DEF IInv
  <1>1. cur = Sched /\ pc[Sched] = "acquire" /\ pc[Irq] = "off" /\ halt = ""
        /\ ~locked[Ptable]
    BY DEF IInv, SchedAcquire, LocksAccounted, OwnershipByLabel, OwnedAtLabel,
       Holds, PtableLabels
  <1>2. Acquire(Ptable) /\ Goto(Sched, "scan") /\ idx' = 0
        /\ UNCHANGED <<state, chan, cproc, cr3, esp0, svint, cur, arg, slk, own, halt>>
    BY <1>1, Zenon DEF SchedAcquire, AcquireFault
  <1>3. TypeOK'
    BY <1>0, <1>1, <1>2, CpuType DEF IInv, TypeOK, ProcLabels, SchedLabels,
       IrqLabels, ProcState, Messages, Acquire
  <1>4. LocksAccounted'
    <2>1. cpu'.ncli = Cardinality(Taken')
      BY <1>0, <1>1, <1>2, AcquireCounts DEF IInv, LocksAccounted
    <2>2. Holds(cur) = {} /\ Holds(Irq) = {}
      BY <1>1 DEF IInv, OwnershipByLabel, Holds, PtableLabels
    <2>3. (Holds(cur))' = {Ptable} /\ (Holds(Irq))' = {}
      BY <1>0, <1>1, <1>2 DEF IInv, TypeOK, OwnershipByLabel, Holds, PtableLabels
    <2>4. locked' = [locked EXCEPT ![Ptable] = TRUE]
      BY <1>2 DEF Acquire
    <2> QED BY <1>0, <2>1, <2>2, <2>3, <2>4 DEF IInv, TypeOK, LocksAccounted
  <1>5. OwnershipByLabel'
    BY <1>0, <1>1, <1>2 DEF IInv, TypeOK, OwnershipByLabel, OwnedAtLabel
  <1>6. InterruptWindow'
    BY <1>0, <1>1, <1>2 DEF IInv, TypeOK, InterruptWindow, Open, InSyscall,
       Acquire, PushCli, CpuState
  <1>7. Parked'
    BY <1>0, <1>1, <1>2 DEF IInv, TypeOK, Parked
  <1>8. Current'
    <2>1. idx' <= NPROC
      BY <1>1, <1>2, SlotIndex
    <2>2. pc'[Sched] = "scan" /\ cur' = Sched /\ cr3' = KPGDIR /\ cproc' = NoProc
      BY <1>0, <1>1, <1>2 DEF IInv, TypeOK, Current
    <2> QED BY <2>1, <2>2 DEF Current
  <1>9. SleepersHaveChannel'
    BY <1>0, <1>1, <1>2 DEF IInv, TypeOK, SleepersHaveChannel
  <1>10. NoPanic'
    BY <1>0, <1>1, <1>2 DEF IInv, TypeOK, NoPanic
  <1> QED BY <1>3, <1>4, <1>5, <1>6, <1>7, <1>8, <1>9, <1>10 DEF IInv

(* A slot that is not RUNNABLE is passed over. *)
LEMMA SchedSkipStep ==
    ASSUME IInv, ~Wild, SchedSkip
    PROVE  IInv'
  <1> USE Names DEF At, Running, Goto
  <1>0. TypeOK
    BY DEF IInv
  <1>1. cur = Sched /\ pc[Sched] = "scan" /\ pc[Irq] = "off" /\ idx < NPROC /\ idx \in Nat
    BY DEF IInv, TypeOK, SchedSkip
  <1>2. idx' = idx + 1
        /\ UNCHANGED <<state, chan, cproc, cr3, esp0, locked, cpu, svint, cur, pc,
                       arg, slk, own, halt>>
    BY DEF SchedSkip
  <1>3. TypeOK'
    <2>1. idx' \in Nat
      BY <1>1, <1>2, SlotIndex
    <2> QED
      BY <1>0, <1>2, <2>1 DEF TypeOK
  <1>4. LocksAccounted'
    <2>1. Taken' = Taken
      BY <1>2 DEF Taken
    <2> QED
      BY <1>0, <1>1, <1>2, <2>1, CpuType DEF IInv, TypeOK, LocksAccounted,
         OwnershipByLabel, OwnedAtLabel, Holds, PtableLabels
  <1>5. OwnershipByLabel'
    BY <1>0, <1>1, <1>2 DEF IInv, TypeOK, OwnershipByLabel, OwnedAtLabel
  <1>6. InterruptWindow'
    BY <1>0, <1>1, <1>2 DEF IInv, TypeOK, InterruptWindow, Open, InSyscall
  <1>7. Parked'
    BY <1>0, <1>1, <1>2 DEF IInv, TypeOK, Parked
  <1>8. Current'
    BY <1>0, <1>1, <1>2 DEF IInv, TypeOK, Current
  <1>9. SleepersHaveChannel'
    BY <1>0, <1>1, <1>2 DEF IInv, TypeOK, SleepersHaveChannel
  <1>10. NoPanic'
    BY <1>0, <1>1, <1>2 DEF IInv, TypeOK, NoPanic
  <1> QED BY <1>3, <1>4, <1>5, <1>6, <1>7, <1>8, <1>9, <1>10 DEF IInv

(* The RUNNABLE process in the slot gets the CPU and ptable.lock with it. *)
LEMMA SchedSwitchStep ==
    ASSUME IInv, ~Wild, SchedSwitch
    PROVE  IInv'
  <1> USE Names DEF At, Running, Goto
  <1>0. TypeOK
    BY DEF IInv
  <1>1. cur = Sched /\ pc[Sched] = "scan" /\ pc[Irq] = "off" /\ halt = "" /\ idx \in Procs
        /\ state[idx] = "RUNNABLE" /\ pc[idx] \in {"fork_ret", "yielded", "slept"}
        /\ ~cpu.if /\ own[idx] \subseteq {Ptable} /\ idx < NPROC
    <2>1. cur = Sched /\ pc[Sched] = "scan" /\ pc[Irq] = "off" /\ halt = ""
          /\ idx < NPROC /\ idx \in Nat /\ state[idx] = "RUNNABLE"
      BY <1>0 DEF SchedSwitch, TypeOK
    <2>2. idx \in Procs
      BY <2>1, SlotIndex
    <2>3. pc[idx] \in {"fork_ret", "yielded", "slept"}
      BY <2>1, <2>2 DEF IInv, Parked
    <2>4. own[idx] \subseteq {Ptable}
      BY <2>2, <2>3 DEF IInv, OwnershipByLabel, OwnedAtLabel
    <2>5. ~cpu.if
      BY <2>1 DEF IInv, InterruptWindow, Open
    <2> QED BY <2>1, <2>2, <2>3, <2>4, <2>5
  <1>2. cproc' = idx /\ esp0' = idx /\ cr3' = idx /\ cur' = idx
        /\ state' = [state EXCEPT ![idx] = "RUNNING"] /\ Goto(Sched, "switched")
        /\ UNCHANGED <<chan, locked, cpu, svint, idx, arg, slk, own, halt>>
    BY DEF SchedSwitch
  <1>3. TypeOK'
    BY <1>0, <1>1, <1>2 DEF IInv, TypeOK, ProcLabels, SchedLabels, IrqLabels,
       ProcState, Messages
  <1>4. LocksAccounted'
    <2>1. Holds(cur) = {Ptable} /\ Holds(Irq) = {}
      BY <1>0, <1>1 DEF IInv, OwnershipByLabel, OwnedAtLabel, Holds,
         PtableLabels
    <2>2. (Holds(cur))' = {Ptable} /\ (Holds(Irq))' = {}
      BY <1>0, <1>1, <1>2 DEF IInv, TypeOK, OwnershipByLabel, OwnedAtLabel,
         Holds, PtableLabels
    <2>3. Taken' = Taken
      BY <1>2 DEF Taken
    <2> QED BY <1>2, <2>1, <2>2, <2>3 DEF IInv, LocksAccounted
  <1>5. OwnershipByLabel'
    BY <1>0, <1>1, <1>2 DEF IInv, TypeOK, OwnershipByLabel, OwnedAtLabel
  <1>6. InterruptWindow'
    BY <1>0, <1>1, <1>2 DEF IInv, TypeOK, InterruptWindow, Open, InSyscall
  <1>7. Parked'
    BY <1>0, <1>1, <1>2 DEF IInv, TypeOK, Parked
  <1>8. Current'
    BY <1>0, <1>1, <1>2 DEF IInv, TypeOK, Current
  <1>9. SleepersHaveChannel'
    BY <1>0, <1>1, <1>2 DEF IInv, TypeOK, SleepersHaveChannel
  <1>10. NoPanic'
    BY <1>0, <1>1, <1>2 DEF IInv, TypeOK, NoPanic
  <1> QED BY <1>3, <1>4, <1>5, <1>6, <1>7, <1>8, <1>9, <1>10 DEF IInv

(* Back on the boot stack, with the kernel page table. *)
LEMMA SchedBackStep ==
    ASSUME IInv, ~Wild, SchedBack
    PROVE  IInv'
  <1> USE Names DEF At, Running, Goto
  <1>0. TypeOK
    BY DEF IInv
  <1>1. cur = Sched /\ pc[Sched] = "switched" /\ pc[Irq] = "off" /\ halt = "" /\ ~cpu.if
        /\ idx < NPROC /\ idx \in Nat
    BY DEF IInv, TypeOK, SchedBack, Current, InterruptWindow, Open
  <1>2. cr3' = KPGDIR /\ cproc' = NoProc /\ idx' = idx + 1 /\ Goto(Sched, "scan")
        /\ UNCHANGED <<state, chan, esp0, locked, cpu, svint, cur, arg, slk, own, halt>>
    BY DEF SchedBack
  <1>3. TypeOK'
    <2>1. idx' \in Nat
      BY <1>1, <1>2, SlotIndex
    <2> QED
      BY <1>0, <1>1, <1>2, <2>1 DEF TypeOK, SchedLabels
  <1>4. LocksAccounted'
    <2>1. Holds(cur) = {Ptable} /\ Holds(Irq) = {}
      BY <1>0, <1>1 DEF IInv, OwnershipByLabel, OwnedAtLabel, Holds,
         PtableLabels
    <2>2. (Holds(cur))' = {Ptable} /\ (Holds(Irq))' = {}
      BY <1>0, <1>1, <1>2 DEF IInv, TypeOK, OwnershipByLabel, OwnedAtLabel,
         Holds, PtableLabels
    <2>3. Taken' = Taken
      BY <1>2 DEF Taken
    <2> QED BY <1>2, <2>1, <2>2, <2>3 DEF IInv, LocksAccounted
  <1>5. OwnershipByLabel'
    BY <1>0, <1>1, <1>2 DEF IInv, TypeOK, OwnershipByLabel, OwnedAtLabel
  <1>6. InterruptWindow'
    BY <1>0, <1>1, <1>2 DEF IInv, TypeOK, InterruptWindow, Open, InSyscall
  <1>7. Parked'
    BY <1>0, <1>1, <1>2 DEF IInv, TypeOK, Parked
  <1>8. Current'
    <2>1. idx' <= NPROC
      BY <1>1, <1>2, SlotIndex
    <2>2. pc'[Sched] = "scan" /\ cur' = Sched /\ cr3' = KPGDIR /\ cproc' = NoProc
      BY <1>0, <1>1, <1>2 DEF IInv, TypeOK, Current
    <2> QED BY <2>1, <2>2 DEF Current
  <1>9. SleepersHaveChannel'
    BY <1>0, <1>1, <1>2 DEF IInv, TypeOK, SleepersHaveChannel
  <1>10. NoPanic'
    BY <1>0, <1>1, <1>2 DEF IInv, TypeOK, NoPanic
  <1> QED BY <1>3, <1>4, <1>5, <1>6, <1>7, <1>8, <1>9, <1>10 DEF IInv

(* The end of a pass releases ptable.lock. *)
LEMMA SchedReleaseStep ==
    ASSUME IInv, ~Wild, SchedRelease
    PROVE  IInv'
  <1> USE Names DEF At, Running, Goto
  <1>0. TypeOK
    BY DEF IInv
  <1>1. cur = Sched /\ pc[Sched] = "scan" /\ pc[Irq] = "off" /\ halt = "" /\ ~cpu.if
        /\ locked[Ptable]
    BY DEF IInv, SchedRelease, InterruptWindow, Open, LocksAccounted, Holds,
       PtableLabels
  <1>2. ReleaseFrom(Ptable, cpu) /\ Goto(Sched, "sti") /\ idx' = 0
        /\ UNCHANGED <<state, chan, cproc, cr3, esp0, svint, cur, arg, slk, own, halt>>
    BY <1>1, ReleaseOk, Zenon DEF SchedRelease
  <1>3. TypeOK'
    BY <1>0, <1>1, <1>2, CpuType DEF IInv, TypeOK, ProcLabels, SchedLabels,
       IrqLabels, ProcState, Messages, ReleaseFrom
  <1>4. LocksAccounted'
    <2>1. cpu'.ncli = Cardinality(Taken')
      BY <1>0, <1>1, <1>2, ReleaseCounts DEF IInv, TypeOK, LocksAccounted
    <2>2. own[cur] = {} /\ own[Irq] = {}
      BY <1>0, <1>1 DEF IInv, OwnershipByLabel, OwnedAtLabel
    <2>3. Holds(cur) = {Ptable} /\ Holds(Irq) = {}
      BY <1>1, <2>2 DEF Holds, PtableLabels
    <2>4. pc'[cur] \notin PtableLabels /\ pc'[Irq] \notin PtableLabels
      <3>1. pc'[cur] = "sti" /\ pc'[Irq] = "off"
        BY <1>0, <1>1, <1>2 DEF TypeOK
      <3> QED BY <3>1 DEF PtableLabels
    <2>5. (Holds(cur))' = {} /\ (Holds(Irq))' = {}
      BY <1>2, <2>2, <2>4 DEF Holds
    <2>6. \A l \in Locks : ~locked'[l]
      BY <1>0, <1>2, <2>3 DEF IInv, TypeOK, LocksAccounted, ReleaseFrom
    <2> QED BY <2>1, <2>5, <2>6 DEF LocksAccounted
  <1>5. OwnershipByLabel'
    BY <1>0, <1>1, <1>2 DEF IInv, TypeOK, OwnershipByLabel, OwnedAtLabel
  <1>6. InterruptWindow'
    BY <1>0, <1>1, <1>2 DEF IInv, TypeOK, InterruptWindow, Open, InSyscall,
       ReleaseFrom, PopCli, CpuState
  <1>7. Parked'
    BY <1>0, <1>1, <1>2 DEF IInv, TypeOK, Parked
  <1>8. Current'
    BY <1>0, <1>1, <1>2 DEF IInv, TypeOK, Current
  <1>9. SleepersHaveChannel'
    BY <1>0, <1>1, <1>2 DEF IInv, TypeOK, SleepersHaveChannel
  <1>10. NoPanic'
    BY <1>0, <1>1, <1>2 DEF IInv, TypeOK, NoPanic
  <1> QED BY <1>3, <1>4, <1>5, <1>6, <1>7, <1>8, <1>9, <1>10 DEF IInv

(* A new process releases the lock the scheduler took. *)
LEMMA ForkRetStep ==
    ASSUME IInv, ~Wild, NEW p \in Procs, ForkRet(p)
    PROVE  IInv'
  <1> USE Names DEF At, Running, Goto
  <1>0. TypeOK
    BY DEF IInv
  <1>1. cur = p /\ pc[p] = "fork_ret" /\ pc[Irq] = "off" /\ halt = "" /\ ~cpu.if
        /\ locked[Ptable]
    BY DEF IInv, ForkRet, InterruptWindow, Open, LocksAccounted, Holds,
       PtableLabels
  <1>2. ReleaseFrom(Ptable, cpu) /\ Goto(p, "trap_ret")
        /\ UNCHANGED <<state, chan, cproc, cr3, esp0, svint, cur, idx, arg, slk, own,
                       halt>>
    BY <1>1, ReleaseOk, Zenon DEF ForkRet
  <1>3. TypeOK'
    BY <1>0, <1>1, <1>2, CpuType DEF IInv, TypeOK, ProcLabels, SchedLabels,
       IrqLabels, ProcState, Messages, ReleaseFrom
  <1>4. LocksAccounted'
    <2>1. cpu'.ncli = Cardinality(Taken')
      BY <1>0, <1>1, <1>2, ReleaseCounts DEF IInv, TypeOK, LocksAccounted
    <2>2. own[cur] = {} /\ own[Irq] = {}
      BY <1>0, <1>1 DEF IInv, OwnershipByLabel, OwnedAtLabel
    <2>3. Holds(cur) = {Ptable} /\ Holds(Irq) = {}
      BY <1>1, <2>2 DEF Holds, PtableLabels
    <2>4. pc'[cur] \notin PtableLabels /\ pc'[Irq] \notin PtableLabels
      <3>1. pc'[cur] = "trap_ret" /\ pc'[Irq] = "off"
        BY <1>0, <1>1, <1>2 DEF TypeOK
      <3> QED BY <3>1 DEF PtableLabels
    <2>5. (Holds(cur))' = {} /\ (Holds(Irq))' = {}
      BY <1>2, <2>2, <2>4 DEF Holds
    <2>6. \A l \in Locks : ~locked'[l]
      BY <1>0, <1>2, <2>3 DEF IInv, TypeOK, LocksAccounted, ReleaseFrom
    <2> QED BY <2>1, <2>5, <2>6 DEF LocksAccounted
  <1>5. OwnershipByLabel'
    BY <1>0, <1>1, <1>2 DEF IInv, TypeOK, OwnershipByLabel, OwnedAtLabel
  <1>6. InterruptWindow'
    BY <1>0, <1>1, <1>2 DEF IInv, TypeOK, InterruptWindow, Open, InSyscall,
       ReleaseFrom, PopCli, CpuState
  <1>7. Parked'
    BY <1>0, <1>1, <1>2 DEF IInv, TypeOK, Parked
  <1>8. Current'
    BY <1>0, <1>1, <1>2 DEF IInv, TypeOK, Current
  <1>9. SleepersHaveChannel'
    BY <1>0, <1>1, <1>2 DEF IInv, TypeOK, SleepersHaveChannel
  <1>10. NoPanic'
    BY <1>0, <1>1, <1>2 DEF IInv, TypeOK, NoPanic
  <1> QED BY <1>3, <1>4, <1>5, <1>6, <1>7, <1>8, <1>9, <1>10 DEF IInv

(* iret to user mode turns interrupts on; no lock is held. *)
LEMMA TrapRetStep ==
    ASSUME IInv, ~Wild, NEW p \in Procs, TrapRet(p)
    PROVE  IInv'
  <1> USE Names DEF At, Running, Goto
  <1>0. TypeOK
    BY DEF IInv
  <1>1. cur = p /\ pc[p] = "trap_ret" /\ pc[Irq] = "off" /\ halt = ""
    BY DEF TrapRet
  <1>2. cpu' = Sti(cpu) /\ Goto(p, "user")
        /\ UNCHANGED <<state, chan, cproc, cr3, esp0, locked, svint, cur, idx, arg,
                       slk, own, halt>>
    BY DEF TrapRet
  <1>3. TypeOK'
    BY <1>0, <1>1, <1>2, CpuType DEF IInv, TypeOK, ProcLabels, SchedLabels,
       IrqLabels, ProcState, Messages
  <1>4. LocksAccounted'
    <2>1. Taken' = Taken
      BY <1>2 DEF Taken
    <2> QED
      BY <1>0, <1>1, <1>2, <2>1, CpuType DEF IInv, TypeOK, LocksAccounted,
         OwnershipByLabel, OwnedAtLabel, Holds, PtableLabels
  <1>5. OwnershipByLabel'
    BY <1>0, <1>1, <1>2 DEF IInv, TypeOK, OwnershipByLabel, OwnedAtLabel
  <1>6. InterruptWindow'
    BY <1>0, <1>1, <1>2, CpuType DEF IInv, TypeOK, InterruptWindow, Open,
       InSyscall
  <1>7. Parked'
    BY <1>0, <1>1, <1>2 DEF IInv, TypeOK, Parked
  <1>8. Current'
    BY <1>0, <1>1, <1>2 DEF IInv, TypeOK, Current
  <1>9. SleepersHaveChannel'
    BY <1>0, <1>1, <1>2 DEF IInv, TypeOK, SleepersHaveChannel
  <1>10. NoPanic'
    BY <1>0, <1>1, <1>2 DEF IInv, TypeOK, NoPanic
  <1> QED BY <1>3, <1>4, <1>5, <1>6, <1>7, <1>8, <1>9, <1>10 DEF IInv

(* A system call starts with interrupts off and no lock. *)
LEMMA SyscallStep ==
    ASSUME IInv, ~Wild, NEW p \in Procs, Syscall(p)
    PROVE  IInv'
  <1> USE Names DEF At, Running, Goto
  <1>0. TypeOK
    BY DEF IInv
  <1>1. cur = p /\ pc[p] = "user" /\ pc[Irq] = "off" /\ halt = "" /\ ~(cpu.ncli > 0)
    <2>1. cur = p /\ pc[p] = "user" /\ pc[Irq] = "off" /\ halt = ""
      BY DEF Syscall
    <2>2. \A l \in Locks : ~locked[l]
      BY <2>1 DEF IInv, LocksAccounted, OwnershipByLabel, OwnedAtLabel, Holds,
         PtableLabels
    <2> QED BY <2>1, <2>2, NoneTaken
  <1>2. cpu' = Cli(cpu) /\ Goto(p, "kern")
        /\ UNCHANGED <<state, chan, cproc, cr3, esp0, locked, svint, cur, idx, arg,
                       slk, own, halt>>
    BY DEF Syscall
  <1>3. TypeOK'
    BY <1>0, <1>1, <1>2, CpuType DEF IInv, TypeOK, ProcLabels, SchedLabels,
       IrqLabels, ProcState, Messages
  <1>4. LocksAccounted'
    <2>1. Taken' = Taken
      BY <1>2 DEF Taken
    <2> QED
      BY <1>0, <1>1, <1>2, <2>1, CpuType DEF IInv, TypeOK, LocksAccounted,
         OwnershipByLabel, OwnedAtLabel, Holds, PtableLabels
  <1>5. OwnershipByLabel'
    BY <1>0, <1>1, <1>2 DEF IInv, TypeOK, OwnershipByLabel, OwnedAtLabel
  <1>6. InterruptWindow'
    <2>1. ~(cpu'.ncli > 0) /\ ~cpu'.if
      BY <1>0, <1>1, <1>2, CpuType DEF TypeOK
    <2> QED
      BY <1>0, <1>1, <1>2, <2>1 DEF IInv, TypeOK, InterruptWindow
  <1>7. Parked'
    BY <1>0, <1>1, <1>2 DEF IInv, TypeOK, Parked
  <1>8. Current'
    BY <1>0, <1>1, <1>2 DEF IInv, TypeOK, Current
  <1>9. SleepersHaveChannel'
    BY <1>0, <1>1, <1>2 DEF IInv, TypeOK, SleepersHaveChannel
  <1>10. NoPanic'
    BY <1>0, <1>1, <1>2 DEF IInv, TypeOK, NoPanic
  <1> QED BY <1>3, <1>4, <1>5, <1>6, <1>7, <1>8, <1>9, <1>10 DEF IInv

(* SYS_EXIT finds ptable.lock free and stops in sched(). *)
LEMMA SyscallExitStep ==
    ASSUME IInv, ~Wild, NEW p \in Procs, SyscallExit(p)
    PROVE  IInv'
  <1> USE Names DEF At, Running, Goto
  <1>0. TypeOK
    BY DEF IInv
  <1>1. cur = p /\ pc[p] = "user" /\ pc[Irq] = "off" /\ halt = "" /\ cproc = p /\ ~locked[Ptable]
    BY DEF IInv, SyscallExit, Current, LocksAccounted, OwnershipByLabel,
       OwnedAtLabel, Holds,
       PtableLabels
  <1>2. state' = [state EXCEPT ![p] = "ZOMBIE"] /\ cpu' = Cli(cpu)
        /\ halt' = "sched ptable.lock"
        /\ UNCHANGED <<chan, cproc, cr3, esp0, locked, svint, cur, pc, idx, arg, slk,
                       own>>
    BY <1>1 DEF SyscallExit, CallSched, SchedFault
  <1>3. TypeOK'
    <2>1. cpu' \in CpuState
      BY <1>0, <1>2, CpuType DEF TypeOK
    <2> QED
      BY <1>0, <1>1, <1>2, <2>1 DEF TypeOK, ProcState, Messages
  <1>4. LocksAccounted'
    <2>1. Taken' = Taken
      BY <1>2 DEF Taken
    <2> QED
      BY <1>0, <1>1, <1>2, <2>1, CpuType DEF IInv, TypeOK, LocksAccounted,
         OwnershipByLabel, OwnedAtLabel, Holds, PtableLabels
  <1>5. OwnershipByLabel'
    BY <1>0, <1>1, <1>2 DEF IInv, TypeOK, OwnershipByLabel, OwnedAtLabel
  <1>6. InterruptWindow'
    BY <1>0, <1>1, <1>2, CpuType DEF IInv, TypeOK, InterruptWindow, Open,
       InSyscall
  <1>7. Parked'
    BY <1>0, <1>1, <1>2 DEF IInv, TypeOK, Parked
  <1>8. Current'
    BY <1>0, <1>1, <1>2 DEF IInv, TypeOK, Current
  <1>9. SleepersHaveChannel'
    BY <1>0, <1>1, <1>2 DEF IInv, TypeOK, SleepersHaveChannel
  <1>10. NoPanic'
    BY <1>0, <1>1, <1>2 DEF IInv, TypeOK, NoPanic
  <1> QED BY <1>3, <1>4, <1>5, <1>6, <1>7, <1>8, <1>9, <1>10 DEF IInv

(* A system call returns with no lock. *)
LEMMA SyscallReturnStep ==
    ASSUME IInv, ~Wild, NEW p \in Procs, SyscallReturn(p)
    PROVE  IInv'
  <1> USE Names DEF At, Running, Goto
  <1>0. TypeOK
    BY DEF IInv
  <1>1. cur = p /\ pc[p] = "kern" /\ pc[Irq] = "off" /\ halt = "" /\ own[p] = {}
    BY DEF SyscallReturn
  <1>2. Goto(p, "trap_ret")
        /\ UNCHANGED <<state, chan, cproc, cr3, esp0, locked, cpu, svint, cur, idx,
                       arg, slk, own, halt>>
    BY DEF SyscallReturn
  <1>3. TypeOK'
    BY <1>0, <1>1, <1>2 DEF IInv, TypeOK, ProcLabels, SchedLabels, IrqLabels,
       ProcState, Messages
  <1>4. LocksAccounted'
    <2>1. Taken' = Taken
      BY <1>2 DEF Taken
    <2> QED
      BY <1>0, <1>1, <1>2, <2>1, CpuType DEF IInv, TypeOK, LocksAccounted,
         OwnershipByLabel, OwnedAtLabel, Holds, PtableLabels
  <1>5. OwnershipByLabel'
    BY <1>0, <1>1, <1>2 DEF IInv, TypeOK, OwnershipByLabel, OwnedAtLabel
  <1>6. InterruptWindow'
    BY <1>0, <1>1, <1>2 DEF IInv, TypeOK, InterruptWindow, Open, InSyscall
  <1>7. Parked'
    BY <1>0, <1>1, <1>2 DEF IInv, TypeOK, Parked
  <1>8. Current'
    BY <1>0, <1>1, <1>2 DEF IInv, TypeOK, Current
  <1>9. SleepersHaveChannel'
    BY <1>0, <1>1, <1>2 DEF IInv, TypeOK, SleepersHaveChannel
  <1>10. NoPanic'
    BY <1>0, <1>1, <1>2 DEF IInv, TypeOK, NoPanic
  <1> QED BY <1>3, <1>4, <1>5, <1>6, <1>7, <1>8, <1>9, <1>10 DEF IInv

(* Boot fills a slot; no lock is taken and no interrupt can come. *)
LEMMA InitUserStep ==
    ASSUME IInv, ~Wild, InitUser
    PROVE  IInv'
  <1> USE Names DEF At, Running, Goto
  <1>0. TypeOK
    BY DEF IInv
  <1>1. cur = Sched /\ pc[Sched] = "init_user" /\ pc[Irq] = "off" /\ halt = ""
        /\ ~locked[Ptable]
    BY DEF IInv, InitUser, LocksAccounted, OwnershipByLabel, OwnedAtLabel,
       Holds, PtableLabels
  <1>2. PICK q \in Procs :
        /\ state[q] = "UNUSED"
        /\ state' = [state EXCEPT ![q] = "RUNNABLE"] /\ Goto(q, "fork_ret")
        /\ locked' = [locked EXCEPT ![Ptable] = FALSE] /\ idx' = idx + 1
        /\ UNCHANGED <<chan, cproc, cr3, esp0, cpu, svint, cur, arg, slk, own, halt>>
    BY DEF InitUser
  <1>3. TypeOK'
    <2>1. idx' \in Nat
      BY <1>0, <1>2 DEF TypeOK
    <2> QED
      BY <1>0, <1>2, <2>1 DEF TypeOK, ProcState, ProcLabels
  <1>4. LocksAccounted'
    <2>1. locked' = locked
      BY <1>0, <1>1, <1>2 DEF TypeOK
    <2>2. Taken' = Taken
      BY <2>1 DEF Taken
    <2>3. (Holds(cur))' = Holds(cur) /\ (Holds(Irq))' = Holds(Irq)
      BY <1>0, <1>1, <1>2 DEF TypeOK, Holds, PtableLabels
    <2> QED BY <1>2, <2>1, <2>2, <2>3 DEF IInv, LocksAccounted
  <1>5. OwnershipByLabel'
    <2>1. pc[q] = "none" /\ own[q] = {}
      BY <1>1, <1>2 DEF IInv, Parked, SleepersHaveChannel, OwnershipByLabel,
         OwnedAtLabel
    <2> QED
      BY <1>0, <1>1, <1>2, <2>1 DEF IInv, TypeOK, OwnershipByLabel,
         OwnedAtLabel
  <1>6. InterruptWindow'
    BY <1>0, <1>1, <1>2 DEF IInv, TypeOK, InterruptWindow, Open, InSyscall
  <1>7. Parked'
    BY <1>0, <1>1, <1>2 DEF IInv, TypeOK, Parked
  <1>8. Current'
    BY <1>0, <1>1, <1>2 DEF IInv, TypeOK, Current
  <1>9. SleepersHaveChannel'
    <2>1. pc[q] # "slept"
      BY <1>1, <1>2 DEF IInv, Parked
    <2> QED
      BY <1>0, <1>1, <1>2, <2>1 DEF IInv, TypeOK, SleepersHaveChannel
  <1>10. NoPanic'
    BY <1>0, <1>1, <1>2 DEF IInv, TypeOK, NoPanic
  <1> QED BY <1>3, <1>4, <1>5, <1>6, <1>7, <1>8, <1>9, <1>10 DEF IInv

(* Boot stops for lack of a slot or of memory. *)
LEMMA InitUserFailsStep ==
    ASSUME IInv, ~Wild, InitUserFails
    PROVE  IInv'
  <1> USE Names DEF At, Running, Goto
  <1>0. TypeOK
    BY DEF IInv
  <1>1. cur = Sched /\ pc[Sched] = "init_user"
    BY DEF InitUserFails
  <1>2. halt' \in {"page fault", "userinit: out of memory?"}
        /\ UNCHANGED <<state, chan, cproc, cr3, esp0, locked, cpu, svint, cur, pc,
                       idx, arg, slk, own>>
    BY DEF InitUserFails, Panic
  <1>3. TypeOK'
    BY <1>0, <1>1, <1>2 DEF IInv, TypeOK, ProcLabels, SchedLabels, IrqLabels,
       ProcState, Messages
  <1>4. LocksAccounted'
    <2>1. Taken' = Taken
      BY <1>2 DEF Taken
    <2> QED
      BY <1>0, <1>1, <1>2, <2>1, CpuType DEF IInv, TypeOK, LocksAccounted,
         OwnershipByLabel, OwnedAtLabel, Holds, PtableLabels
  <1>5. OwnershipByLabel'
    BY <1>0, <1>1, <1>2 DEF IInv, TypeOK, OwnershipByLabel, OwnedAtLabel
  <1>6. InterruptWindow'
    BY <1>0, <1>1, <1>2 DEF IInv, TypeOK, InterruptWindow, Open, InSyscall
  <1>7. Parked'
    BY <1>0, <1>1, <1>2 DEF IInv, TypeOK, Parked
  <1>8. Current'
    BY <1>0, <1>1, <1>2 DEF IInv, TypeOK, Current
  <1>9. SleepersHaveChannel'
    BY <1>0, <1>1, <1>2 DEF IInv, TypeOK, SleepersHaveChannel
  <1>10. NoPanic'
    BY <1>0, <1>1, <1>2 DEF IInv, TypeOK, NoPanic
  <1> QED BY <1>3, <1>4, <1>5, <1>6, <1>7, <1>8, <1>9, <1>10 DEF IInv

(* The boot code enters the scheduler with interrupts on. *)
LEMMA StartSchedulerStep ==
    ASSUME IInv, ~Wild, StartScheduler
    PROVE  IInv'
  <1> USE Names DEF At, Running, Goto
  <1>0. TypeOK
    BY DEF IInv
  <1>1. cur = Sched /\ pc[Sched] = "init_user" /\ pc[Irq] = "off" /\ halt = ""
    BY DEF StartScheduler
  <1>2. cpu' = Sti(cpu) /\ cproc' = NoProc /\ idx' = 0 /\ Goto(Sched, "sti")
        /\ UNCHANGED <<state, chan, cr3, esp0, locked, svint, cur, arg, slk, own,
                       halt>>
    BY DEF StartScheduler
  <1>3. TypeOK'
    BY <1>0, <1>1, <1>2, CpuType DEF IInv, TypeOK, ProcLabels, SchedLabels,
       IrqLabels, ProcState, Messages
  <1>4. LocksAccounted'
    <2>1. Taken' = Taken
      BY <1>2 DEF Taken
    <2> QED
      BY <1>0, <1>1, <1>2, <2>1, CpuType DEF IInv, TypeOK, LocksAccounted,
         OwnershipByLabel, OwnedAtLabel, Holds, PtableLabels
  <1>5. OwnershipByLabel'
    BY <1>0, <1>1, <1>2 DEF IInv, TypeOK, OwnershipByLabel, OwnedAtLabel
  <1>6. InterruptWindow'
    BY <1>0, <1>1, <1>2, CpuType DEF IInv, TypeOK, InterruptWindow, Open,
       InSyscall
  <1>7. Parked'
    BY <1>0, <1>1, <1>2 DEF IInv, TypeOK, Parked
  <1>8. Current'
    BY <1>0, <1>1, <1>2 DEF IInv, TypeOK, Current
  <1>9. SleepersHaveChannel'
    BY <1>0, <1>1, <1>2 DEF IInv, TypeOK, SleepersHaveChannel
  <1>10. NoPanic'
    BY <1>0, <1>1, <1>2 DEF IInv, TypeOK, NoPanic
  <1> QED BY <1>3, <1>4, <1>5, <1>6, <1>7, <1>8, <1>9, <1>10 DEF IInv

(* A client finds every lock it may ask for free. *)
LEMMA ClientAcquireStep ==
    ASSUME IInv, ~Wild, NEW t \in Procs \cup {Irq},
           NEW l \in Locks, ClientAcquire(t, l)
    PROVE  IInv'
  <1> USE Names DEF At, Running, Goto
  <1>0. TypeOK
    BY DEF IInv
  <1>1. /\ pc[t] = "kern" /\ halt = "" /\ t \in Threads
        /\ \/ t \in Procs /\ cur = t /\ pc[Irq] = "off"
           \/ t = Irq /\ Open(cur)
        /\ ~cpu.if /\ ~locked[l] /\ (t = Irq => l # Ptable)
    
    <2>1. pc[t] = "kern" /\ halt = "" /\ t \in Threads
      BY DEF ClientAcquire
    <2>2. \/ t \in Procs /\ cur = t /\ pc[Irq] = "off"
          \/ t = Irq /\ Open(cur)BY DEF IInv, ClientAcquire, InterruptWindow
    <2>3. ~cpu.if
      BY <2>1, <2>2 DEF IInv, InterruptWindow, Open
    <2>4. l \notin own[t] /\ (t = Irq => l # Ptable /\ own[Irq] = {})
      BY DEF ClientAcquire
    <2>5. ~locked[l]
      <3>1. CASE t \in Procs
        BY <2>1, <2>2, <2>4, <3>1
           DEF IInv, LocksAccounted, OwnershipByLabel, OwnedAtLabel, Holds, PtableLabels
      <3>2. CASE t = Irq
        <4>1. Holds(cur) = {}
          BY <2>2, <3>2, OpenHoldsNothing
        <4> QED BY <2>1, <2>4, <3>2, <4>1 DEF IInv, LocksAccounted, Holds, PtableLabels
      <3> QED BY <3>1, <3>2
    <2> QED BY <2>1, <2>2, <2>3, <2>4, <2>5
  <1>2. Acquire(l) /\ own' = [own EXCEPT ![t] = @ \cup {l}]
        /\ UNCHANGED <<state, chan, cproc, cr3, esp0, svint, cur, pc, idx, arg, slk,
                       halt>>
    BY <1>1, Zenon DEF ClientAcquire, AcquireFault
  <1>3. TypeOK'
    BY <1>0, <1>1, <1>2, CpuType DEF IInv, TypeOK, ProcLabels, SchedLabels,
       IrqLabels, ProcState, Messages, Acquire
  <1>4. LocksAccounted'
    <2>1. cpu'.ncli = Cardinality(Taken')
      BY <1>0, <1>1, <1>2, AcquireCounts DEF IInv, TypeOK, LocksAccounted
    <2>2. CASE t \in Procs
      <3>1. Holds(Irq) = {} /\ (Holds(Irq))' = {}
        BY <1>0, <1>1, <1>2, <2>2 DEF IInv, TypeOK, OwnershipByLabel,
           OwnedAtLabel, Holds, PtableLabels
      <3>2. (Holds(cur))' = Holds(cur) \cup {l}
        BY <1>0, <1>1, <1>2, <2>2 DEF TypeOK, Holds, PtableLabels
      <3> QED BY <1>0, <1>2, <2>1, <3>1, <3>2
                 DEF IInv, TypeOK, LocksAccounted, Acquire, ReleaseFrom
    <2>3. CASE t = Irq
      <3>1. Holds(cur) = {}
        BY <1>1, <2>3, OpenHoldsNothing
      <3>2. (Holds(cur))' = {}
        <4>1. own'[cur] = own[cur] /\ pc'[cur] = pc[cur]
          BY <1>0, <1>2, <2>3 DEF TypeOK
        <4> QED BY <1>2, <3>1, <4>1 DEF Holds
      <3>3. (Holds(Irq))' = Holds(Irq) \cup {l}
        BY <1>0, <1>1, <1>2, <2>3 DEF TypeOK, Holds, PtableLabels
      <3> QED BY <1>0, <1>2, <2>1, <3>1, <3>2, <3>3
                 DEF IInv, TypeOK, LocksAccounted, Acquire, ReleaseFrom
    <2> QED BY <2>2, <2>3
  <1>5. OwnershipByLabel'
    BY <1>0, <1>1, <1>2 DEF IInv, TypeOK, OwnershipByLabel, OwnedAtLabel
  <1>6. InterruptWindow'
    <2>1. ~cpu'.if /\ ~cpu'.intena
      BY <1>1, <1>2, AcquireWindow DEF InSyscall
    <2> QED
      BY <1>0, <1>1, <1>2, <2>1 DEF IInv, TypeOK, InterruptWindow, Open
  <1>7. Parked'
    BY <1>0, <1>1, <1>2 DEF IInv, TypeOK, Parked
  <1>8. Current'
    BY <1>0, <1>1, <1>2 DEF IInv, TypeOK, Current
  <1>9. SleepersHaveChannel'
    BY <1>0, <1>1, <1>2 DEF IInv, TypeOK, SleepersHaveChannel
  <1>10. NoPanic'
    BY <1>0, <1>1, <1>2 DEF IInv, TypeOK, NoPanic
  <1> QED BY <1>3, <1>4, <1>5, <1>6, <1>7, <1>8, <1>9, <1>10 DEF IInv

(* A client gives back a lock it took. *)
LEMMA ClientReleaseStep ==
    ASSUME IInv, ~Wild, NEW t \in Procs \cup {Irq},
           NEW l \in Locks, ClientRelease(t, l)
    PROVE  IInv'
  <1> USE Names DEF At, Running, Goto
  <1>0. TypeOK
    BY DEF IInv
  <1>1. /\ pc[t] = "kern" /\ halt = "" /\ t \in Threads
        /\ \/ t \in Procs /\ cur = t /\ pc[Irq] = "off"
           \/ t = Irq /\ Open(cur)
        /\ ~cpu.if /\ ~cpu.intena /\ locked[l] /\ l \in own[t]
    
    <2>1. pc[t] = "kern" /\ halt = "" /\ t \in Threads
      BY DEF ClientRelease
    <2>2. \/ t \in Procs /\ cur = t /\ pc[Irq] = "off"
          \/ t = Irq /\ Open(cur)BY DEF IInv, ClientRelease, InterruptWindow
    <2>3. ~cpu.if
      BY <2>1, <2>2 DEF IInv, InterruptWindow, Open
    <2>4. l \in own[t]
      BY DEF ClientRelease
    <2>5. locked[l]
      BY <2>1, <2>2, <2>4 DEF IInv, LocksAccounted, Holds
    <2>6. ~cpu.intena
      BY <2>1, <2>2, <2>3, <2>5, ReleaseOk DEF IInv, InterruptWindow, InSyscall
    <2> QED BY <2>1, <2>2, <2>3, <2>4, <2>5, <2>6
  <1>2. ReleaseFrom(l, cpu) /\ own' = [own EXCEPT ![t] = @ \ {l}]
        /\ UNCHANGED <<state, chan, cproc, cr3, esp0, svint, cur, pc, idx, arg, slk,
                       halt>>
    BY <1>1, ReleaseOk, Zenon DEF ClientRelease
  <1>3. TypeOK'
    BY <1>0, <1>1, <1>2, CpuType DEF IInv, TypeOK, ProcLabels, SchedLabels,
       IrqLabels, ProcState, Messages, ReleaseFrom
  <1>4. LocksAccounted'
    <2>1. cpu'.ncli = Cardinality(Taken')
      BY <1>0, <1>1, <1>2, ReleaseCounts DEF IInv, TypeOK, LocksAccounted
    <2>2. CASE t \in Procs
      <3>1. Holds(Irq) = {} /\ (Holds(Irq))' = {}
        BY <1>0, <1>1, <1>2, <2>2 DEF IInv, TypeOK, OwnershipByLabel,
           OwnedAtLabel, Holds, PtableLabels
      <3>2. (Holds(cur))' = Holds(cur) \ {l}
        BY <1>0, <1>1, <1>2, <2>2 DEF TypeOK, Holds, PtableLabels
      <3> QED BY <1>0, <1>2, <2>1, <3>1, <3>2
                 DEF IInv, TypeOK, LocksAccounted, Acquire, ReleaseFrom
    <2>3. CASE t = Irq
      <3>1. Holds(cur) = {}
        BY <1>1, <2>3, OpenHoldsNothing
      <3>2. (Holds(cur))' = {}
        <4>1. own'[cur] = own[cur] /\ pc'[cur] = pc[cur]
          BY <1>0, <1>2, <2>3 DEF TypeOK
        <4> QED BY <1>2, <3>1, <4>1 DEF Holds
      <3>3. (Holds(Irq))' = Holds(Irq) \ {l}
        BY <1>0, <1>1, <1>2, <2>3 DEF TypeOK, Holds, PtableLabels
      <3> QED BY <1>0, <1>2, <2>1, <3>1, <3>2, <3>3
                 DEF IInv, TypeOK, LocksAccounted, Acquire, ReleaseFrom
    <2> QED BY <2>2, <2>3
  <1>5. OwnershipByLabel'
    BY <1>0, <1>1, <1>2 DEF IInv, TypeOK, OwnershipByLabel, OwnedAtLabel
  <1>6. InterruptWindow'
    <2>1. ~cpu'.if /\ ~cpu'.intena
      BY <1>0, <1>1, <1>2, ReleaseWindow DEF TypeOK
    <2> QED
      BY <1>0, <1>1, <1>2, <2>1 DEF IInv, TypeOK, InterruptWindow, Open
  <1>7. Parked'
    BY <1>0, <1>1, <1>2 DEF IInv, TypeOK, Parked
  <1>8. Current'
    BY <1>0, <1>1, <1>2 DEF IInv, TypeOK, Current
  <1>9. SleepersHaveChannel'
    BY <1>0, <1>1, <1>2 DEF IInv, TypeOK, SleepersHaveChannel
  <1>10. NoPanic'
    BY <1>0, <1>1, <1>2 DEF IInv, TypeOK, NoPanic
  <1> QED BY <1>3, <1>4, <1>5, <1>6, <1>7, <1>8, <1>9, <1>10 DEF IInv

(* yield takes ptable.lock as the only lock. *)
LEMMA YieldAcquireStep ==
    ASSUME IInv, ~Wild, NEW p \in Procs, YieldAcquire(p)
    PROVE  IInv'
  <1> USE Names DEF At, Running, Goto
  <1>0. TypeOK
    BY DEF IInv
  <1>1. cur = p /\ pc[p] = "kern" /\ pc[Irq] = "off" /\ halt = "" /\ own[p] = {}
        /\ ~locked[Ptable] /\ ~cpu.if
    BY DEF IInv, YieldAcquire, LocksAccounted, OwnershipByLabel, OwnedAtLabel,
       Holds, PtableLabels,
       InterruptWindow, Open
  <1>2. Acquire(Ptable) /\ Goto(p, "yield")
        /\ UNCHANGED <<state, chan, cproc, cr3, esp0, svint, cur, idx, arg, slk, own,
                       halt>>
    BY <1>1, Zenon DEF YieldAcquire, AcquireFault
  <1>3. TypeOK'
    BY <1>0, <1>1, <1>2, CpuType DEF IInv, TypeOK, ProcLabels, SchedLabels,
       IrqLabels, ProcState, Messages, Acquire
  <1>4. LocksAccounted'
    <2>1. cpu'.ncli = Cardinality(Taken')
      BY <1>0, <1>1, <1>2, AcquireCounts DEF IInv, LocksAccounted
    <2> QED
      BY <1>0, <1>1, <1>2, <2>1 DEF IInv, TypeOK, LocksAccounted,
         OwnershipByLabel, OwnedAtLabel,
         Acquire, Holds, PtableLabels
  <1>5. OwnershipByLabel'
    BY <1>0, <1>1, <1>2 DEF IInv, TypeOK, OwnershipByLabel, OwnedAtLabel
  <1>6. InterruptWindow'
    <2>1. ~cpu'.if /\ ~cpu'.intena
      BY <1>1, <1>2, AcquireWindow DEF InSyscall
    <2> QED
      BY <1>0, <1>1, <1>2, <2>1 DEF IInv, TypeOK, InterruptWindow, Open
  <1>7. Parked'
    BY <1>0, <1>1, <1>2 DEF IInv, TypeOK, Parked
  <1>8. Current'
    BY <1>0, <1>1, <1>2 DEF IInv, TypeOK, Current
  <1>9. SleepersHaveChannel'
    BY <1>0, <1>1, <1>2 DEF IInv, TypeOK, SleepersHaveChannel
  <1>10. NoPanic'
    BY <1>0, <1>1, <1>2 DEF IInv, TypeOK, NoPanic
  <1> QED BY <1>3, <1>4, <1>5, <1>6, <1>7, <1>8, <1>9, <1>10 DEF IInv

(* sched() accepts yield, and the scheduler gets ptable.lock. *)
LEMMA YieldSchedStep ==
    ASSUME IInv, ~Wild, NEW p \in Procs, YieldSched(p)
    PROVE  IInv'
  <1> USE Names DEF At, Running, Goto
  <1>0. TypeOK
    BY DEF IInv
  <1>1. cur = p /\ pc[p] = "yield" /\ pc[Irq] = "off" /\ halt = "" /\ cproc = p
        /\ pc[Sched] = "switched" /\ ~cpu.if /\ ~cpu.intena
        /\ own[p] \subseteq {Ptable} /\ own[Irq] = {} /\ own[Sched] = {}
        /\ \A l \in Locks : locked[l] <=> l = Ptable
    <2>1. cur = p /\ pc[p] = "yield" /\ pc[Irq] = "off" /\ halt = ""
      BY DEF YieldSched
    <2>2. cproc = p /\ pc[Sched] = "switched"
      BY <2>1 DEF IInv, Current
    <2>3. ~cpu.if
      BY <2>1 DEF IInv, InterruptWindow, Open
    <2>4. own[p] \subseteq {Ptable} /\ own[Irq] = {} /\ own[Sched] = {}
      BY <2>1 DEF IInv, OwnershipByLabel, OwnedAtLabel
    <2>5. \A l \in Locks : locked[l] <=> l = Ptable
      BY <2>1, <2>4 DEF IInv, LocksAccounted, Holds, PtableLabels
    <2>6. cpu.ncli > 0 /\ ~cpu.intena
      BY <2>1, <2>3, <2>5, SchedOk DEF IInv, InterruptWindow, InSyscall
    <2> QED BY <2>1, <2>2, <2>3, <2>4, <2>5, <2>6
  <1>2. state' = [state EXCEPT ![p] = "RUNNABLE"] /\ cur' = Sched
        /\ svint' = [svint EXCEPT ![p] = cpu.intena] /\ Goto(p, "yielded")
        /\ UNCHANGED <<chan, cproc, cr3, esp0, locked, cpu, idx, arg, slk, own, halt>>
    <2>1. SchedFault("RUNNABLE", cpu) = ""
      BY <1>1, SchedOk
    <2> QED BY <1>1, <2>1 DEF YieldSched, CallSched
  <1>3. TypeOK'
    BY <1>0, <1>1, <1>2 DEF IInv, TypeOK, ProcLabels, SchedLabels, IrqLabels,
       ProcState, Messages, CpuState
  <1>4. LocksAccounted'
    <2>1. (Holds(cur))' = {Ptable} /\ (Holds(Irq))' = {}
      BY <1>0, <1>1, <1>2 DEF TypeOK, Holds, PtableLabels
    <2>2. Taken' = Taken
      BY <1>2 DEF Taken
    <2> QED BY <1>1, <1>2, <2>1, <2>2 DEF IInv, LocksAccounted
  <1>5. OwnershipByLabel'
    BY <1>0, <1>1, <1>2 DEF IInv, TypeOK, OwnershipByLabel, OwnedAtLabel
  <1>6. InterruptWindow'
    BY <1>0, <1>1, <1>2 DEF IInv, TypeOK, InterruptWindow, Open, InSyscall
  <1>7. Parked'
    BY <1>0, <1>1, <1>2 DEF IInv, TypeOK, Parked
  <1>8. Current'
    BY <1>0, <1>1, <1>2 DEF IInv, TypeOK, Current
  <1>9. SleepersHaveChannel'
    BY <1>0, <1>1, <1>2 DEF IInv, TypeOK, SleepersHaveChannel
  <1>10. NoPanic'
    BY <1>0, <1>1, <1>2 DEF IInv, TypeOK, NoPanic
  <1> QED BY <1>3, <1>4, <1>5, <1>6, <1>7, <1>8, <1>9, <1>10 DEF IInv

(* yield goes on with its own intena and gives ptable.lock back. *)
LEMMA YieldReturnStep ==
    ASSUME IInv, ~Wild, NEW p \in Procs, YieldReturn(p)
    PROVE  IInv'
  <1> USE Names DEF At, Running, Goto
  <1>0. TypeOK
    BY DEF IInv
  <1>1. cur = p /\ pc[p] = "yielded" /\ pc[Irq] = "off" /\ halt = ""
        /\ ~cpu.if /\ locked[Ptable] /\ ~svint[p] /\ own[p] = {}
    BY DEF IInv, YieldReturn, InterruptWindow, Open, LocksAccounted,
       OwnershipByLabel, OwnedAtLabel,
       Holds, PtableLabels
  <1>2. ReleaseFrom(Ptable, Restored(p)) /\ ForgetSaved(p) /\ Goto(p, "kern")
        /\ UNCHANGED <<state, chan, cproc, cr3, esp0, cur, idx, arg, slk, own, halt>>
    BY <1>1, ReleaseOk DEF YieldReturn
  <1>11. /\ Restored(p) \in CpuState /\ Restored(p).ncli = cpu.ncli
         /\ ~Restored(p).if /\ ~Restored(p).intena
    BY <1>0, <1>1 DEF TypeOK, Restored, CpuState
  <1>3. TypeOK'
    BY <1>0, <1>1, <1>2, <1>11, CpuType DEF IInv, TypeOK, ProcLabels,
       SchedLabels, IrqLabels, ProcState, Messages, ReleaseFrom, ForgetSaved
  <1>4. LocksAccounted'
    <2>1. cpu'.ncli = Cardinality(Taken')
      BY <1>0, <1>1, <1>2, <1>11, ReleaseCounts DEF IInv, LocksAccounted
    <2>2. own[cur] = {} /\ own[Irq] = {}
      BY <1>0, <1>1 DEF IInv, OwnershipByLabel, OwnedAtLabel
    <2>3. Holds(cur) = {Ptable} /\ Holds(Irq) = {}
      BY <1>1, <2>2 DEF Holds, PtableLabels
    <2>4. pc'[cur] \notin PtableLabels /\ pc'[Irq] \notin PtableLabels
      <3>1. pc'[cur] = "kern" /\ pc'[Irq] = "off"
        BY <1>0, <1>1, <1>2 DEF TypeOK
      <3> QED BY <3>1 DEF PtableLabels
    <2>5. (Holds(cur))' = {} /\ (Holds(Irq))' = {}
      BY <1>2, <2>2, <2>4 DEF Holds
    <2>6. \A l \in Locks : ~locked'[l]
      BY <1>0, <1>2, <2>3 DEF IInv, TypeOK, LocksAccounted, ReleaseFrom
    <2> QED BY <2>1, <2>5, <2>6 DEF LocksAccounted
  <1>5. OwnershipByLabel'
    BY <1>0, <1>1, <1>2 DEF IInv, TypeOK, OwnershipByLabel, OwnedAtLabel
  <1>6. InterruptWindow'
    BY <1>0, <1>1, <1>2, <1>11 DEF IInv, TypeOK, InterruptWindow, Open,
       InSyscall, ReleaseFrom, PopCli, ForgetSaved, CpuState
  <1>7. Parked'
    BY <1>0, <1>1, <1>2 DEF IInv, TypeOK, Parked
  <1>8. Current'
    BY <1>0, <1>1, <1>2 DEF IInv, TypeOK, Current
  <1>9. SleepersHaveChannel'
    BY <1>0, <1>1, <1>2 DEF IInv, TypeOK, SleepersHaveChannel
  <1>10. NoPanic'
    BY <1>0, <1>1, <1>2 DEF IInv, TypeOK, NoPanic
  <1> QED BY <1>3, <1>4, <1>5, <1>6, <1>7, <1>8, <1>9, <1>10 DEF IInv

(* sleep is entered with lk as the only lock, and takes ptable.lock too. *)
LEMMA SleepEnterStep ==
    ASSUME IInv, ~Wild, NEW p \in Procs, NEW c \in Chans,
           NEW lk \in Locks, SleepEnter(p, c, lk)
    PROVE  IInv'
  <1> USE Names DEF At, Running, Goto
  <1>0. TypeOK
    BY DEF IInv
  <1>1. cur = p /\ pc[p] = "kern" /\ pc[Irq] = "off" /\ halt = "" /\ own[p] = {lk}
        /\ ~cpu.if /\ cproc # NoProc /\ (lk # Ptable => ~locked[Ptable])
    <2>1. cur = p /\ pc[p] = "kern" /\ pc[Irq] = "off" /\ halt = "" /\ own[p] = {lk}
      BY DEF SleepEnter
    <2>2. ~cpu.if /\ cproc # NoProc
      BY <2>1 DEF IInv, InterruptWindow, Open, Current
    <2>3. lk # Ptable => ~locked[Ptable]
      BY <2>1 DEF IInv, LocksAccounted, OwnershipByLabel, OwnedAtLabel, Holds,
         PtableLabels
    <2> QED BY <2>1, <2>2, <2>3
  <1>2. /\ arg' = [arg EXCEPT ![p] = c] /\ slk' = [slk EXCEPT ![p] = lk]
        /\ UNCHANGED <<state, chan, cproc, cr3, esp0, svint, cur, idx, own, halt>>
        /\ \/ lk = Ptable /\ Goto(p, "sleep_sched") /\ UNCHANGED <<locked, cpu>>
           \/ lk # Ptable /\ Acquire(Ptable) /\ Goto(p, "sleep_rel")
    BY <1>1 DEF SleepEnter, AcquireFault
  <1>3. TypeOK'
    <2>1. cpu' \in CpuState /\ locked' \in [Locks -> BOOLEAN]
      <3>1. CASE lk = Ptable
        BY <1>0, <1>2, <3>1 DEF TypeOK
      <3>2. CASE lk # Ptable
        <4>1. Acquire(Ptable)
          BY <1>2, <3>2
        <4> QED BY <1>0, <4>1, CpuType DEF TypeOK, Acquire
      <3> QED BY <3>1, <3>2
    <2>2. /\ pc' \in [Threads -> ProcLabels \cup SchedLabels \cup IrqLabels]
          /\ pc'[Sched] = pc[Sched] /\ pc'[Irq] = pc[Irq]
          /\ \A q \in Procs : pc'[q] \in ProcLabels
      BY <1>0, <1>2 DEF TypeOK, ProcLabels
    <2> QED BY <1>0, <1>2, <2>1, <2>2 DEF TypeOK
  <1>4. LocksAccounted'
    <2>1. CASE lk = Ptable
      <3>1. Taken' = Taken
        BY <1>2, <2>1 DEF Taken
      <3>2. (Holds(cur))' = Holds(cur) /\ (Holds(Irq))' = Holds(Irq)
        BY <1>0, <1>1, <1>2, <2>1 DEF TypeOK, Holds, PtableLabels
      <3> QED BY <1>2, <2>1, <3>1, <3>2 DEF IInv, LocksAccounted
    <2>2. CASE lk # Ptable
      <3>1. cpu'.ncli = Cardinality(Taken')
        BY <1>0, <1>1, <1>2, <2>2, AcquireCounts DEF IInv, LocksAccounted
      <3>2. (Holds(cur))' = Holds(cur) \cup {Ptable} /\ (Holds(Irq))' = Holds(Irq)
        BY <1>0, <1>1, <1>2, <2>2 DEF TypeOK, Holds, PtableLabels
      <3> QED BY <1>0, <1>2, <2>2, <3>1, <3>2
                 DEF IInv, TypeOK, LocksAccounted, Acquire
    <2> QED BY <2>1, <2>2
  <1>5. OwnershipByLabel'
    <2>1. /\ pc'[p] = IF lk = Ptable THEN "sleep_sched" ELSE "sleep_rel"
          /\ own' = own /\ slk'[p] = lk /\ pc'[Irq] = pc[Irq]
      BY <1>0, <1>2 DEF TypeOK
    <2>2. \A q \in Procs : q # p => pc'[q] = pc[q] /\ slk'[q] = slk[q]
      BY <1>0, <1>2 DEF TypeOK
    <2>3. lk = Ptable => own[p] = {Ptable} \cap {lk}
      BY <1>1
    <2>4. OwnedAtLabel(p)'
      BY <1>1, <2>1, <2>3 DEF OwnedAtLabel
    <2>5. \A q \in Procs : q # p => OwnedAtLabel(q)'
      BY <2>1, <2>2 DEF IInv, OwnershipByLabel, OwnedAtLabel
    <2> QED BY <1>1, <2>1, <2>4, <2>5 DEF IInv, OwnershipByLabel
  <1>6. InterruptWindow'
    <2>1. CASE lk = Ptable
      BY <1>0, <1>1, <1>2, <2>1 DEF IInv, TypeOK, InterruptWindow, Open,
         InSyscall
    <2>2. CASE lk # Ptable
      <3>1. ~cpu'.if /\ ~cpu'.intena
        BY <1>1, <1>2, <2>2, AcquireWindow DEF InSyscall
      <3> QED
        BY <1>0, <1>1, <1>2, <3>1 DEF IInv, TypeOK, InterruptWindow, Open
    <2> QED BY <2>1, <2>2
  <1>7. Parked'
    BY <1>0, <1>1, <1>2 DEF IInv, TypeOK, Parked
  <1>8. Current'
    BY <1>0, <1>1, <1>2 DEF IInv, TypeOK, Current
  <1>9. SleepersHaveChannel'
    BY <1>0, <1>1, <1>2 DEF IInv, TypeOK, SleepersHaveChannel
  <1>10. NoPanic'
    BY <1>0, <1>1, <1>2 DEF IInv, TypeOK, NoPanic
  <1> QED BY <1>3, <1>4, <1>5, <1>6, <1>7, <1>8, <1>9, <1>10 DEF IInv

(* sleep gives up the lock of its caller. *)
LEMMA SleepReleaseStep ==
    ASSUME IInv, ~Wild, NEW p \in Procs, SleepRelease(p)
    PROVE  IInv'
  <1> USE Names DEF At, Running, Goto
  <1>0. TypeOK
    BY DEF IInv
  <1>1. cur = p /\ pc[p] = "sleep_rel" /\ pc[Irq] = "off" /\ halt = "" /\ own[p] = {slk[p]}
        /\ slk[p] # Ptable /\ slk[p] \in Locks /\ locked[slk[p]] /\ ~cpu.if /\ ~cpu.intena
    <2>1. cur = p /\ pc[p] = "sleep_rel" /\ pc[Irq] = "off" /\ halt = ""
      BY DEF SleepRelease
    <2>2. own[p] = {slk[p]} /\ slk[p] # Ptable /\ slk[p] \in Locks
      BY <1>0, <2>1 DEF IInv, TypeOK, OwnershipByLabel, OwnedAtLabel
    <2>3. locked[slk[p]] /\ ~cpu.if
      BY <2>1, <2>2 DEF IInv, LocksAccounted, Holds, InterruptWindow, Open
    <2>4. ~cpu.intena
      BY <2>1, <2>2, <2>3, ReleaseOk DEF IInv, InterruptWindow, InSyscall
    <2> QED BY <2>1, <2>2, <2>3, <2>4
  <1>2. ReleaseFrom(slk[p], cpu) /\ own' = [own EXCEPT ![p] = {}]
        /\ Goto(p, "sleep_sched")
        /\ UNCHANGED <<state, chan, cproc, cr3, esp0, svint, cur, idx, arg, slk, halt>>
    <2>1. own[p] \ {slk[p]} = {}
      BY <1>1
    <2> QED BY <1>1, <2>1, ReleaseOk DEF SleepRelease
  <1>3. TypeOK'
    BY <1>0, <1>1, <1>2, CpuType DEF IInv, TypeOK, ProcLabels, SchedLabels,
       IrqLabels, ProcState, Messages, ReleaseFrom
  <1>4. LocksAccounted'
    <2>1. cpu'.ncli = Cardinality(Taken')
      BY <1>0, <1>1, <1>2, ReleaseCounts DEF IInv, TypeOK, LocksAccounted
    <2>2. Holds(cur) = {slk[p], Ptable} /\ (Holds(cur))' = {Ptable}
      BY <1>0, <1>1, <1>2 DEF TypeOK, Holds, PtableLabels
    <2>3. (Holds(Irq))' = Holds(Irq) /\ Holds(Irq) = {}
      <3>1. pc'[Irq] = pc[Irq] /\ own'[Irq] = own[Irq]
        BY <1>0, <1>2, GotoMoves DEF TypeOK
      <3> QED BY <1>1, <3>1 DEF IInv, OwnershipByLabel, OwnedAtLabel, Holds, PtableLabels
    <2>4. \A l \in Locks : locked'[l] <=> locked[l] /\ l # slk[p]
      BY <1>0, <1>1, <1>2 DEF TypeOK, ReleaseFrom
    <2>5. \A l \in Locks : locked[l] <=> l \in {slk[p], Ptable}
      BY <2>2, <2>3 DEF IInv, LocksAccounted
    <2>6. \A l \in Locks : locked'[l] <=> l = Ptable
      BY <1>1, <2>4, <2>5
    <2> QED BY <2>1, <2>2, <2>3, <2>6 DEF LocksAccounted
  <1>5. OwnershipByLabel'
    <2>1. {Ptable} \cap {slk[p]} = {}
      BY <1>1
    <2>2. /\ pc'[p] = "sleep_sched" /\ own'[p] = {} /\ slk' = slk
          /\ pc'[Irq] = pc[Irq] /\ own'[Irq] = own[Irq] /\ own'[Sched] = own[Sched]
      BY <1>0, <1>2 DEF TypeOK
    <2>3. \A q \in Procs : q # p => pc'[q] = pc[q] /\ own'[q] = own[q]
      BY <1>0, <1>2 DEF TypeOK
    <2>4. OwnedAtLabel(p)'
      BY <1>1, <2>1, <2>2 DEF OwnedAtLabel
    <2>5. \A q \in Procs : q # p => OwnedAtLabel(q)'
      BY <2>2, <2>3 DEF IInv, OwnershipByLabel, OwnedAtLabel
    <2> QED BY <1>1, <2>2, <2>4, <2>5 DEF IInv, OwnershipByLabel
  <1>6. InterruptWindow'
    <2>1. ~cpu'.if /\ ~cpu'.intena
      BY <1>0, <1>1, <1>2, ReleaseWindow DEF TypeOK
    <2> QED
      BY <1>0, <1>1, <1>2, <2>1 DEF IInv, TypeOK, InterruptWindow, Open
  <1>7. Parked'
    BY <1>0, <1>1, <1>2 DEF IInv, TypeOK, Parked
  <1>8. Current'
    BY <1>0, <1>1, <1>2 DEF IInv, TypeOK, Current
  <1>9. SleepersHaveChannel'
    BY <1>0, <1>1, <1>2 DEF IInv, TypeOK, SleepersHaveChannel
  <1>10. NoPanic'
    BY <1>0, <1>1, <1>2 DEF IInv, TypeOK, NoPanic
  <1> QED BY <1>3, <1>4, <1>5, <1>6, <1>7, <1>8, <1>9, <1>10 DEF IInv

(* sched() accepts sleep, and the scheduler gets ptable.lock. *)
LEMMA SleepSchedStep ==
    ASSUME IInv, ~Wild, NEW p \in Procs, SleepSched(p)
    PROVE  IInv'
  <1> USE Names DEF At, Running, Goto
  <1>0. TypeOK
    BY DEF IInv
  <1>1. cur = p /\ pc[p] = "sleep_sched" /\ pc[Irq] = "off" /\ halt = ""
        /\ arg[p] \in Chans /\ arg[p] # NoChan /\ cproc = p
        /\ pc[Sched] = "switched" /\ ~cpu.if /\ ~cpu.intena
        /\ own[p] \subseteq {Ptable} /\ own[Irq] = {} /\ own[Sched] = {}
        /\ \A l \in Locks : locked[l] <=> l = Ptable
    <2>1. cur = p /\ pc[p] = "sleep_sched" /\ pc[Irq] = "off" /\ halt = ""
      BY DEF SleepSched
    <2>2. cproc = p /\ pc[Sched] = "switched"
      BY <2>1 DEF IInv, Current
    <2>3. ~cpu.if
      BY <2>1 DEF IInv, InterruptWindow, Open
    <2>4. own[p] \subseteq {Ptable} /\ own[Irq] = {} /\ own[Sched] = {}
      BY <2>1 DEF IInv, OwnershipByLabel, OwnedAtLabel
    <2>5. \A l \in Locks : locked[l] <=> l = Ptable
      BY <2>1, <2>4 DEF IInv, LocksAccounted, Holds, PtableLabels
    <2>6. cpu.ncli > 0 /\ ~cpu.intena
      BY <2>1, <2>3, <2>5, SchedOk DEF IInv, InterruptWindow, InSyscall
    <2>7. arg[p] \in Chans /\ arg[p] # NoChan
      BY <2>1, NameAssumption DEF IInv, Parked
    <2> QED BY <2>7, <2>1, <2>2, <2>3, <2>4, <2>5, <2>6
  <1>2. /\ state' = [state EXCEPT ![p] = "SLEEPING"] /\ cur' = Sched
        /\ svint' = [svint EXCEPT ![p] = cpu.intena] /\ Goto(p, "slept")
        /\ chan' = [chan EXCEPT ![p] = arg[p]] /\ arg' = [arg EXCEPT ![p] = NoChan]
        /\ UNCHANGED <<cproc, cr3, esp0, locked, cpu, idx, slk, own, halt>>
    <2>1. SchedFault("SLEEPING", cpu) = ""
      BY <1>1, SchedOk
    <2> QED BY <1>1, <2>1 DEF SleepSched, CallSched
  <1>3. TypeOK'
    BY <1>0, <1>1, <1>2 DEF IInv, TypeOK, ProcLabels, SchedLabels, IrqLabels,
       ProcState, Messages, CpuState
  <1>4. LocksAccounted'
    <2>1. (Holds(cur))' = {Ptable} /\ (Holds(Irq))' = {}
      BY <1>0, <1>1, <1>2 DEF TypeOK, Holds, PtableLabels
    <2>2. Taken' = Taken
      BY <1>2 DEF Taken
    <2> QED BY <1>1, <1>2, <2>1, <2>2 DEF IInv, LocksAccounted
  <1>5. OwnershipByLabel'
    BY <1>0, <1>1, <1>2 DEF IInv, TypeOK, OwnershipByLabel, OwnedAtLabel
  <1>6. InterruptWindow'
    BY <1>0, <1>1, <1>2 DEF IInv, TypeOK, InterruptWindow, Open, InSyscall
  <1>7. Parked'
    BY <1>0, <1>1, <1>2 DEF IInv, TypeOK, Parked
  <1>8. Current'
    BY <1>0, <1>1, <1>2 DEF IInv, TypeOK, Current
  <1>9. SleepersHaveChannel'
    BY <1>0, <1>1, <1>2 DEF IInv, TypeOK, SleepersHaveChannel
  <1>10. NoPanic'
    BY <1>0, <1>1, <1>2 DEF IInv, TypeOK, NoPanic
  <1> QED BY <1>3, <1>4, <1>5, <1>6, <1>7, <1>8, <1>9, <1>10 DEF IInv

(* sleep goes on with its own intena and drops ptable.lock unless it is lk. *)
LEMMA SleepResumeStep ==
    ASSUME IInv, ~Wild, NEW p \in Procs, SleepResume(p)
    PROVE  IInv'
  <1> USE Names DEF At, Running, Goto
  <1>0. TypeOK
    BY DEF IInv
  <1>1. cur = p /\ pc[p] = "slept" /\ pc[Irq] = "off" /\ halt = ""
        /\ ~cpu.if /\ locked[Ptable] /\ ~svint[p] /\ own[p] = {Ptable} \cap {slk[p]}
        /\ slk[p] \in Locks
    <2>1. cur = p /\ pc[p] = "slept" /\ pc[Irq] = "off" /\ halt = ""
      BY DEF SleepResume
    <2>2. ~cpu.if /\ ~svint[p]
      BY <2>1 DEF IInv, InterruptWindow, Open
    <2>3. locked[Ptable]
      BY <2>1 DEF IInv, LocksAccounted, Holds, PtableLabels
    <2>4. own[p] = {Ptable} \cap {slk[p]} /\ slk[p] \in Locks
      BY <1>0, <2>1 DEF IInv, TypeOK, OwnershipByLabel, OwnedAtLabel
    <2> QED BY <2>1, <2>2, <2>3, <2>4
  <1>2. /\ chan' = [chan EXCEPT ![p] = NoChan] /\ ForgetSaved(p)
        /\ UNCHANGED <<state, cproc, cr3, esp0, cur, idx, arg, slk, own, halt>>
        /\ \/ /\ slk[p] = Ptable /\ cpu' = Restored(p) /\ Goto(p, "kern")
              /\ UNCHANGED locked
           \/ /\ slk[p] # Ptable /\ ReleaseFrom(Ptable, Restored(p))
              /\ Goto(p, "sleep_acq")
    BY <1>1, ReleaseOk DEF SleepResume
  <1>11. /\ Restored(p) \in CpuState /\ Restored(p).ncli = cpu.ncli
         /\ ~Restored(p).if /\ ~Restored(p).intena
    BY <1>0, <1>1 DEF TypeOK, Restored, CpuState
  <1>3. TypeOK'
    <2>1. cpu' \in CpuState /\ locked' \in [Locks -> BOOLEAN]
      BY <1>0, <1>2, <1>11, CpuType DEF TypeOK, ReleaseFrom
    <2>2. /\ pc' \in [Threads -> ProcLabels \cup SchedLabels \cup IrqLabels]
          /\ pc'[Sched] = pc[Sched] /\ pc'[Irq] = pc[Irq]
          /\ \A q \in Procs : pc'[q] \in ProcLabels
      BY <1>0, <1>2 DEF TypeOK, ProcLabels
    <2> QED BY <1>0, <1>2, <2>1, <2>2 DEF TypeOK, ForgetSaved
  <1>4. LocksAccounted'
    <2>1. Holds(cur) = {Ptable} /\ Holds(Irq) = {} /\ (Holds(Irq))' = {}
      <3>1. Holds(cur) = {Ptable} /\ Holds(Irq) = {}
        BY <1>0, <1>1 DEF IInv, OwnershipByLabel, OwnedAtLabel, Holds,
           PtableLabels
      <3>2. pc'[Irq] = pc[Irq]
        BY <1>0, <1>2, GotoMoves
      <3> QED BY <1>2, <3>1, <3>2 DEF Holds
    <2>2. CASE slk[p] = Ptable
      <3>1. Taken' = Taken
        BY <1>2, <2>2 DEF Taken
      <3>2. (Holds(cur))' = {Ptable}
        BY <1>0, <1>1, <1>2, <2>2 DEF TypeOK, Holds, PtableLabels
      <3> QED BY <1>2, <1>11, <2>1, <2>2, <3>1, <3>2 DEF IInv, LocksAccounted
    <2>3. CASE slk[p] # Ptable
      <3>1. cpu'.ncli = Cardinality(Taken')
        BY <1>0, <1>1, <1>2, <1>11, <2>3, ReleaseCounts DEF IInv,
           LocksAccounted
      <3>2. (Holds(cur))' = {}
        BY <1>0, <1>1, <1>2, <2>3 DEF TypeOK, Holds, PtableLabels
      <3> QED BY <1>0, <1>2, <2>1, <2>3, <3>1, <3>2
                 DEF IInv, TypeOK, LocksAccounted, ReleaseFrom
    <2> QED BY <2>2, <2>3
  <1>5. OwnershipByLabel'
    <2>1. slk[p] # Ptable => own[p] = {}
      BY <1>1
    <2>2. \A q \in Procs : q # p => pc'[q] = pc[q]
      BY <1>0, <1>2 DEF TypeOK
    <2>3. /\ slk[p] = Ptable => pc'[p] = "kern"
          /\ slk[p] # Ptable => pc'[p] = "sleep_acq"
          /\ pc'[Irq] = pc[Irq]
      BY <1>0, <1>2 DEF TypeOK
    <2>4. own' = own /\ slk' = slk
      BY <1>2
    <2>5. own[p] = {Ptable} \cap {slk[p]} /\ Ptable \notin own[Irq]
      BY <1>1 DEF IInv, OwnershipByLabel, OwnedAtLabel
    <2>6. ASSUME NEW q \in Procs, q # p
          PROVE  /\ pc'[q] \in {"none", "fork_ret", "trap_ret", "user", "yield",
                               "yielded", "sleep_acq"} => own'[q] = {}
                 /\ pc'[q] = "sleep_rel" => own'[q] = {slk'[q]}
                 /\ pc'[q] \in {"sleep_rel", "sleep_acq"} => slk'[q] # Ptable
                 /\ pc'[q] \in {"sleep_sched", "slept"}
                       => own'[q] = {Ptable} \cap {slk'[q]}
                 /\ pc'[q] = "wake" => Ptable \notin own'[q]
      BY <2>2, <2>4, <2>6 DEF IInv, OwnershipByLabel, OwnedAtLabel
    <2>7. own'[Sched] = {} /\ (pc'[Irq] = "off" => own'[Irq] = {})
      BY <2>3, <2>4 DEF IInv, OwnershipByLabel, OwnedAtLabel
    <2> QED BY <2>1, <2>3, <2>4, <2>5, <2>6, <2>7 DEF OwnershipByLabel, OwnedAtLabel
  <1>6. InterruptWindow'
    <2>1. ~cpu'.if /\ ~cpu'.intena
      BY <1>2, <1>11, ReleaseWindow
    <2> QED
      BY <1>0, <1>1, <1>2, <2>1 DEF IInv, TypeOK, InterruptWindow, ForgetSaved,
         Open
  <1>7. Parked'
    <2>1. pc'[p] \in {"kern", "sleep_acq"}
      BY <1>0, <1>2 DEF TypeOK
    <2>2. \A q \in Procs : q # p => pc'[q] = pc[q]
      BY <1>0, <1>2 DEF TypeOK
    <2> QED BY <1>1, <1>2, <2>1, <2>2 DEF IInv, Parked
  <1>8. Current'
    BY <1>0, <1>1, <1>2 DEF IInv, TypeOK, Current
  <1>9. SleepersHaveChannel'
    <2>1. state[p] # "SLEEPING"
      BY <1>1 DEF IInv, Current
    <2>2. pc'[p] # "slept" /\ \A q \in Procs : q # p => pc'[q] = pc[q]
      BY <1>0, <1>2 DEF TypeOK
    <2> QED BY <1>0, <1>2, <2>1, <2>2 DEF IInv, TypeOK, SleepersHaveChannel
  <1>10. NoPanic'
    BY <1>0, <1>1, <1>2 DEF IInv, TypeOK, NoPanic
  <1> QED BY <1>3, <1>4, <1>5, <1>6, <1>7, <1>8, <1>9, <1>10 DEF IInv

(* sleep finds the lock of its caller free again. *)
LEMMA SleepReacquireStep ==
    ASSUME IInv, ~Wild, NEW p \in Procs, SleepReacquire(p)
    PROVE  IInv'
  <1> USE Names DEF At, Running, Goto
  <1>0. TypeOK
    BY DEF IInv
  <1>1. cur = p /\ pc[p] = "sleep_acq" /\ pc[Irq] = "off" /\ halt = "" /\ own[p] = {}
        /\ slk[p] # Ptable /\ slk[p] \in Locks /\ ~locked[slk[p]] /\ ~cpu.if
    <2>1. cur = p /\ pc[p] = "sleep_acq" /\ pc[Irq] = "off" /\ halt = ""
      BY DEF SleepReacquire
    <2>2. own[p] = {} /\ slk[p] # Ptable /\ slk[p] \in Locks /\ own[Irq] = {}
      BY <1>0, <2>1 DEF IInv, TypeOK, OwnershipByLabel, OwnedAtLabel
    <2>3. ~locked[slk[p]] /\ ~cpu.if
      BY <2>1, <2>2 DEF IInv, LocksAccounted, Holds, PtableLabels,
         InterruptWindow, Open
    <2> QED BY <2>1, <2>2, <2>3
  <1>2. Acquire(slk[p]) /\ own' = [own EXCEPT ![p] = {slk[p]}] /\ Goto(p, "kern")
        /\ slk' = [slk EXCEPT ![p] = Ptable]
        /\ UNCHANGED <<state, chan, cproc, cr3, esp0, svint, cur, idx, arg, halt>>
    <2>1. own[p] \cup {slk[p]} = {slk[p]}
      BY <1>1
    <2> QED BY <1>1, <2>1 DEF SleepReacquire, AcquireFault
  <1>3. TypeOK'
    BY <1>0, <1>1, <1>2, CpuType DEF IInv, TypeOK, ProcLabels, SchedLabels,
       IrqLabels, ProcState, Messages, Acquire
  <1>4. LocksAccounted'
    <2>1. cpu'.ncli = Cardinality(Taken')
      BY <1>0, <1>1, <1>2, AcquireCounts DEF IInv, LocksAccounted
    <2>2. Holds(cur) = {} /\ (Holds(cur))' = {slk[p]}
      BY <1>0, <1>1, <1>2 DEF TypeOK, Holds, PtableLabels
    <2>3. (Holds(Irq))' = Holds(Irq) /\ Holds(Irq) = {}
      <3>1. pc'[Irq] = pc[Irq] /\ own'[Irq] = own[Irq]
        BY <1>0, <1>2, GotoMoves DEF TypeOK
      <3> QED BY <1>1, <3>1 DEF IInv, OwnershipByLabel, OwnedAtLabel, Holds, PtableLabels
    <2>4. \A l \in Locks : ~locked[l]
      BY <2>2, <2>3 DEF IInv, LocksAccounted
    <2>5. \A l \in Locks : locked'[l] <=> l = slk[p]
      BY <1>0, <1>2, <2>4 DEF TypeOK, Acquire
    <2> QED BY <2>1, <2>2, <2>3, <2>5 DEF LocksAccounted
  <1>5. OwnershipByLabel'
    BY <1>0, <1>1, <1>2 DEF IInv, TypeOK, OwnershipByLabel, OwnedAtLabel
  <1>6. InterruptWindow'
    <2>1. ~cpu'.if /\ ~cpu'.intena
      BY <1>1, <1>2, AcquireWindow DEF InSyscall
    <2> QED
      BY <1>0, <1>1, <1>2, <2>1 DEF IInv, TypeOK, InterruptWindow, Open
  <1>7. Parked'
    BY <1>0, <1>1, <1>2 DEF IInv, TypeOK, Parked
  <1>8. Current'
    BY <1>0, <1>1, <1>2 DEF IInv, TypeOK, Current
  <1>9. SleepersHaveChannel'
    BY <1>0, <1>1, <1>2 DEF IInv, TypeOK, SleepersHaveChannel
  <1>10. NoPanic'
    BY <1>0, <1>1, <1>2 DEF IInv, TypeOK, NoPanic
  <1> QED BY <1>3, <1>4, <1>5, <1>6, <1>7, <1>8, <1>9, <1>10 DEF IInv

(* wakeup finds ptable.lock free. *)
LEMMA WakeupAcquireStep ==
    ASSUME IInv, ~Wild, NEW t \in Procs \cup {Irq},
           NEW c \in Chans, WakeupAcquire(t, c)
    PROVE  IInv'
  <1> USE Names DEF At, Running, Goto
  <1>0. TypeOK
    BY DEF IInv
  <1>1. /\ pc[t] = "kern" /\ halt = "" /\ t \in Threads
        /\ \/ t \in Procs /\ cur = t /\ pc[Irq] = "off"
           \/ t = Irq /\ Open(cur)
        /\ ~cpu.if /\ ~locked[Ptable] /\ Ptable \notin own[t]
    <2>1. pc[t] = "kern" /\ halt = "" /\ t \in Threads /\ pc[t] # "off"
      BY DEF WakeupAcquire
    <2>2. \/ t \in Procs /\ cur = t /\ pc[Irq] = "off"
          \/ t = Irq /\ Open(cur)
      BY DEF IInv, WakeupAcquire, InterruptWindow
    <2>3. ~cpu.if
      BY <2>1, <2>2 DEF IInv, InterruptWindow, Open
    <2>4. Ptable \notin own[t]
      BY DEF WakeupAcquire, IInv, OwnershipByLabel, OwnedAtLabel
    <2>5. ~locked[Ptable]
      <3>1. CASE t \in Procs
        BY <2>1, <2>2, <2>4, <3>1
           DEF IInv, LocksAccounted, OwnershipByLabel, OwnedAtLabel, Holds, PtableLabels
      <3>2. CASE t = Irq
        <4>1. Holds(cur) = {}
          BY <2>2, <3>2, OpenHoldsNothing
        <4> QED BY <2>1, <2>4, <3>2, <4>1 DEF IInv, LocksAccounted, Holds, PtableLabels
      <3> QED BY <3>1, <3>2
    <2> QED BY <2>1, <2>2, <2>3, <2>4, <2>5
  <1>2. Acquire(Ptable) /\ arg' = [arg EXCEPT ![t] = c] /\ Goto(t, "wake")
        /\ UNCHANGED <<state, chan, cproc, cr3, esp0, svint, cur, idx, slk, own, halt>>
    BY <1>1, Zenon DEF WakeupAcquire, AcquireFault
  <1>3. TypeOK'
    BY <1>0, <1>1, <1>2, CpuType DEF IInv, TypeOK, ProcLabels, SchedLabels,
       IrqLabels, ProcState, Messages, Acquire
  <1>4. LocksAccounted'
    <2>1. cpu'.ncli = Cardinality(Taken')
      BY <1>0, <1>1, <1>2, AcquireCounts DEF IInv, TypeOK, LocksAccounted
    <2>2. CASE t \in Procs
      <3>1. Holds(Irq) = {} /\ (Holds(Irq))' = {}
        BY <1>0, <1>1, <1>2, <2>2 DEF IInv, TypeOK, OwnershipByLabel,
           OwnedAtLabel, Holds, PtableLabels
      <3>2. (Holds(cur))' = Holds(cur) \cup {Ptable}
        BY <1>0, <1>1, <1>2, <2>2 DEF TypeOK, Holds, PtableLabels
      <3> QED BY <1>0, <1>2, <2>1, <3>1, <3>2
                 DEF IInv, TypeOK, LocksAccounted, Acquire, ReleaseFrom
    <2>3. CASE t = Irq
      <3>1. Holds(cur) = {}
        BY <1>1, <2>3, OpenHoldsNothing
      <3>2. (Holds(cur))' = {}
        <4>1. own'[cur] = own[cur] /\ pc'[cur] = pc[cur]
          BY <1>0, <1>2, <2>3 DEF TypeOK
        <4> QED BY <1>2, <3>1, <4>1 DEF Holds
      <3>3. (Holds(Irq))' = Holds(Irq) \cup {Ptable}
        BY <1>0, <1>1, <1>2, <2>3 DEF TypeOK, Holds, PtableLabels
      <3> QED BY <1>0, <1>2, <2>1, <3>1, <3>2, <3>3
                 DEF IInv, TypeOK, LocksAccounted, Acquire, ReleaseFrom
    <2> QED BY <2>2, <2>3
  <1>5. OwnershipByLabel'
    BY <1>0, <1>1, <1>2 DEF IInv, TypeOK, OwnershipByLabel, OwnedAtLabel
  <1>6. InterruptWindow'
    <2>1. ~cpu'.if /\ ~cpu'.intena
      BY <1>0, <1>1, <1>2, AcquireWindow DEF TypeOK, InSyscall
    <2>2. pc'[Irq] # "off" => (Open(cur))'
      <3>1. CASE t \in Procs
        BY <1>0, <1>1, <1>2, <3>1 DEF TypeOK
      <3>2. CASE t = Irq
        <4>1. Open(cur)
          BY <1>1, <3>2
        <4>2. pc'[cur] = pc[cur]
          BY <1>0, <1>2, <3>2 DEF TypeOK
        <4> QED BY <1>2, <4>1, <4>2 DEF Open
      <3> QED BY <3>1, <3>2
    <2> QED
      BY <1>2, <2>1, <2>2 DEF IInv, InterruptWindow
  <1>7. Parked'
    BY <1>0, <1>1, <1>2 DEF IInv, TypeOK, Parked
  <1>8. Current'
    BY <1>0, <1>1, <1>2 DEF IInv, TypeOK, Current
  <1>9. SleepersHaveChannel'
    BY <1>0, <1>1, <1>2 DEF IInv, TypeOK, SleepersHaveChannel
  <1>10. NoPanic'
    BY <1>0, <1>1, <1>2 DEF IInv, TypeOK, NoPanic
  <1> QED BY <1>3, <1>4, <1>5, <1>6, <1>7, <1>8, <1>9, <1>10 DEF IInv

(* wakeup makes the sleepers on its channel RUNNABLE. *)
LEMMA WakeupScanStep ==
    ASSUME IInv, ~Wild, NEW t \in Procs \cup {Irq}, WakeupScan(t)
    PROVE  IInv'
  <1> USE Names DEF At, Running, Goto
  <1>0. TypeOK
    BY DEF IInv
  <1>1. /\ pc[t] = "wake" /\ halt = "" /\ t \in Threads
        /\ \/ t \in Procs /\ cur = t /\ pc[Irq] = "off"
           \/ t = Irq /\ Open(cur)
        /\ ~cpu.if /\ ~cpu.intena /\ locked[Ptable] /\ Ptable \notin own[t]
    <2>1. pc[t] = "wake" /\ halt = "" /\ t \in Threads /\ pc[t] # "off"
      BY DEF WakeupScan
    <2>2. \/ t \in Procs /\ cur = t /\ pc[Irq] = "off"
          \/ t = Irq /\ Open(cur)
      BY DEF IInv, WakeupScan, InterruptWindow
    <2>3. ~cpu.if
      BY <2>1, <2>2 DEF IInv, InterruptWindow, Open
    <2>4. Ptable \notin own[t]
      BY <2>1 DEF IInv, OwnershipByLabel, OwnedAtLabel
    <2>5. locked[Ptable]
      BY <2>1, <2>2 DEF IInv, LocksAccounted, Holds, PtableLabels
    <2>6. ~cpu.intena
      BY <2>1, <2>2, <2>3, <2>5, ReleaseOk DEF IInv, InterruptWindow, InSyscall
    <2> QED BY <2>1, <2>2, <2>3, <2>4, <2>5, <2>6
  <1>2. ReleaseFrom(Ptable, cpu) /\ arg' = [arg EXCEPT ![t] = NoChan] /\ Goto(t, "kern")
        /\ state' = [p \in Procs |-> IF p \in Woken(arg[t]) THEN "RUNNABLE"
                                    ELSE state[p]]
        /\ UNCHANGED <<chan, cproc, cr3, esp0, svint, cur, idx, slk, own, halt>>
    BY <1>1, ReleaseOk DEF WakeupScan
  <1>3. TypeOK'
    BY <1>0, <1>1, <1>2, CpuType DEF IInv, TypeOK, ProcLabels, SchedLabels,
       IrqLabels, ProcState, Messages, ReleaseFrom
  <1>4. LocksAccounted'
    <2>1. cpu'.ncli = Cardinality(Taken')
      BY <1>0, <1>1, <1>2, ReleaseCounts DEF IInv, TypeOK, LocksAccounted
    <2>2. CASE t \in Procs
      <3>1. Holds(Irq) = {} /\ (Holds(Irq))' = {}
        BY <1>0, <1>1, <1>2, <2>2 DEF IInv, TypeOK, OwnershipByLabel,
           OwnedAtLabel, Holds, PtableLabels
      <3>2. (Holds(cur))' = Holds(cur) \ {Ptable}
        BY <1>0, <1>1, <1>2, <2>2 DEF TypeOK, Holds, PtableLabels
      <3> QED BY <1>0, <1>2, <2>1, <3>1, <3>2
                 DEF IInv, TypeOK, LocksAccounted, Acquire, ReleaseFrom
    <2>3. CASE t = Irq
      <3>1. Holds(cur) = {}
        BY <1>1, <2>3, OpenHoldsNothing
      <3>2. (Holds(cur))' = {}
        <4>1. own'[cur] = own[cur] /\ pc'[cur] = pc[cur]
          BY <1>0, <1>2, <2>3 DEF TypeOK
        <4> QED BY <1>2, <3>1, <4>1 DEF Holds
      <3>3. (Holds(Irq))' = Holds(Irq) \ {Ptable}
        BY <1>0, <1>1, <1>2, <2>3 DEF TypeOK, Holds, PtableLabels
      <3> QED BY <1>0, <1>2, <2>1, <3>1, <3>2, <3>3
                 DEF IInv, TypeOK, LocksAccounted, Acquire, ReleaseFrom
    <2> QED BY <2>2, <2>3
  <1>5. OwnershipByLabel'
    BY <1>0, <1>1, <1>2 DEF IInv, TypeOK, OwnershipByLabel, OwnedAtLabel
  <1>6. InterruptWindow'
    <2>1. ~cpu'.if /\ ~cpu'.intena
      BY <1>0, <1>1, <1>2, ReleaseWindow DEF TypeOK, InSyscall
    <2>2. pc'[Irq] # "off" => (Open(cur))'
      <3>1. CASE t \in Procs
        BY <1>0, <1>1, <1>2, <3>1 DEF TypeOK
      <3>2. CASE t = Irq
        <4>1. Open(cur)
          BY <1>1, <3>2
        <4>2. pc'[cur] = pc[cur]
          BY <1>0, <1>2, <3>2 DEF TypeOK
        <4> QED BY <1>2, <4>1, <4>2 DEF Open
      <3> QED BY <3>1, <3>2
    <2> QED
      BY <1>2, <2>1, <2>2 DEF IInv, InterruptWindow
  <1>7. Parked'
    BY <1>0, <1>1, <1>2 DEF IInv, TypeOK, Parked, Woken
  <1>8. Current'
    BY <1>0, <1>1, <1>2 DEF IInv, TypeOK, Current, Woken
  <1>9. SleepersHaveChannel'
    BY <1>0, <1>1, <1>2 DEF IInv, TypeOK, SleepersHaveChannel, Woken
  <1>10. NoPanic'
    BY <1>0, <1>1, <1>2 DEF IInv, TypeOK, NoPanic
  <1> QED BY <1>3, <1>4, <1>5, <1>6, <1>7, <1>8, <1>9, <1>10 DEF IInv

(* An interrupt comes only while no lock is held. *)
LEMMA InterruptStep ==
    ASSUME IInv, ~Wild, Interrupt
    PROVE  IInv'
  <1> USE Names DEF At, Running, Goto
  <1>0. TypeOK
    BY DEF IInv
  <1>1. pc[Irq] = "off" /\ halt = "" /\ cpu.if /\ Open(cur) /\ ~(cpu.ncli > 0)
        /\ own[Irq] = {} /\ Irq # cur /\ Holds(cur) = {} /\ Holds(Irq) = {}
    <2>1. pc[Irq] = "off" /\ halt = "" /\ cpu.if /\ Open(cur) /\ own[Irq] = {} /\ Irq # cur
      BY <1>0 DEF Interrupt, IInv, TypeOK, InterruptWindow, OwnershipByLabel,
         OwnedAtLabel
    <2>2. Holds(cur) = {} /\ Holds(Irq) = {}
      BY <2>1, OpenHoldsNothing DEF Holds, PtableLabels
    <2>3. \A l \in Locks : ~locked[l]
      BY <2>2 DEF IInv, LocksAccounted
    <2> QED BY <2>1, <2>2, <2>3, NoneTaken
  <1>2. cpu' = Cli(cpu) /\ Goto(Irq, "kern")
        /\ UNCHANGED <<state, chan, cproc, cr3, esp0, locked, svint, cur, idx, arg,
                       slk, own, halt>>
    BY DEF Interrupt
  <1>3. TypeOK'
    BY <1>0, <1>1, <1>2, CpuType DEF IInv, TypeOK, ProcLabels, SchedLabels,
       IrqLabels, ProcState, Messages
  <1>4. LocksAccounted'
    <2>1. pc'[cur] = pc[cur] /\ pc'[Irq] \notin PtableLabels
      <3>1. pc'[cur] = pc[cur]
        BY <1>0, <1>1, <1>2, GotoMoves
      <3>2. pc'[Irq] \in {"kern", "off"}
        BY <1>0, <1>2, GotoMoves
      <3> QED BY <3>1, <3>2 DEF PtableLabels
    <2>2. (Holds(cur))' = Holds(cur) /\ (Holds(Irq))' = {}
      BY <1>1, <1>2, <2>1 DEF Holds
    <2>3. Taken' = Taken /\ cpu'.ncli = cpu.ncli
      BY <1>0, <1>2, CpuType DEF Taken, TypeOK
    <2> QED BY <1>1, <1>2, <2>2, <2>3 DEF IInv, LocksAccounted
  <1>5. OwnershipByLabel'
    BY <1>0, <1>1, <1>2 DEF IInv, TypeOK, OwnershipByLabel, OwnedAtLabel
  <1>6. InterruptWindow'
    <2>1. ~(cpu'.ncli > 0)
      BY <1>0, <1>1, <1>2, CpuType DEF TypeOK
    <2>2. pc'[cur] = pc[cur]
      BY <1>0, <1>1, <1>2, GotoMoves
    <2>3. ~cpu'.if
      BY <1>0, <1>1, <1>2, CpuType, GotoMoves DEF TypeOK
    <2> QED
      BY <1>1, <1>2, <2>1, <2>2, <2>3 DEF IInv, InterruptWindow, Open
  <1>7. Parked'
    BY <1>0, <1>1, <1>2 DEF IInv, TypeOK, Parked
  <1>8. Current'
    BY <1>0, <1>1, <1>2 DEF IInv, TypeOK, Current
  <1>9. SleepersHaveChannel'
    BY <1>0, <1>1, <1>2 DEF IInv, TypeOK, SleepersHaveChannel
  <1>10. NoPanic'
    BY <1>0, <1>1, <1>2 DEF IInv, TypeOK, NoPanic
  <1> QED BY <1>3, <1>4, <1>5, <1>6, <1>7, <1>8, <1>9, <1>10 DEF IInv

(* A handler returns to code that runs with interrupts on. *)
LEMMA InterruptReturnStep ==
    ASSUME IInv, ~Wild, InterruptReturn
    PROVE  IInv'
  <1> USE Names DEF At, Running, Goto
  <1>0. TypeOK
    BY DEF IInv
  <1>1. pc[Irq] = "kern" /\ halt = "" /\ Open(cur) /\ own[Irq] = {} /\ Irq # cur
        /\ ~(cpu.ncli > 0) /\ Holds(cur) = {} /\ Holds(Irq) = {}
    <2>1. pc[Irq] = "kern" /\ halt = "" /\ Open(cur) /\ own[Irq] = {} /\ Irq # cur
      BY <1>0 DEF InterruptReturn, IInv, TypeOK, InterruptWindow
    <2>2. Holds(cur) = {} /\ Holds(Irq) = {}
      BY <2>1, OpenHoldsNothing DEF Holds, PtableLabels
    <2>3. \A l \in Locks : ~locked[l]
      BY <2>2 DEF IInv, LocksAccounted
    <2> QED BY <2>1, <2>2, <2>3, NoneTaken
  <1>2. cpu' = Sti(cpu) /\ Goto(Irq, "off")
        /\ UNCHANGED <<state, chan, cproc, cr3, esp0, locked, svint, cur, idx, arg,
                       slk, own, halt>>
    BY DEF InterruptReturn
  <1>3. TypeOK'
    BY <1>0, <1>1, <1>2, CpuType DEF IInv, TypeOK, ProcLabels, SchedLabels,
       IrqLabels, ProcState, Messages
  <1>4. LocksAccounted'
    <2>1. pc'[cur] = pc[cur] /\ pc'[Irq] \notin PtableLabels
      <3>1. pc'[cur] = pc[cur]
        BY <1>0, <1>1, <1>2, GotoMoves
      <3>2. pc'[Irq] \in {"kern", "off"}
        BY <1>0, <1>2, GotoMoves
      <3> QED BY <3>1, <3>2 DEF PtableLabels
    <2>2. (Holds(cur))' = Holds(cur) /\ (Holds(Irq))' = {}
      BY <1>1, <1>2, <2>1 DEF Holds
    <2>3. Taken' = Taken /\ cpu'.ncli = cpu.ncli
      BY <1>0, <1>2, CpuType DEF Taken, TypeOK
    <2> QED BY <1>1, <1>2, <2>2, <2>3 DEF IInv, LocksAccounted
  <1>5. OwnershipByLabel'
    BY <1>0, <1>1, <1>2 DEF IInv, TypeOK, OwnershipByLabel, OwnedAtLabel
  <1>6. InterruptWindow'
    <2>1. ~(cpu'.ncli > 0)
      BY <1>0, <1>1, <1>2, CpuType DEF TypeOK
    <2>2. pc'[cur] = pc[cur]
      BY <1>0, <1>1, <1>2, GotoMoves
    <2>3. pc'[Irq] = "off"
      BY <1>0, <1>1, <1>2, CpuType, GotoMoves DEF TypeOK
    <2> QED
      BY <1>1, <1>2, <2>1, <2>2, <2>3 DEF IInv, InterruptWindow, Open
  <1>7. Parked'
    BY <1>0, <1>1, <1>2 DEF IInv, TypeOK, Parked
  <1>8. Current'
    BY <1>0, <1>1, <1>2 DEF IInv, TypeOK, Current
  <1>9. SleepersHaveChannel'
    BY <1>0, <1>1, <1>2 DEF IInv, TypeOK, SleepersHaveChannel
  <1>10. NoPanic'
    BY <1>0, <1>1, <1>2 DEF IInv, TypeOK, NoPanic
  <1> QED BY <1>3, <1>4, <1>5, <1>6, <1>7, <1>8, <1>9, <1>10 DEF IInv

-----------------------------------------------------------------------------
(* The theorems *)

(* IInv holds at boot. *)
LEMMA InitIInv == Init => IInv
  <1> SUFFICES ASSUME Init PROVE IInv
    OBVIOUS
  <1> USE Names
  <1>1. TypeOK
    <2>1. cpu \in CpuState
      BY CpuInitType DEF Init
    <2>2. pc \in [Threads -> ProcLabels \cup SchedLabels \cup IrqLabels]
      BY DEF Init, ProcLabels, SchedLabels, IrqLabels
    <2>3. pc[Sched] \in SchedLabels /\ pc[Irq] \in IrqLabels
          /\ \A p \in Procs : pc[p] \in ProcLabels
      BY DEF Init, ProcLabels, SchedLabels, IrqLabels
    <2>4. chan \in [Procs -> Chans \cup {NoChan}]
          /\ arg \in [Threads -> Chans \cup {NoChan}]
          /\ slk \in [Procs -> Locks] /\ own \in [Threads -> SUBSET Locks]
      BY DEF Init
    <2>5. state \in [Procs -> ProcState] /\ locked \in [Locks -> BOOLEAN]
          /\ svint \in [Procs -> BOOLEAN] /\ idx \in Nat /\ halt \in Messages
      BY DEF Init, ProcState, Messages
    <2> QED BY <2>1, <2>2, <2>3, <2>4, <2>5 DEF Init, TypeOK
  <1>2. LocksAccounted
    <2>1. Taken = {} /\ cpu.ncli = 0
      BY DEF Init, Taken, CpuInit
    <2> QED BY <2>1, FS_EmptySet DEF Init, LocksAccounted, Holds, PtableLabels
  <1>3. OwnershipByLabel /\ InterruptWindow /\ Parked /\ Current
        /\ SleepersHaveChannel /\ NoPanic
    BY DEF Init, OwnershipByLabel, OwnedAtLabel, InterruptWindow, Parked,
       Current, InSyscall,
       SleepersHaveChannel, NoPanic, CpuInit
  <1> QED BY <1>1, <1>2, <1>3 DEF IInv

(* A step that changes nothing keeps it. *)
LEMMA StutterIInv == ASSUME IInv, UNCHANGED vars PROVE IInv'
  <1>1. Taken' = Taken
    BY DEF vars, Taken
  <1>2. TypeOK'
    BY DEF vars, IInv, TypeOK
  <1>3. LocksAccounted'
    BY <1>1 DEF vars, IInv, LocksAccounted, Holds
  <1>4. OwnershipByLabel' /\ InterruptWindow'
    BY DEF vars, IInv, OwnershipByLabel, OwnedAtLabel, InterruptWindow, Open,
       InSyscall
  <1>5. Parked' /\ Current'
    BY DEF vars, IInv, Parked, Current
  <1>6. SleepersHaveChannel' /\ NoPanic'
    BY DEF vars, IInv, SleepersHaveChannel, NoPanic
  <1> QED BY <1>2, <1>3, <1>4, <1>5, <1>6 DEF IInv

(* Every step of the kernel, of its clients and of the hardware keeps it. *)
LEMMA NextIInv == ASSUME IInv, ~Wild, [Next]_vars PROVE IInv'
  <1>1. CASE InitUser \/ InitUserFails \/ StartScheduler
    BY <1>1, InitUserStep, InitUserFailsStep, StartSchedulerStep
  <1>2. CASE SchedStep
    BY <1>2, SchedStiStep, SchedAcquireStep, SchedSkipStep, SchedSwitchStep,
       SchedBackStep, SchedReleaseStep DEF SchedStep
  <1>3. ASSUME NEW p \in Procs, ProcStep(p) PROVE IInv'
    <2>1. CASE ForkRet(p) \/ TrapRet(p) \/ Syscall(p) \/ SyscallExit(p)
               \/ SyscallReturn(p)
      BY <2>1, ForkRetStep, TrapRetStep, SyscallStep, SyscallExitStep,
         SyscallReturnStep
    <2>2. CASE YieldAcquire(p) \/ YieldSched(p) \/ YieldReturn(p)
      BY <2>2, YieldAcquireStep, YieldSchedStep, YieldReturnStep
    <2>3. CASE \E c \in Chans, lk \in Locks : SleepEnter(p, c, lk)
      BY <2>3, SleepEnterStep
    <2>4. CASE SleepRelease(p) \/ SleepSched(p) \/ SleepResume(p)
               \/ SleepReacquire(p)
      BY <2>4, SleepReleaseStep, SleepSchedStep, SleepResumeStep,
         SleepReacquireStep
    <2> QED BY <1>3, <2>1, <2>2, <2>3, <2>4 DEF ProcStep
  <1>4. ASSUME NEW t \in Procs \cup {Irq}, ClientStep(t) PROVE IInv'
    BY <1>4, ClientAcquireStep, ClientReleaseStep, WakeupAcquireStep,
       WakeupScanStep
       DEF ClientStep
  <1>5. CASE Interrupt \/ InterruptReturn
    BY <1>5, InterruptStep, InterruptReturnStep
  <1>6. CASE Halted \/ UNCHANGED vars
    BY <1>6, StutterIInv DEF Halted
  <1> QED BY <1>1, <1>2, <1>3, <1>4, <1>5, <1>6 DEF Next

(* The invariant holds in every behaviour of the disciplined kernel. *)
THEOREM Invariance == ASSUME ~Wild PROVE Spec => []IInv
  <1>1. Init => IInv
    BY InitIInv
  <1>2. IInv /\ [Next]_vars => IInv'
    BY NextIInv
  <1> QED BY <1>1, <1>2, PTL DEF Spec

(* No panic of spinlock.c or process.c is reachable from a client that     *)
(* keeps the locking rules, other than the one in SYS_EXIT.                *)
THEOREM PanicFreedom == ASSUME ~Wild PROVE Spec => []NoPanic
  <1>1. IInv => NoPanic
    BY DEF IInv
  <1> QED BY <1>1, Invariance, PTL

(* ncli counts the held locks, and interrupts are on only at zero. *)
THEOREM LockBalance == ASSUME ~Wild PROVE Spec => []InterruptsOnlyUnlocked
  <1>1. IInv => InterruptsOnlyUnlocked
    <2> SUFFICES ASSUME IInv PROVE InterruptsOnlyUnlocked
      OBVIOUS
    <2>1. cpu.ncli = Cardinality({l \in Locks : locked[l]})
      BY DEF IInv, LocksAccounted, Taken
    <2>2. ASSUME cpu.if PROVE cpu.ncli = 0
      <3>1. Open(cur) /\ pc[Irq] = "off" /\ own[Irq] = {}
        BY <2>2 DEF IInv, InterruptWindow, OwnershipByLabel, OwnedAtLabel
      <3>2. Holds(cur) = {} /\ Holds(Irq) = {}
        BY <3>1, OpenHoldsNothing DEF Holds, PtableLabels
      <3> QED BY <3>2, NoneTaken DEF IInv, LocksAccounted
    <2> QED BY <2>1, <2>2 DEF InterruptsOnlyUnlocked
  <1> QED BY <1>1, Invariance, PTL

(* A system call runs with interrupts off to its end, across sleeps. *)
THEOREM SyscallAtomicity == ASSUME ~Wild PROVE Spec => []SyscallKeepsIFOff
  <1>1. IInv => SyscallKeepsIFOff
    BY Names DEF IInv, TypeOK, ProcLabels, InterruptWindow, Open,
       SyscallKeepsIFOff
  <1> QED BY <1>1, Invariance, PTL

(* The CPU, the TSS and the page table belong to the one RUNNING process. *)
THEOREM Dispatch == ASSUME ~Wild PROVE Spec => []RunningIsCurrent
  <1>1. IInv => RunningIsCurrent
    BY Names DEF IInv, TypeOK, Parked, Current, RunningIsCurrent
  <1> QED BY <1>1, Invariance, PTL

(* A process off the CPU is inside sched() and holds no lock of its own. *)
THEOREM Parking == ASSUME ~Wild PROVE Spec => []ParkedHoldsNothing
  <1>1. IInv => ParkedHoldsNothing
    BY DEF IInv, Parked, OwnershipByLabel, OwnedAtLabel, ParkedHoldsNothing
  <1> QED BY <1>1, Invariance, PTL

(* A process has a channel exactly while it is inside sleep(). *)
THEOREM SleepChannels == ASSUME ~Wild PROVE Spec => []SleepersHaveChannel
  <1>1. IInv => SleepersHaveChannel
    BY DEF IInv
  <1> QED BY <1>1, Invariance, PTL
-----------------------------------------------------------------------------
(* Types, whatever the clients do *)

(* A panic keeps the types. *)
LEMMA PanicTypes ==
    ASSUME TypeOK, NEW m \in Messages, Panic(m)
    PROVE  TypeOK'
  BY DEF Panic, TypeOK

(* acquire and release panic with a message of their own. *)
LEMMA LockMessages ==
    ASSUME NEW l \in Locks
    PROVE  AcquireFault(l) \in Messages /\ ReleaseFault(l) \in Messages
  BY DEF AcquireFault, ReleaseFault, PopCliFault, Messages

(* acquire and release keep the types of the lock table and of the CPU. *)
LEMMA AcquireTypes ==
    ASSUME TypeOK, NEW l \in Locks, Acquire(l)
    PROVE  locked' \in [Locks -> BOOLEAN] /\ cpu' \in CpuState
  BY CpuType DEF Acquire, TypeOK

(* The same for release. *)
LEMMA ReleaseTypes ==
    ASSUME TypeOK, NEW l \in Locks, NEW c \in CpuState, ReleaseFrom(l, c)
    PROVE  locked' \in [Locks -> BOOLEAN] /\ cpu' \in CpuState
  BY CpuType DEF ReleaseFrom, TypeOK

(* The labels of the three kinds of thread. *)
PcType == /\ pc \in [Threads -> ProcLabels \cup SchedLabels \cup IrqLabels]
          /\ pc[Sched] \in SchedLabels /\ pc[Irq] \in IrqLabels
          /\ \A p \in Procs : pc[p] \in ProcLabels

(* A thread that moves to a label of its kind keeps the types of pc. *)
LEMMA GotoTypes ==
    ASSUME TypeOK, NEW t \in Threads, NEW label, Goto(t, label),
           t = Sched => label \in SchedLabels,
           t = Irq => label \in IrqLabels,
           t \in Procs => label \in ProcLabels
    PROVE  PcType'
  <1>1. label \in ProcLabels \cup SchedLabels \cup IrqLabels
    BY DEF Threads
  <1> QED BY <1>1, Names DEF Goto, TypeOK, PcType

(* The steps of boot and of the scheduler loop keep the types. *)
LEMMA SchedulerTypes ==
    ASSUME TypeOK,
           InitUser \/ InitUserFails \/ StartScheduler \/ SchedStep
    PROVE  TypeOK'
  <1> USE Names
  <1>0. /\ "sti" \in SchedLabels /\ "acquire" \in SchedLabels
        /\ "scan" \in SchedLabels /\ "switched" \in SchedLabels
        /\ Sti(cpu) \in CpuState
    BY CpuType DEF SchedLabels, TypeOK
  <1>1. CASE InitUser
    <2>1. PICK p \in Procs : state' = [state EXCEPT ![p] = "RUNNABLE"]
                             /\ Goto(p, "fork_ret")
      BY <1>1 DEF InitUser
    <2>2. PcType'
      BY <2>1, GotoTypes DEF ProcLabels
    <2>3. state' \in [Procs -> ProcState] /\ locked' \in [Locks -> BOOLEAN]
          /\ idx' \in Nat
      BY <1>1, <2>1 DEF InitUser, TypeOK, ProcState
    <2> QED BY <1>1, <2>2, <2>3 DEF InitUser, TypeOK, PcType
  <1>2. CASE InitUserFails
    BY <1>2, PanicTypes DEF InitUserFails, Messages
  <1>3. CASE StartScheduler
    <2>1. PcType'
      BY <1>0, <1>3, GotoTypes DEF StartScheduler
    <2> QED BY <1>0, <1>3, <2>1 DEF StartScheduler, TypeOK, PcType
  <1>4. CASE SchedSti
    <2>1. PcType'
      BY <1>0, <1>4, GotoTypes DEF SchedSti
    <2> QED BY <1>0, <1>4, <2>1 DEF SchedSti, TypeOK, PcType
  <1>5. CASE SchedAcquire
    <2>1. CASE AcquireFault(Ptable) # ""
      BY <1>5, <2>1, LockMessages, PanicTypes DEF SchedAcquire
    <2>2. CASE AcquireFault(Ptable) = ""
      <3>1. Acquire(Ptable) /\ Goto(Sched, "scan") /\ idx' = 0
            /\ UNCHANGED <<state, chan, cproc, cr3, esp0, svint, cur, arg,
                           slk, own, halt>>
        BY <1>5, <2>2 DEF SchedAcquire
      <3>2. PcType'
        BY <1>0, <3>1, GotoTypes
      <3> QED BY <3>1, <3>2, AcquireTypes DEF TypeOK, PcType
    <2> QED BY <2>1, <2>2
  <1>6. CASE SchedSkip
    BY <1>6 DEF SchedSkip, TypeOK
  <1>7. CASE SchedSwitch
    <2>1. idx \in Procs
      BY <1>7, SlotIndex DEF SchedSwitch, TypeOK
    <2>2. PcType'
      BY <1>0, <1>7, GotoTypes DEF SchedSwitch
    <2> QED BY <1>7, <2>1, <2>2 DEF SchedSwitch, TypeOK, PcType, ProcState
  <1>8. CASE SchedBack
    <2>1. PcType'
      BY <1>0, <1>8, GotoTypes DEF SchedBack
    <2> QED BY <1>8, <2>1 DEF SchedBack, TypeOK, PcType
  <1>9. CASE SchedRelease
    <2>1. CASE ReleaseFault(Ptable) # ""
      BY <1>9, <2>1, LockMessages, PanicTypes DEF SchedRelease
    <2>2. CASE ReleaseFault(Ptable) = ""
      <3>1. ReleaseFrom(Ptable, cpu) /\ Goto(Sched, "sti") /\ idx' = 0
            /\ UNCHANGED <<state, chan, cproc, cr3, esp0, svint, cur, arg,
                           slk, own, halt>>
        BY <1>9, <2>2 DEF SchedRelease
      <3>2. PcType' /\ cpu \in CpuState
        BY <1>0, <3>1, GotoTypes DEF TypeOK
      <3> QED BY <3>1, <3>2, ReleaseTypes DEF TypeOK, PcType
    <2> QED BY <2>1, <2>2
  <1> QED
    BY <1>1, <1>2, <1>3, <1>4, <1>5, <1>6, <1>7, <1>8, <1>9 DEF SchedStep

(* sched() keeps them, from any caller. *)
LEMMA SchedTypes ==
    ASSUME TypeOK, NEW p \in Procs, NEW s \in ProcState,
           NEW label \in ProcLabels, NEW c \in CpuState,
           CallSched(p, s, label, c)
    PROVE  /\ state' \in [Procs -> ProcState] /\ cpu' \in CpuState
           /\ svint' \in [Procs -> BOOLEAN] /\ cur' \in Procs \cup {Sched}
           /\ halt' \in Messages
           /\ pc' \in [Threads -> ProcLabels \cup SchedLabels \cup IrqLabels]
           /\ pc'[Sched] = pc[Sched] /\ pc'[Irq] = pc[Irq]
           /\ \A q \in Procs : pc'[q] \in ProcLabels
  <1>1. state' \in [Procs -> ProcState] /\ cpu' \in CpuState
    BY DEF CallSched, TypeOK
  <1>2. CASE SchedFault(s, c) # ""
    <2>1. halt' = SchedFault(s, c) /\ UNCHANGED <<svint, cur, pc>>
      BY <1>2 DEF CallSched
    <2>2. SchedFault(s, c) \in Messages
      BY DEF SchedFault, Messages
    <2> QED BY <1>1, <2>1, <2>2 DEF TypeOK
  <1>3. CASE SchedFault(s, c) = ""
    <2>1. svint' = [svint EXCEPT ![p] = c.intena] /\ cur' = Sched
          /\ Goto(p, label) /\ halt' = halt
      BY <1>3 DEF CallSched
    <2>2. c.intena \in BOOLEAN
      BY DEF CpuState
    <2>3. svint' \in [Procs -> BOOLEAN]
      BY <2>1, <2>2 DEF TypeOK
    <2>4. pc' \in [Threads -> ProcLabels \cup SchedLabels \cup IrqLabels]
          /\ pc'[Sched] = pc[Sched] /\ pc'[Irq] = pc[Irq]
          /\ \A q \in Procs : pc'[q] \in ProcLabels
      BY <2>1, Names DEF Goto, TypeOK
    <2> QED BY <1>1, <2>1, <2>3, <2>4 DEF TypeOK
  <1> QED BY <1>1, <1>2, <1>3

(* The CPU state that a process resumes with is well formed. *)
LEMMA RestoredType ==
    ASSUME TypeOK, NEW p \in Procs
    PROVE  /\ Restored(p) \in CpuState /\ Restored(p).ncli = cpu.ncli
           /\ PopCli(Restored(p)) \in CpuState
  <1>1. Restored(p) \in CpuState /\ Restored(p).ncli = cpu.ncli
    BY DEF Restored, CpuState, TypeOK
  <1> QED BY <1>1, CpuType

(* The steps of a process keep the types. *)
LEMMA ProcessTypes ==
    ASSUME TypeOK, NEW p \in Procs, ProcStep(p)
    PROVE  TypeOK'
  <1> USE Names
  <1>0. /\ p \in Threads /\ p # Sched /\ p # Irq
        /\ {"trap_ret", "user", "kern", "yield", "yielded", "sleep_rel",
            "sleep_sched", "slept", "sleep_acq"} \subseteq ProcLabels
        /\ {"ZOMBIE", "RUNNABLE", "SLEEPING"} \subseteq ProcState
        /\ cpu \in CpuState /\ Sti(cpu) \in CpuState /\ Cli(cpu) \in CpuState
    BY CpuType DEF ProcLabels, ProcState, TypeOK
  <1>1. ASSUME NEW label \in ProcLabels, Goto(p, label) PROVE PcType'
    BY <1>0, <1>1, GotoTypes
  <1>2. CASE ForkRet(p)
    <2>1. CASE ReleaseFault(Ptable) # ""
      BY <1>2, <2>1, LockMessages, PanicTypes DEF ForkRet
    <2>2. CASE ReleaseFault(Ptable) = ""
      <3>1. ReleaseFrom(Ptable, cpu) /\ Goto(p, "trap_ret")
            /\ UNCHANGED <<state, chan, cproc, cr3, esp0, svint, cur, idx, arg,
                           slk, own, halt>>
        BY <1>2, <2>2 DEF ForkRet
      <3>2. PcType' /\ locked' \in [Locks -> BOOLEAN] /\ cpu' \in CpuState
        BY <1>0, <1>1, <3>1, ReleaseTypes
      <3> QED BY <3>1, <3>2 DEF TypeOK, PcType
    <2> QED BY <2>1, <2>2
  <1>3. CASE TrapRet(p) \/ Syscall(p) \/ SyscallReturn(p)
    <2>1. PcType' /\ cpu' \in CpuState
      BY <1>0, <1>1, <1>3 DEF TrapRet, Syscall, SyscallReturn
    <2> QED BY <1>3, <2>1 DEF TrapRet, Syscall, SyscallReturn, TypeOK, PcType
  <1>4. CASE SyscallExit(p)
    <2>1. CallSched(p, "ZOMBIE", "kern", Cli(cpu))
          /\ UNCHANGED <<chan, cproc, cr3, esp0, locked, idx, arg, slk, own>>
      BY <1>4 DEF SyscallExit
    <2> QED BY <1>0, <2>1, SchedTypes DEF TypeOK
  <1>5. CASE YieldAcquire(p)
    <2>1. CASE AcquireFault(Ptable) # ""
      BY <1>5, <2>1, LockMessages, PanicTypes DEF YieldAcquire
    <2>2. CASE AcquireFault(Ptable) = ""
      <3>1. Acquire(Ptable) /\ Goto(p, "yield")
            /\ UNCHANGED <<state, chan, cproc, cr3, esp0, svint, cur, idx, arg,
                           slk, own, halt>>
        BY <1>5, <2>2 DEF YieldAcquire
      <3>2. PcType' /\ locked' \in [Locks -> BOOLEAN] /\ cpu' \in CpuState
        BY <1>0, <1>1, <3>1, AcquireTypes
      <3> QED BY <3>1, <3>2 DEF TypeOK, PcType
    <2> QED BY <2>1, <2>2
  <1>6. CASE YieldSched(p)
    <2>1. CallSched(p, "RUNNABLE", "yielded", cpu)
          /\ UNCHANGED <<chan, cproc, cr3, esp0, locked, idx, arg, slk, own>>
      BY <1>6 DEF YieldSched
    <2> QED BY <1>0, <2>1, SchedTypes DEF TypeOK
  <1>7. CASE YieldReturn(p)
    <2>1. svint' \in [Procs -> BOOLEAN]
      BY <1>7 DEF YieldReturn, ForgetSaved, TypeOK
    <2>2. PcType' /\ locked' \in [Locks -> BOOLEAN] /\ cpu' \in CpuState
          /\ halt' \in Messages
      <3>1. CASE ReleaseFault(Ptable) # ""
        BY <1>7, <3>1, LockMessages DEF YieldReturn, TypeOK, PcType
      <3>2. CASE ReleaseFault(Ptable) = ""
        <4>1. ReleaseFrom(Ptable, Restored(p)) /\ Goto(p, "kern") /\ halt' = halt
          BY <1>7, <3>2 DEF YieldReturn
        <4> QED BY <1>0, <1>1, <4>1, RestoredType, ReleaseTypes DEF TypeOK
      <3> QED BY <3>1, <3>2
    <2> QED BY <1>7, <2>1, <2>2 DEF YieldReturn, TypeOK, PcType
  <1>8. ASSUME NEW c \in Chans, NEW lk \in Locks, SleepEnter(p, c, lk)
        PROVE  TypeOK'
    <2>1. arg' \in [Threads -> Chans \cup {NoChan}] /\ slk' \in [Procs -> Locks]
      BY <1>8 DEF SleepEnter, TypeOK
    <2>2. PcType' /\ locked' \in [Locks -> BOOLEAN] /\ cpu' \in CpuState
          /\ halt' \in Messages
      <3>1. CASE halt' = "sleep" /\ UNCHANGED <<locked, cpu, pc>>
        BY <3>1 DEF TypeOK, PcType, Messages
      <3>2. CASE Goto(p, "sleep_sched") /\ UNCHANGED <<locked, cpu, halt>>
        BY <1>0, <1>1, <3>2 DEF TypeOK
      <3>3. CASE halt' = AcquireFault(Ptable) /\ UNCHANGED <<locked, cpu, pc>>
        BY <3>3, LockMessages DEF TypeOK, PcType
      <3>4. CASE Acquire(Ptable) /\ Goto(p, "sleep_rel") /\ UNCHANGED halt
        BY <1>0, <1>1, <3>4, AcquireTypes DEF TypeOK
      <3> QED BY <1>8, <3>1, <3>2, <3>3, <3>4 DEF SleepEnter
    <2> QED BY <1>8, <2>1, <2>2 DEF SleepEnter, TypeOK, PcType
  <1>9. CASE SleepRelease(p)
    <2>0. slk[p] \in Locks
      BY DEF TypeOK
    <2>1. CASE ReleaseFault(slk[p]) # ""
      BY <1>9, <2>0, <2>1, LockMessages, PanicTypes DEF SleepRelease
    <2>2. CASE ReleaseFault(slk[p]) = ""
      <3>1. ReleaseFrom(slk[p], cpu) /\ Goto(p, "sleep_sched")
            /\ own' = [own EXCEPT ![p] = @ \ {slk[p]}]
            /\ UNCHANGED <<state, chan, cproc, cr3, esp0, svint, cur, idx, arg,
                           slk, halt>>
        BY <1>9, <2>2 DEF SleepRelease
      <3>2. PcType' /\ locked' \in [Locks -> BOOLEAN] /\ cpu' \in CpuState
        BY <1>0, <1>1, <2>0, <3>1, ReleaseTypes
      <3>3. own' \in [Threads -> SUBSET Locks]
        BY <3>1 DEF TypeOK
      <3> QED BY <3>1, <3>2, <3>3 DEF TypeOK, PcType
    <2> QED BY <2>1, <2>2
  <1>10. CASE SleepSched(p)
    <2>1. CallSched(p, "SLEEPING", "slept", cpu)
          /\ UNCHANGED <<cproc, cr3, esp0, locked, idx, slk, own>>
      BY <1>10 DEF SleepSched
    <2>2. chan' \in [Procs -> Chans \cup {NoChan}]
          /\ arg' \in [Threads -> Chans \cup {NoChan}]
      BY <1>10 DEF SleepSched, TypeOK
    <2> QED BY <1>0, <2>1, <2>2, SchedTypes DEF TypeOK
  <1>11. CASE SleepResume(p)
    <2>1. svint' \in [Procs -> BOOLEAN] /\ chan' \in [Procs -> Chans \cup {NoChan}]
      BY <1>11 DEF SleepResume, ForgetSaved, TypeOK
    <2>2. PcType' /\ locked' \in [Locks -> BOOLEAN] /\ cpu' \in CpuState
          /\ halt' \in Messages
      <3>1. CASE cpu' = Restored(p) /\ Goto(p, "kern") /\ UNCHANGED <<locked, halt>>
        BY <1>0, <1>1, <3>1, RestoredType DEF TypeOK
      <3>2. CASE halt' = ReleaseFault(Ptable) /\ UNCHANGED <<locked, cpu, pc>>
        BY <3>2, LockMessages DEF TypeOK, PcType
      <3>3. CASE ReleaseFrom(Ptable, Restored(p)) /\ Goto(p, "sleep_acq")
                 /\ UNCHANGED halt
        BY <1>0, <1>1, <3>3, RestoredType, ReleaseTypes DEF TypeOK
      <3> QED BY <1>11, <3>1, <3>2, <3>3 DEF SleepResume
    <2> QED BY <1>11, <2>1, <2>2 DEF SleepResume, TypeOK, PcType
  <1>12. CASE SleepReacquire(p)
    <2>0. slk[p] \in Locks
      BY DEF TypeOK
    <2>1. CASE AcquireFault(slk[p]) # ""
      BY <1>12, <2>0, <2>1, LockMessages, PanicTypes DEF SleepReacquire
    <2>2. CASE AcquireFault(slk[p]) = ""
      <3>1. Acquire(slk[p]) /\ Goto(p, "kern")
            /\ own' = [own EXCEPT ![p] = @ \cup {slk[p]}]
            /\ slk' = [slk EXCEPT ![p] = Ptable]
            /\ UNCHANGED <<state, chan, cproc, cr3, esp0, svint, cur, idx, arg,
                           halt>>
        BY <1>12, <2>2 DEF SleepReacquire
      <3>2. PcType' /\ locked' \in [Locks -> BOOLEAN] /\ cpu' \in CpuState
        BY <1>0, <1>1, <2>0, <3>1, AcquireTypes
      <3>3. own' \in [Threads -> SUBSET Locks] /\ slk' \in [Procs -> Locks]
        BY <2>0, <3>1 DEF TypeOK
      <3> QED BY <3>1, <3>2, <3>3 DEF TypeOK, PcType
    <2> QED BY <2>1, <2>2
  <1> QED
    BY <1>2, <1>3, <1>4, <1>5, <1>6, <1>7, <1>8, <1>9, <1>10, <1>11, <1>12
       DEF ProcStep

(* So do the steps of any client and of the interrupt logic. *)
LEMMA ClientTypes ==
    ASSUME TypeOK,
           \/ \E t \in Procs \cup {Irq} : ClientStep(t)
           \/ Interrupt \/ InterruptReturn
    PROVE  TypeOK'
  <1> USE Names
  <1>1. ASSUME NEW t \in Procs \cup {Irq}, NEW l \in Locks, ClientAcquire(t, l)
        PROVE  TypeOK'
    <2>1. CASE AcquireFault(l) # ""
      BY <1>1, <2>1, LockMessages, PanicTypes DEF ClientAcquire
    <2>2. CASE AcquireFault(l) = ""
      <3>1. Acquire(l) /\ own' = [own EXCEPT ![t] = @ \cup {l}]
            /\ UNCHANGED <<state, chan, cproc, cr3, esp0, svint, cur, pc, idx,
                           arg, slk, halt>>
        BY <1>1, <2>2 DEF ClientAcquire
      <3>2. own' \in [Threads -> SUBSET Locks]
        BY <3>1 DEF TypeOK
      <3> QED BY <3>1, <3>2, AcquireTypes DEF TypeOK
    <2> QED BY <2>1, <2>2
  <1>2. ASSUME NEW t \in Procs \cup {Irq}, NEW l \in Locks, ClientRelease(t, l)
        PROVE  TypeOK'
    <2>1. CASE ReleaseFault(l) # ""
      BY <1>2, <2>1, LockMessages, PanicTypes DEF ClientRelease
    <2>2. CASE ReleaseFault(l) = ""
      <3>1. ReleaseFrom(l, cpu) /\ own' = [own EXCEPT ![t] = @ \ {l}]
            /\ UNCHANGED <<state, chan, cproc, cr3, esp0, svint, cur, pc, idx,
                           arg, slk, halt>>
        BY <1>2, <2>2 DEF ClientRelease
      <3>2. own' \in [Threads -> SUBSET Locks] /\ cpu \in CpuState
        BY <3>1 DEF TypeOK
      <3> QED BY <3>1, <3>2, ReleaseTypes DEF TypeOK
    <2> QED BY <2>1, <2>2
  <1>3. ASSUME NEW t \in Procs \cup {Irq}, NEW c \in Chans, WakeupAcquire(t, c)
        PROVE  TypeOK'
    <2>1. CASE AcquireFault(Ptable) # ""
      BY <1>3, <2>1, LockMessages, PanicTypes DEF WakeupAcquire
    <2>2. CASE AcquireFault(Ptable) = ""
      <3>1. Acquire(Ptable) /\ arg' = [arg EXCEPT ![t] = c] /\ Goto(t, "wake")
            /\ UNCHANGED <<state, chan, cproc, cr3, esp0, svint, cur, idx, slk,
                           own, halt>>
        BY <1>3, <2>2 DEF WakeupAcquire
      <3>2. arg' \in [Threads -> Chans \cup {NoChan}]
        BY <3>1 DEF TypeOK
      <3>3. PcType'
        BY <3>1, GotoTypes DEF ProcLabels, IrqLabels
      <3> QED BY <3>1, <3>2, <3>3, AcquireTypes DEF TypeOK, PcType
    <2> QED BY <2>1, <2>2
  <1>4. ASSUME NEW t \in Procs \cup {Irq}, WakeupScan(t)
        PROVE  TypeOK'
    <2>1. state' \in [Procs -> ProcState] /\ arg' \in [Threads -> Chans \cup {NoChan}]
      BY <1>4 DEF WakeupScan, TypeOK, ProcState
    <2>2. PcType' /\ locked' \in [Locks -> BOOLEAN] /\ cpu' \in CpuState
          /\ halt' \in Messages
      <3>1. CASE ReleaseFault(Ptable) # ""
        BY <1>4, <3>1, LockMessages DEF WakeupScan, TypeOK, PcType
      <3>2. CASE ReleaseFault(Ptable) = ""
        <4>1. ReleaseFrom(Ptable, cpu) /\ Goto(t, "kern") /\ halt' = halt
          BY <1>4, <3>2 DEF WakeupScan
        <4>2. PcType' /\ cpu \in CpuState
          BY <4>1, GotoTypes DEF ProcLabels, IrqLabels, TypeOK
        <4> QED BY <4>1, <4>2, ReleaseTypes DEF TypeOK
      <3> QED BY <3>1, <3>2
    <2> QED BY <1>4, <2>1, <2>2 DEF WakeupScan, TypeOK, PcType
  <1>5. CASE Interrupt \/ InterruptReturn
    <2>1. PcType' /\ cpu' \in CpuState
      BY <1>5, CpuType, GotoTypes DEF Interrupt, InterruptReturn, IrqLabels, TypeOK
    <2> QED BY <1>5, <2>1 DEF Interrupt, InterruptReturn, TypeOK, PcType
  <1> QED BY <1>1, <1>2, <1>3, <1>4, <1>5 DEF ClientStep

(* Every step keeps the types. *)
LEMMA NextTypes == ASSUME TypeOK, [Next]_vars PROVE TypeOK'
  <1>1. CASE UNCHANGED vars
    BY <1>1 DEF vars, TypeOK
  <1> QED
    BY <1>1, SchedulerTypes, ProcessTypes, ClientTypes DEF Next, Halted

-----------------------------------------------------------------------------
(* Context switches, whatever the clients do *)

(* The action of SwitchOnlyUnderPtable. *)
SwitchRule ==
    cur' # cur =>
        /\ {l \in Locks : locked'[l]} = {Ptable}
        /\ cpu'.ncli = 1 /\ ~cpu'.if
        /\ cur \in Procs => state'[cur] # "RUNNING"

(* What a step must show: the invariant, unless it panics, and the rule. *)
SwitchSafe == (halt' = "" => SwitchLocks') /\ SwitchRule

(* Who may take a step. *)
LEMMA WhoRuns ==
    ASSUME NEW t \in Threads, NEW label, At(t, label)
    PROVE  /\ halt = "" /\ pc[t] = label
           /\ t # Irq => cur = t /\ pc[Irq] = "off"
           /\ t = Irq => pc[Irq] # "off"
  BY DEF At, Running

(* A step of which the scheduler takes no notice: a process has the CPU    *)
(* and keeps it.                                                           *)
LEMMA ProcessKeepsCpu ==
    ASSUME TypeOK, SwitchLocks, cur \in Procs, UNCHANGED <<cur, cproc>>,
           pc'[Sched] = pc[Sched],
           pc'[Irq] = "off" => own'[Irq] = {}, Ptable \notin own'[Irq],
           halt' = "" => cpu'.ncli = Cardinality(Taken')
    PROVE  SwitchSafe
  BY Names DEF SwitchSafe, SwitchRule, SwitchLocks

(* A panic moves nobody. *)
LEMMA PanicSafe ==
    ASSUME NEW m, m # "", Panic(m)
    PROVE  SwitchSafe
  BY DEF Panic, SwitchSafe, SwitchRule

(* sched() leaves only with ptable.lock as the single lock: its count of   *)
(* one is the count of the taken locks, and ptable.lock is one of them.    *)
LEMMA SchedLeaves ==
    ASSUME TypeOK, SwitchLocks, NEW p \in Procs, cur = p, pc[Irq] = "off",
           NEW s, NEW label, NEW c \in CpuState, c.ncli = cpu.ncli,
           CallSched(p, s, label, c), UNCHANGED <<cproc, locked, own>>
    PROVE  SwitchSafe
  <1>1. CASE SchedFault(s, c) # ""
    <2>1. halt' # "" /\ UNCHANGED cur
      BY <1>1 DEF CallSched
    <2> QED BY <2>1 DEF SwitchSafe, SwitchRule
  <1>2. CASE SchedFault(s, c) = ""
    <2>1. locked[Ptable] /\ c.ncli = 1 /\ s # "RUNNING" /\ ~c.if
      BY <1>2 DEF SchedFault
    <2>2. cpu' = c /\ cur' = Sched /\ Goto(p, label) /\ state' = [state EXCEPT ![cproc] = s]
      BY <1>2 DEF CallSched
    <2>3. Taken' = Taken /\ Ptable \in Taken
      BY <2>1, Names DEF Taken
    <2>4. Cardinality(Taken) = 1
      BY <2>1 DEF SwitchLocks
    <2>5. Taken = {Ptable}
      <3>1. Cardinality(Taken \ {Ptable}) = Cardinality(Taken) - 1
        BY <2>3, TakenFinite, FS_RemoveElement
      <3>2. IsFiniteSet(Taken \ {Ptable})
        BY TakenFinite, FS_Subset
      <3>3. Taken \ {Ptable} = {}
        BY <2>4, <3>1, <3>2, FS_EmptySet
      <3> QED BY <2>3, <3>3
    <2>6. state'[p] # "RUNNING"
      <3>1. cproc = p
        BY DEF SwitchLocks
      <3> QED BY <2>1, <2>2, <3>1 DEF TypeOK
    <2>7. pc'[Sched] = "switched" /\ pc'[Irq] = "off"
      BY <2>2, GotoMoves, Names DEF SwitchLocks
    <2>8. SwitchLocks'
      <3>1. SchedulerLocks'
        BY <2>1, <2>2, <2>3, <2>5, <2>7 DEF SchedulerLocks
      <3>2. cpu'.ncli = Cardinality(Taken')
        BY <2>1, <2>2, <2>3, <2>4
      <3> QED BY <2>2, <2>7, <3>1, <3>2, Names DEF SwitchLocks
    <2>9. SwitchRule
      BY <2>1, <2>2, <2>3, <2>5, <2>6 DEF SwitchRule, Taken
    <2> QED BY <2>8, <2>9 DEF SwitchSafe
  <1> QED BY <1>1, <1>2

(* acquire and release that went through keep ncli in step. *)
LEMMA AcquireKeepsCount ==
    ASSUME TypeOK, SwitchLocks, NEW l \in Locks, AcquireFault(l) = "", Acquire(l)
    PROVE  /\ cpu'.ncli = Cardinality(Taken') /\ ~cpu'.if
           /\ Taken' = Taken \cup {l} /\ l \notin Taken
  <1>1. ~locked[l]
    BY DEF AcquireFault
  <1>2. cpu'.ncli = Cardinality(Taken')
    BY <1>1, AcquireCounts DEF SwitchLocks
  <1>3. ~cpu'.if
    BY DEF Acquire, PushCli
  <1>4. Taken' = Taken \cup {l} /\ l \notin Taken
    BY <1>1 DEF Taken, Acquire, TypeOK
  <1> QED BY <1>2, <1>3, <1>4

(* The same for release. *)
LEMMA ReleaseKeepsCount ==
    ASSUME TypeOK, SwitchLocks, NEW l \in Locks, ReleaseFault(l) = "",
           NEW c \in CpuState, c.ncli = cpu.ncli, ReleaseFrom(l, c)
    PROVE  cpu'.ncli = Cardinality(Taken') /\ Taken' = Taken \ {l}
  <1>1. locked[l]
    BY DEF ReleaseFault
  <1>2. cpu'.ncli = Cardinality(Taken')
    BY <1>1, ReleaseCounts DEF SwitchLocks
  <1>3. Taken' = Taken \ {l}
    BY DEF Taken, ReleaseFrom, TypeOK
  <1> QED BY <1>2, <1>3

(* Boot and the scheduler loop: ptable.lock is taken for the scan, and     *)
(* goes to the process it picks.                                           *)
LEMMA SchedulerSwitches ==
    ASSUME TypeOK, SwitchLocks,
           InitUser \/ InitUserFails \/ StartScheduler \/ SchedStep
    PROVE  SwitchSafe
  <1> USE Names
  <1>1. CASE InitUser
    <2>1. cur = Sched /\ pc[Sched] = "init_user" /\ pc[Irq] = "off"
      BY <1>1, WhoRuns DEF InitUser
    <2>2. Taken = {}
      BY <2>1 DEF SwitchLocks, SchedulerLocks, HandlerLocks
    <2>3. locked' = [locked EXCEPT ![Ptable] = FALSE]
          /\ UNCHANGED <<cproc, cpu, cur, own>>
      BY <1>1 DEF InitUser
    <2>4. Taken' = {}
      BY <2>2, <2>3 DEF Taken, TypeOK
    <2>5. PICK p \in Procs : Goto(p, "fork_ret")
      BY <1>1 DEF InitUser
    <2>6. pc'[Sched] = "init_user" /\ pc'[Irq] = "off"
      BY <2>1, <2>5, GotoMoves
    <2> QED
      BY <2>1, <2>2, <2>3, <2>4, <2>6
         DEF SwitchSafe, SwitchRule, SwitchLocks, SchedulerLocks, HandlerLocks
  <1>2. CASE InitUserFails
    BY <1>2, PanicSafe DEF InitUserFails
  <1>3. CASE StartScheduler
    <2>1. cur = Sched /\ pc[Sched] = "init_user" /\ pc[Irq] = "off"
      BY <1>3, WhoRuns DEF StartScheduler
    <2>2. cpu' = Sti(cpu) /\ Goto(Sched, "sti") /\ UNCHANGED <<cur, locked, own>>
      BY <1>3 DEF StartScheduler
    <2>3. cpu'.ncli = cpu.ncli /\ Taken' = Taken
      BY <2>2, CpuType DEF Taken, TypeOK
    <2>4. pc'[Sched] = "sti" /\ pc'[Irq] = "off"
      BY <2>1, <2>2, GotoMoves
    <2> QED
      BY <2>1, <2>2, <2>3, <2>4
         DEF SwitchSafe, SwitchRule, SwitchLocks, SchedulerLocks, HandlerLocks
  <1>4. CASE SchedSti
    <2>1. cur = Sched /\ pc[Sched] = "sti" /\ pc[Irq] = "off"
      BY <1>4, WhoRuns DEF SchedSti
    <2>2. cpu' = Sti(cpu) /\ Goto(Sched, "acquire") /\ UNCHANGED <<cur, locked, own>>
      BY <1>4 DEF SchedSti
    <2>3. cpu'.ncli = cpu.ncli /\ Taken' = Taken
      BY <2>2, CpuType DEF Taken, TypeOK
    <2>4. pc'[Sched] = "acquire" /\ pc'[Irq] = "off"
      BY <2>1, <2>2, GotoMoves
    <2> QED
      BY <2>1, <2>2, <2>3, <2>4
         DEF SwitchSafe, SwitchRule, SwitchLocks, SchedulerLocks, HandlerLocks
  <1>5. CASE SchedAcquire
    <2>1. cur = Sched /\ pc[Sched] = "acquire" /\ pc[Irq] = "off"
      BY <1>5, WhoRuns DEF SchedAcquire
    <2>2. CASE AcquireFault(Ptable) # ""
      BY <1>5, <2>2, PanicSafe DEF SchedAcquire
    <2>3. CASE AcquireFault(Ptable) = ""
      <3>1. Acquire(Ptable) /\ Goto(Sched, "scan") /\ UNCHANGED <<cur, own>>
        BY <1>5, <2>3 DEF SchedAcquire
      <3>2. pc'[Sched] = "scan" /\ pc'[Irq] = "off"
        BY <2>1, <3>1, GotoMoves
      <3>3. Taken = {}
        BY <2>1 DEF SwitchLocks, SchedulerLocks, HandlerLocks
      <3>4. Taken' = {Ptable} /\ cpu'.ncli = Cardinality(Taken') /\ ~cpu'.if
        BY <2>3, <3>1, <3>3, AcquireKeepsCount
      <3> QED
        BY <2>1, <3>1, <3>2, <3>4
           DEF SwitchSafe, SwitchRule, SwitchLocks, SchedulerLocks
    <2> QED BY <2>2, <2>3
  <1>6. CASE SchedSkip
    <2>1. UNCHANGED <<cproc, locked, cpu, cur, pc, own>>
      BY <1>6 DEF SchedSkip
    <2>2. Taken' = Taken
      BY <2>1 DEF Taken
    <2> QED
      BY <2>1, <2>2
         DEF SwitchSafe, SwitchRule, SwitchLocks, SchedulerLocks, HandlerLocks
  <1>7. CASE SchedSwitch
    <2>1. cur = Sched /\ pc[Sched] = "scan" /\ pc[Irq] = "off"
      BY <1>7, WhoRuns DEF SchedSwitch
    <2>2. idx \in Procs
      BY <1>7, SlotIndex DEF SchedSwitch, TypeOK
    <2>3. cproc' = idx /\ cur' = idx /\ Goto(Sched, "switched")
          /\ UNCHANGED <<locked, cpu, own>>
      BY <1>7 DEF SchedSwitch
    <2>4. pc'[Sched] = "switched" /\ pc'[Irq] = "off"
      BY <2>1, <2>3, GotoMoves
    <2>5. Taken = {Ptable} /\ ~cpu.if /\ Taken' = Taken
      BY <2>1, <2>3 DEF SwitchLocks, SchedulerLocks, Taken
    <2>6. cpu.ncli = 1
      BY <2>5, FS_Singleton DEF SwitchLocks
    <2>7. SwitchLocks'
      BY <2>1, <2>2, <2>3, <2>4, <2>5 DEF SwitchLocks
    <2>8. SwitchRule
      BY <2>1, <2>3, <2>5, <2>6 DEF SwitchRule, Taken
    <2> QED BY <2>7, <2>8 DEF SwitchSafe
  <1>8. CASE SchedBack
    <2>1. cur = Sched /\ pc[Sched] = "switched" /\ pc[Irq] = "off"
      BY <1>8, WhoRuns DEF SchedBack
    <2>2. Goto(Sched, "scan") /\ UNCHANGED <<locked, cpu, cur, own>>
      BY <1>8 DEF SchedBack
    <2>3. pc'[Sched] = "scan" /\ pc'[Irq] = "off" /\ Taken' = Taken
      BY <2>1, <2>2, GotoMoves DEF Taken
    <2> QED
      BY <2>1, <2>2, <2>3 DEF SwitchSafe, SwitchRule, SwitchLocks, SchedulerLocks
  <1>9. CASE SchedRelease
    <2>1. cur = Sched /\ pc[Sched] = "scan" /\ pc[Irq] = "off"
      BY <1>9, WhoRuns DEF SchedRelease
    <2>2. CASE ReleaseFault(Ptable) # ""
      BY <1>9, <2>2, PanicSafe DEF SchedRelease
    <2>3. CASE ReleaseFault(Ptable) = ""
      <3>1. ReleaseFrom(Ptable, cpu) /\ Goto(Sched, "sti") /\ UNCHANGED <<cur, own>>
        BY <1>9, <2>3 DEF SchedRelease
      <3>2. pc'[Sched] = "sti" /\ pc'[Irq] = "off"
        BY <2>1, <3>1, GotoMoves
      <3>3. Taken = {Ptable} /\ cpu \in CpuState
        BY <2>1 DEF SwitchLocks, SchedulerLocks, TypeOK
      <3>4. Taken' = {} /\ cpu'.ncli = Cardinality(Taken')
        BY <2>3, <3>1, <3>3, ReleaseKeepsCount
      <3> QED
        BY <2>1, <3>1, <3>2, <3>4
           DEF SwitchSafe, SwitchRule, SwitchLocks, SchedulerLocks, HandlerLocks
    <2> QED BY <2>2, <2>3
  <1> QED
    BY <1>1, <1>2, <1>3, <1>4, <1>5, <1>6, <1>7, <1>8, <1>9 DEF SchedStep

(* A process: it leaves the CPU through sched() alone. *)
LEMMA ProcessSwitches ==
    ASSUME TypeOK, SwitchLocks, NEW p \in Procs, ProcStep(p)
    PROVE  SwitchSafe
  <1> USE Names
  <1>1. cur = p /\ pc[Irq] = "off"
    BY WhoRuns DEF ProcStep, ForkRet, TrapRet, Syscall, SyscallExit,
       SyscallReturn, YieldAcquire, YieldSched, YieldReturn, SleepEnter,
       SleepRelease, SleepSched, SleepResume, SleepReacquire
  <1>2. p \in Threads /\ p # Sched /\ p # Irq /\ own[Irq] = {}
        /\ cpu \in CpuState /\ Cli(cpu) \in CpuState /\ Cli(cpu).ncli = cpu.ncli
        /\ Sti(cpu).ncli = cpu.ncli /\ slk[p] \in Locks
    BY <1>1, CpuType DEF SwitchLocks, TypeOK
  <1>3. ASSUME UNCHANGED <<cur, cproc>>,
               \/ pc' = pc
               \/ \E label \in ProcLabels : Goto(p, label),
               own'[Irq] = own[Irq],
               halt' = "" => cpu'.ncli = Cardinality(Taken')
        PROVE  SwitchSafe
    <2>1. pc'[Sched] = pc[Sched]
      BY <1>2, <1>3, GotoMoves
    <2> QED BY <1>1, <1>2, <1>3, <2>1, ProcessKeepsCpu
  <1>4. {"trap_ret", "user", "kern", "yield", "sleep_rel", "sleep_sched",
         "sleep_acq"} \subseteq ProcLabels
    BY DEF ProcLabels
  <1>5. CASE ForkRet(p)
    <2>1. CASE ReleaseFault(Ptable) # ""
      BY <1>5, <2>1, PanicSafe DEF ForkRet
    <2>2. CASE ReleaseFault(Ptable) = ""
      <3>1. ReleaseFrom(Ptable, cpu) /\ Goto(p, "trap_ret")
            /\ UNCHANGED <<cproc, cur, own>>
        BY <1>5, <2>2 DEF ForkRet
      <3>2. cpu'.ncli = Cardinality(Taken')
        BY <1>2, <2>2, <3>1, ReleaseKeepsCount
      <3> QED BY <1>3, <1>4, <3>1, <3>2
    <2> QED BY <2>1, <2>2
  <1>6. CASE TrapRet(p) \/ Syscall(p) \/ SyscallReturn(p)
    <2>1. UNCHANGED <<cproc, locked, cur, own>> /\ cpu'.ncli = cpu.ncli
          /\ \E label \in ProcLabels : Goto(p, label)
      BY <1>2, <1>4, <1>6 DEF TrapRet, Syscall, SyscallReturn
    <2>2. Taken' = Taken
      BY <2>1 DEF Taken
    <2> QED BY <1>3, <2>1, <2>2 DEF SwitchLocks
  <1>7. CASE SyscallExit(p)
    BY <1>1, <1>2, <1>7, SchedLeaves DEF SyscallExit
  <1>8. CASE YieldAcquire(p)
    <2>1. CASE AcquireFault(Ptable) # ""
      BY <1>8, <2>1, PanicSafe DEF YieldAcquire
    <2>2. CASE AcquireFault(Ptable) = ""
      <3>1. Acquire(Ptable) /\ Goto(p, "yield") /\ UNCHANGED <<cproc, cur, own>>
        BY <1>8, <2>2 DEF YieldAcquire
      <3>2. cpu'.ncli = Cardinality(Taken')
        BY <2>2, <3>1, AcquireKeepsCount
      <3> QED BY <1>3, <1>4, <3>1, <3>2
    <2> QED BY <2>1, <2>2
  <1>9. CASE YieldSched(p)
    BY <1>1, <1>2, <1>9, SchedLeaves DEF YieldSched
  <1>10. CASE YieldReturn(p)
    <2>1. CASE ReleaseFault(Ptable) # ""
      <3>1. halt' # "" /\ UNCHANGED cur
        BY <1>10, <2>1 DEF YieldReturn
      <3> QED BY <3>1 DEF SwitchSafe, SwitchRule
    <2>2. CASE ReleaseFault(Ptable) = ""
      <3>1. ReleaseFrom(Ptable, Restored(p)) /\ Goto(p, "kern")
            /\ UNCHANGED <<cproc, cur, own>>
        BY <1>10, <2>2 DEF YieldReturn
      <3>2. cpu'.ncli = Cardinality(Taken')
        BY <2>2, <3>1, RestoredType, ReleaseKeepsCount
      <3> QED BY <1>3, <1>4, <3>1, <3>2
    <2> QED BY <2>1, <2>2
  <1>11. ASSUME NEW c \in Chans, NEW lk \in Locks, SleepEnter(p, c, lk)
         PROVE  SwitchSafe
    <2>1. UNCHANGED <<cproc, cur, own>>
      BY <1>11 DEF SleepEnter
    <2>2. CASE halt' = "sleep"
      BY <2>1, <2>2 DEF SwitchSafe, SwitchRule
    <2>3. CASE Goto(p, "sleep_sched") /\ UNCHANGED <<locked, cpu>>
      <3>1. Taken' = Taken
        BY <2>3 DEF Taken
      <3> QED BY <1>3, <1>4, <2>1, <2>3, <3>1 DEF SwitchLocks
    <2>4. CASE AcquireFault(Ptable) # "" /\ halt' = AcquireFault(Ptable)
      BY <2>1, <2>4 DEF SwitchSafe, SwitchRule
    <2>5. CASE AcquireFault(Ptable) = "" /\ Acquire(Ptable) /\ Goto(p, "sleep_rel")
      <3>1. cpu'.ncli = Cardinality(Taken')
        BY <2>5, AcquireKeepsCount
      <3> QED BY <1>3, <1>4, <2>1, <2>5, <3>1
    <2> QED BY <1>11, <2>2, <2>3, <2>4, <2>5 DEF SleepEnter
  <1>12. CASE SleepRelease(p)
    <2>1. CASE ReleaseFault(slk[p]) # ""
      BY <1>12, <2>1, PanicSafe DEF SleepRelease
    <2>2. CASE ReleaseFault(slk[p]) = ""
      <3>1. ReleaseFrom(slk[p], cpu) /\ Goto(p, "sleep_sched")
            /\ own' = [own EXCEPT ![p] = @ \ {slk[p]}] /\ UNCHANGED <<cproc, cur>>
        BY <1>12, <2>2 DEF SleepRelease
      <3>2. cpu'.ncli = Cardinality(Taken')
        BY <1>2, <2>2, <3>1, ReleaseKeepsCount
      <3>3. own'[Irq] = own[Irq]
        BY <1>2, <3>1 DEF TypeOK
      <3> QED BY <1>3, <1>4, <3>1, <3>2, <3>3
    <2> QED BY <2>1, <2>2
  <1>13. CASE SleepSched(p)
    BY <1>1, <1>2, <1>13, SchedLeaves DEF SleepSched
  <1>14. CASE SleepResume(p)
    <2>1. UNCHANGED <<cproc, cur, own>>
      BY <1>14 DEF SleepResume
    <2>2. CASE cpu' = Restored(p) /\ Goto(p, "kern") /\ UNCHANGED locked
      <3>1. Taken' = Taken
        BY <2>2 DEF Taken
      <3> QED BY <1>3, <1>4, <2>1, <2>2, <3>1, RestoredType DEF SwitchLocks
    <2>3. CASE ReleaseFault(Ptable) # "" /\ halt' = ReleaseFault(Ptable)
      BY <2>1, <2>3 DEF SwitchSafe, SwitchRule
    <2>4. CASE ReleaseFault(Ptable) = "" /\ ReleaseFrom(Ptable, Restored(p))
               /\ Goto(p, "sleep_acq")
      <3>1. cpu'.ncli = Cardinality(Taken')
        BY <2>4, RestoredType, ReleaseKeepsCount
      <3> QED BY <1>3, <1>4, <2>1, <2>4, <3>1
    <2> QED BY <1>14, <2>2, <2>3, <2>4 DEF SleepResume
  <1>15. CASE SleepReacquire(p)
    <2>1. CASE AcquireFault(slk[p]) # ""
      BY <1>15, <2>1, PanicSafe DEF SleepReacquire
    <2>2. CASE AcquireFault(slk[p]) = ""
      <3>1. Acquire(slk[p]) /\ Goto(p, "kern")
            /\ own' = [own EXCEPT ![p] = @ \cup {slk[p]}] /\ UNCHANGED <<cproc, cur>>
        BY <1>15, <2>2 DEF SleepReacquire
      <3>2. cpu'.ncli = Cardinality(Taken')
        BY <1>2, <2>2, <3>1, AcquireKeepsCount
      <3>3. own'[Irq] = own[Irq]
        BY <1>2, <3>1 DEF TypeOK
      <3> QED BY <1>3, <1>4, <3>1, <3>2, <3>3
    <2> QED BY <2>1, <2>2
  <1> QED
    BY <1>5, <1>6, <1>7, <1>8, <1>9, <1>10, <1>11, <1>12, <1>13, <1>14, <1>15
       DEF ProcStep

(* A step of the active handler: outside a scan, the taken locks are its.  *)
LEMMA HandlerKeepsLocks ==
    ASSUME TypeOK, SwitchLocks, pc[Irq] # "off", UNCHANGED <<cur, cproc>>,
           pc'[Sched] = pc[Sched], pc'[Irq] # "off", Ptable \notin own'[Irq],
           halt' = "" => /\ cpu'.ncli = Cardinality(Taken')
                         /\ Taken = HandlerLocks => Taken' = HandlerLocks'
    PROVE  SwitchSafe
  <1>1. CASE cur \in Procs
    BY <1>1, ProcessKeepsCpu
  <1>2. CASE cur = Sched
    <2>1. pc[Sched] \notin {"scan", "switched"} /\ Taken = HandlerLocks
      BY <1>2 DEF SwitchLocks, SchedulerLocks
    <2>2. SwitchRule
      BY DEF SwitchRule
    <2>3. ASSUME halt' = "" PROVE SwitchLocks'
      BY <1>2, <2>1, <2>3, Names DEF SwitchLocks, SchedulerLocks
    <2> QED BY <2>2, <2>3 DEF SwitchSafe
  <1> QED BY <1>1, <1>2 DEF TypeOK

(* Clients, in a system call or in a handler, take and drop locks only. *)
LEMMA ClientSwitches ==
    ASSUME TypeOK, SwitchLocks, NEW t \in Procs \cup {Irq}, ClientStep(t)
    PROVE  SwitchSafe
  <1> USE Names
  <1>1. /\ t \in Procs => cur = t /\ pc[Irq] = "off"
        /\ t = Irq => pc[Irq] # "off"
    BY WhoRuns DEF ClientStep, ClientAcquire, ClientRelease, WakeupAcquire,
       WakeupScan
  <1>2. t \in Threads /\ t # Sched /\ cpu \in CpuState
    BY DEF TypeOK
  <1>3. ASSUME NEW l \in Locks, ClientAcquire(t, l) PROVE SwitchSafe
    <2>1. CASE AcquireFault(l) # ""
      BY <1>3, <2>1, PanicSafe DEF ClientAcquire
    <2>2. CASE AcquireFault(l) = ""
      <3>1. Acquire(l) /\ own' = [own EXCEPT ![t] = @ \cup {l}]
            /\ UNCHANGED <<cproc, cur, pc>> /\ (t = Irq => l # Ptable)
        BY <1>3, <2>2 DEF ClientAcquire
      <3>2. cpu'.ncli = Cardinality(Taken') /\ Taken' = Taken \cup {l}
        BY <2>2, <3>1, AcquireKeepsCount
      <3>3. CASE t \in Procs
        <4>1. own'[Irq] = own[Irq]
          BY <3>1, <3>3 DEF TypeOK
        <4> QED BY <1>1, <3>1, <3>2, <3>3, <4>1, ProcessKeepsCpu DEF SwitchLocks
      <3>4. CASE t = Irq
        <4>1. own'[Irq] = own[Irq] \cup {l}
          BY <3>1, <3>4 DEF TypeOK
        <4>2. Taken = HandlerLocks => Taken' = HandlerLocks'
          BY <3>1, <3>2, <4>1 DEF HandlerLocks
        <4>3. Ptable \notin own'[Irq]
          BY <3>1, <3>4, <4>1 DEF SwitchLocks
        <4> QED BY <1>1, <3>1, <3>2, <3>4, <4>2, <4>3, HandlerKeepsLocks
      <3> QED BY <3>3, <3>4
    <2> QED BY <2>1, <2>2
  <1>4. ASSUME NEW l \in Locks, ClientRelease(t, l) PROVE SwitchSafe
    <2>1. CASE ReleaseFault(l) # ""
      BY <1>4, <2>1, PanicSafe DEF ClientRelease
    <2>2. CASE ReleaseFault(l) = ""
      <3>1. ReleaseFrom(l, cpu) /\ own' = [own EXCEPT ![t] = @ \ {l}]
            /\ UNCHANGED <<cproc, cur, pc>>
        BY <1>4, <2>2 DEF ClientRelease
      <3>2. cpu'.ncli = Cardinality(Taken') /\ Taken' = Taken \ {l}
        BY <1>2, <2>2, <3>1, ReleaseKeepsCount
      <3>3. CASE t \in Procs
        <4>1. own'[Irq] = own[Irq]
          BY <3>1, <3>3 DEF TypeOK
        <4> QED BY <1>1, <3>1, <3>2, <3>3, <4>1, ProcessKeepsCpu DEF SwitchLocks
      <3>4. CASE t = Irq
        <4>1. own'[Irq] = own[Irq] \ {l}
          BY <3>1, <3>4 DEF TypeOK
        <4>2. pc[Irq] = "kern"
          BY <1>4, <3>4, WhoRuns DEF ClientRelease
        <4>3. Taken = HandlerLocks => Taken' = HandlerLocks'
          BY <3>1, <3>2, <4>1, <4>2 DEF HandlerLocks
        <4>4. Ptable \notin own'[Irq]
          BY <4>1 DEF SwitchLocks
        <4> QED BY <1>1, <3>1, <3>2, <3>4, <4>3, <4>4, HandlerKeepsLocks
      <3> QED BY <3>3, <3>4
    <2> QED BY <2>1, <2>2
  <1>5. ASSUME NEW c \in Chans, WakeupAcquire(t, c) PROVE SwitchSafe
    <2>1. CASE AcquireFault(Ptable) # ""
      BY <1>5, <2>1, PanicSafe DEF WakeupAcquire
    <2>2. CASE AcquireFault(Ptable) = ""
      <3>1. Acquire(Ptable) /\ Goto(t, "wake") /\ UNCHANGED <<cproc, cur, own>>
        BY <1>5, <2>2 DEF WakeupAcquire
      <3>2. cpu'.ncli = Cardinality(Taken') /\ Taken' = Taken \cup {Ptable}
        BY <2>2, <3>1, AcquireKeepsCount
      <3>3. pc'[t] = "wake" /\ \A u \in Threads : u # t => pc'[u] = pc[u]
        BY <1>2, <3>1, GotoMoves
      <3>4. CASE t \in Procs
        BY <1>1, <1>2, <3>1, <3>2, <3>3, <3>4, ProcessKeepsCpu DEF SwitchLocks
      <3>5. CASE t = Irq
        <4>1. pc[Irq] = "kern"
          BY <1>5, <3>5, WhoRuns DEF WakeupAcquire
        <4>2. Taken = HandlerLocks => Taken' = HandlerLocks'
          BY <3>1, <3>2, <3>3, <3>5, <4>1 DEF HandlerLocks
        <4>3. Ptable \notin own'[Irq]
          BY <3>1 DEF SwitchLocks
        <4> QED BY <1>1, <1>2, <3>1, <3>2, <3>3, <3>5, <4>2, <4>3, HandlerKeepsLocks
      <3> QED BY <3>4, <3>5
    <2> QED BY <2>1, <2>2
  <1>6. CASE WakeupScan(t)
    <2>1. UNCHANGED <<cproc, cur, own>>
      BY <1>6 DEF WakeupScan
    <2>2. CASE ReleaseFault(Ptable) # ""
      <3>1. halt' # ""
        BY <1>6, <2>2 DEF WakeupScan
      <3> QED BY <2>1, <3>1 DEF SwitchSafe, SwitchRule
    <2>3. CASE ReleaseFault(Ptable) = ""
      <3>1. ReleaseFrom(Ptable, cpu) /\ Goto(t, "kern")
        BY <1>6, <2>3 DEF WakeupScan
      <3>2. cpu'.ncli = Cardinality(Taken') /\ Taken' = Taken \ {Ptable}
        BY <1>2, <2>3, <3>1, ReleaseKeepsCount
      <3>3. pc'[t] = "kern" /\ \A u \in Threads : u # t => pc'[u] = pc[u]
        BY <1>2, <3>1, GotoMoves
      <3>4. CASE t \in Procs
        BY <1>1, <1>2, <2>1, <3>2, <3>3, <3>4, ProcessKeepsCpu DEF SwitchLocks
      <3>5. CASE t = Irq
        <4>1. pc[Irq] = "wake"
          BY <1>6, <3>5, WhoRuns DEF WakeupScan
        <4>2. Ptable \notin own[Irq]
          BY DEF SwitchLocks
        <4>3. Taken = HandlerLocks => Taken' = HandlerLocks'
          BY <2>1, <3>2, <3>3, <3>5, <4>1, <4>2 DEF HandlerLocks
        <4> QED BY <1>1, <1>2, <2>1, <3>2, <3>3, <3>5, <4>2, <4>3, HandlerKeepsLocks
      <3> QED BY <3>4, <3>5
    <2> QED BY <2>2, <2>3
  <1> QED BY <1>3, <1>4, <1>5, <1>6 DEF ClientStep

(* The interrupt logic: no handler starts during a scan, which runs with   *)
(* interrupts off, and none returns with a lock.                           *)
LEMMA InterruptSwitches ==
    ASSUME TypeOK, SwitchLocks, Interrupt \/ InterruptReturn
    PROVE  SwitchSafe
  <1> USE Names
  <1>1. CASE Interrupt
    <2>1. pc[Irq] = "off" /\ cpu.if /\ cpu' = Cli(cpu) /\ Goto(Irq, "kern")
          /\ UNCHANGED <<cproc, locked, cur, own>>
      BY <1>1 DEF Interrupt
    <2>2. pc'[Irq] = "kern" /\ pc'[Sched] = pc[Sched]
      BY <2>1, GotoMoves
    <2>3. cpu'.ncli = Cardinality(Taken') /\ Taken' = Taken
      BY <2>1, CpuType DEF Taken, TypeOK, SwitchLocks
    <2> QED
      BY <2>1, <2>2, <2>3
         DEF SwitchSafe, SwitchRule, SwitchLocks, SchedulerLocks, HandlerLocks
  <1>2. CASE InterruptReturn
    <2>1. pc[Irq] = "kern"
      BY <1>2, WhoRuns DEF InterruptReturn
    <2>2. own[Irq] = {} /\ cpu' = Sti(cpu) /\ Goto(Irq, "off")
          /\ UNCHANGED <<cproc, locked, cur, own>>
      BY <1>2 DEF InterruptReturn
    <2>3. pc'[Irq] = "off" /\ pc'[Sched] = pc[Sched]
      BY <2>2, GotoMoves
    <2>4. cpu'.ncli = Cardinality(Taken') /\ Taken' = Taken
      BY <2>2, CpuType DEF Taken, TypeOK, SwitchLocks
    <2> QED
      BY <2>1, <2>2, <2>3, <2>4
         DEF SwitchSafe, SwitchRule, SwitchLocks, SchedulerLocks, HandlerLocks
  <1> QED BY <1>1, <1>2

(* A step of the running machine. *)
LEMMA NextSwitches ==
    ASSUME TypeOK, SwitchLocks, halt = "", [Next]_vars
    PROVE  SwitchSafe
  <1>1. CASE UNCHANGED vars
    <2>1. Taken' = Taken
      BY <1>1 DEF vars, Taken
    <2>2. SwitchLocks'
      BY <1>1, <2>1 DEF vars, SwitchLocks, SchedulerLocks, HandlerLocks
    <2> QED BY <1>1, <2>2 DEF vars, SwitchSafe, SwitchRule
  <1>2. CASE Halted
    BY <1>2 DEF Halted
  <1> QED
    BY <1>1, <1>2, SchedulerSwitches, ProcessSwitches, ClientSwitches,
       InterruptSwitches
       DEF Next

(* A panic is final. *)
LEMMA HaltedStays ==
    ASSUME halt # "", [Next]_vars
    PROVE  UNCHANGED vars
  BY WhoRuns, Names, ZenonT(60) DEF Next, SchedStep, ProcStep, ClientStep, InitUser,
     InitUserFails, StartScheduler, SchedSti, SchedAcquire, SchedSkip,
     SchedSwitch, SchedBack, SchedRelease, ForkRet, TrapRet, Syscall,
     SyscallExit, SyscallReturn, YieldAcquire, YieldSched, YieldReturn,
     SleepEnter, SleepRelease, SleepSched, SleepResume, SleepReacquire,
     ClientAcquire, ClientRelease, WakeupAcquire, WakeupScan, Interrupt,
     InterruptReturn, Halted

(* The invariant holds at boot and is kept by every step. *)
LEMMA SwitchInvariant == Spec => []SwitchInv
  <1>1. Init => SwitchInv
    <2> SUFFICES ASSUME Init PROVE SwitchInv
      OBVIOUS
    <2>1. TypeOK /\ cpu.ncli = Cardinality(Taken)
      BY InitIInv DEF IInv, LocksAccounted
    <2>2. cur = Sched /\ pc[Sched] = "init_user" /\ pc[Irq] = "off"
          /\ own[Irq] = {} /\ Taken = {}
      BY Names DEF Init, Taken
    <2>3. SwitchLocks
      BY <2>1, <2>2, Names DEF SwitchLocks, SchedulerLocks, HandlerLocks
    <2> QED BY <2>1, <2>3 DEF SwitchInv
  <1>2. SwitchInv /\ [Next]_vars => SwitchInv'
    <2> SUFFICES ASSUME SwitchInv, [Next]_vars PROVE SwitchInv'
      OBVIOUS
    <2>1. TypeOK'
      BY NextTypes DEF SwitchInv
    <2>2. CASE halt = ""
      BY <2>1, <2>2, NextSwitches DEF SwitchInv, SwitchSafe
    <2>3. CASE halt # ""
      <3>1. halt' = halt
        BY <2>3, HaltedStays DEF vars
      <3> QED BY <2>1, <2>3, <3>1 DEF SwitchInv
    <2> QED BY <2>2, <2>3
  <1> QED BY <1>1, <1>2, PTL DEF Spec

(* Type correctness, for any clients. *)
THEOREM TypeCorrect == Spec => []TypeOK
  <1>1. SwitchInv => TypeOK
    BY DEF SwitchInv
  <1> QED BY <1>1, SwitchInvariant, PTL

(* The checks of sched() are complete: whatever its callers do, the CPU    *)
(* changes stacks only under ptable.lock as the single lock, interrupts    *)
(* off, and leaves no process RUNNING behind.                              *)
THEOREM SwitchDiscipline == Spec => SwitchOnlyUnderPtable
  <1>1. SwitchInv /\ [Next]_vars
        => [cur' # cur =>
              /\ {l \in Locks : locked'[l]} = {Ptable}
              /\ cpu'.ncli = 1 /\ ~cpu'.if
              /\ cur \in Procs => state'[cur] # "RUNNING"]_vars
    <2> SUFFICES ASSUME SwitchInv, [Next]_vars PROVE SwitchRule
      BY DEF SwitchRule
    <2>1. CASE halt = ""
      BY <2>1, NextSwitches DEF SwitchInv, SwitchSafe
    <2>2. CASE halt # ""
      <3>1. cur' = cur
        BY <2>2, HaltedStays DEF vars
      <3> QED BY <3>1 DEF SwitchRule
    <2> QED BY <2>1, <2>2
  <1> QED BY <1>1, SwitchInvariant, PTL DEF Spec, SwitchOnlyUnderPtable
=============================================================================
