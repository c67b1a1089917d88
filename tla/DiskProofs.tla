----------------------------- MODULE DiskProofs -----------------------------
(***************************************************************************)
(* For every number of processes and buffers.  First: driver and sleep     *)
(* locks are clients of Process.tla that keep its locking rules (Rules is  *)
(* inductive, and each step of Disk is one of Process with Wild = FALSE).  *)
(* So what ProcessProofs shows of such clients holds here; with it, the    *)
(* properties of the queue, the buffers and those who sleep on them follow *)
(* from an inductive invariant of their own, DriverInv.                    *)
(***************************************************************************)
EXTENDS Disk, TLAPS

(* Threads and locks are distinct. *)
LEMMA Names ==
    /\ Procs \subseteq Threads /\ Irq \in Threads /\ Irq \notin Procs
    /\ Sched \notin Procs /\ Sched # Irq
    /\ P!Procs = Procs /\ P!Irq = Irq /\ P!Sched = Sched
    /\ P!Threads = Threads \cup {Sched}
    /\ IdeLock # Ptable /\ \A b \in Bufs : SpinLock(b) # Ptable
    /\ Ptable \in P!Locks /\ IdeLock \in P!Locks
    /\ \A b \in Bufs : SpinLock(b) \in P!Locks
  BY ProcessAssumption
  DEF P!SizeAssumption, P!NameAssumption, Threads, Irq, Sched, Procs, P!Irq,
      P!Sched, P!Procs, P!Threads, P!Locks

-----------------------------------------------------------------------------
(* The invariant *)

(* The locks a thread holds by its place in the code of Disk. *)
HandlerHolds == {"h_head", "h_transfer", "h_wakeup", "h_next", "h_release"}
Held(t) ==
    IF task[t] = "lk_test" THEN {SpinLock(buf[t])}
    ELSE IF task[t] \in {"io_queue", "io_start", "io_wait"} \cup HandlerHolds
    THEN {IdeLock} ELSE {}

QueueType ==
    /\ ide_queue \in Seq(Bufs)
    /\ buf \in [Threads -> Bufs \cup {NoBuf}]
    /\ DOMAIN task = Threads

Shape ==
    /\ DOMAIN pc = Threads \cup {Sched} /\ DOMAIN own = Threads \cup {Sched}
    /\ DOMAIN slk = Procs

(* Inside sleep the lock is the one the caller holds, until it is released. *)
InSleep == {"sleep_rel", "sleep_sched", "slept", "sleep_acq"}
Owns(p) ==
    /\ own[p] = IF pc[p] \in InSleep \ {"sleep_rel"} THEN {} ELSE Held(p)
    /\ pc[p] \in InSleep => Held(p) = {slk[p]} /\ task[p] \in {"lk_test", "io_wait"}

(* A machine that panicked may have gone half way. *)
Ownership == halt = "" => own[Irq] = Held(Irq) /\ \A p \in Procs : Owns(p)

(* No process has run before the scheduler starts, and no handler is active *)
(* without the CPU. *)
Places ==
    /\ pc[Sched] = "init_user" =>
            cur = Sched /\ \A p \in Procs : pc[p] \in {"none", "fork_ret"}
    /\ pc[Irq] = "off" => task[Irq] = "none"

Named ==
    /\ \A p \in Procs : task[p] # "none" => buf[p] \in Bufs
    /\ task[Irq] \in {"h_transfer", "h_wakeup", "h_next"} => buf[Irq] \in Bufs

Rules == QueueType /\ Shape /\ Ownership /\ Places /\ Named

(* It holds at first. *)
LEMMA InitRules == Init => Rules
  <1> SUFFICES ASSUME Init PROVE Rules
    OBVIOUS
  <1>1. QueueType
    BY DEF Init, QueueType
  <1>2. Shape
    BY Names DEF Init, P!Init, Shape
  <1>3. \A t \in Threads : Held(t) = {}
    BY DEF Init, Held, HandlerHolds
  <1>4. Ownership
    BY <1>3, Names DEF Init, P!Init, Ownership, Owns, InSleep
  <1>5. Places
    BY Names DEF Init, P!Init, Places
  <1>6. Named
    BY Names DEF Init, Named
  <1> QED BY <1>1, <1>2, <1>4, <1>5, <1>6 DEF Rules

-----------------------------------------------------------------------------
(* What a step of the code of Disk needs from Process *)

(* Each lock and channel of a step is one that Process knows. *)
LEMMA Known ==
    ASSUME Rules, NEW p \in Procs
    PROVE  /\ task[p] # "none" => /\ SpinLock(buf[p]) \in Disciplined!Locks
                                  /\ BufAddr(buf[p]) \in {BufAddr(b) : b \in Bufs}
                                  /\ SleepLock(buf[p]) \in {SleepLock(b) : b \in Bufs}
           /\ IdeLock \in Disciplined!Locks
  BY DEF Rules, Named, Disciplined!Locks

(* A client that acquires a lock it does not hold keeps the rules.         *)
LEMMA AcquireRuled ==
    ASSUME NEW t \in Procs \cup {Irq}, NEW l \in Disciplined!Locks,
           P!ClientAcquire(t, l), l \notin own[t]
    PROVE  Disciplined!Next
  <1>1. Disciplined!ClientAcquire(t, l)
    BY DEF P!ClientAcquire, Disciplined!ClientAcquire, P!At, Disciplined!At,
       P!Running, Disciplined!Running, P!Irq, Disciplined!Irq, P!AcquireFault,
       Disciplined!AcquireFault, P!Panic, Disciplined!Panic, P!Acquire,
       Disciplined!Acquire, P!PushCli, Disciplined!PushCli
  <1>2. t \in Disciplined!Procs \cup {Disciplined!Irq}
    BY DEF Procs, Irq, P!Procs, P!Irq, Disciplined!Procs, Disciplined!Irq
  <1> QED BY <1>1, <1>2 DEF Disciplined!Next, Disciplined!ClientStep

(* So does one that releases a lock it holds ... *)
LEMMA ReleaseRuled ==
    ASSUME NEW t \in Procs \cup {Irq}, NEW l \in Disciplined!Locks,
           P!ClientRelease(t, l), l \in own[t]
    PROVE  Disciplined!Next
  <1>1. Disciplined!ClientRelease(t, l)
    BY DEF P!ClientRelease, Disciplined!ClientRelease, P!At, Disciplined!At,
       P!Running, Disciplined!Running, P!Irq, Disciplined!Irq, P!ReleaseFault,
       Disciplined!ReleaseFault, P!PopCliFault, Disciplined!PopCliFault,
       P!Panic, Disciplined!Panic, P!ReleaseFrom,
       Disciplined!ReleaseFrom, P!PopCli, Disciplined!PopCli
  <1>2. t \in Disciplined!Procs \cup {Disciplined!Irq}
    BY DEF Procs, Irq, P!Procs, P!Irq, Disciplined!Procs, Disciplined!Irq
  <1> QED BY <1>1, <1>2 DEF Disciplined!Next, Disciplined!ClientStep

(* ... one that passes to sleep the one lock it holds ... *)
LEMMA SleepRuled ==
    ASSUME NEW p \in Procs, NEW l \in Disciplined!Locks,
           NEW c \in {BufAddr(b) : b \in Bufs} \cup {SleepLock(b) : b \in Bufs},
           P!SleepEnter(p, c, l), own[p] = {l}
    PROVE  Disciplined!Next
  <1>1. Disciplined!SleepEnter(p, c, l)
    BY DEF P!SleepEnter, Disciplined!SleepEnter, P!At, Disciplined!At,
       P!Running, Disciplined!Running, P!Irq, Disciplined!Irq, P!AcquireFault,
       Disciplined!AcquireFault, P!Acquire, Disciplined!Acquire, P!PushCli,
       Disciplined!PushCli, P!Goto, Disciplined!Goto, P!NoProc,
       Disciplined!NoProc
  <1>2. p \in Disciplined!Procs
    BY DEF Procs, P!Procs, Disciplined!Procs
  <1> QED BY <1>1, <1>2 DEF Disciplined!Next, Disciplined!ProcStep

(* ... and one that calls wakeup without ptable.lock. *)
LEMMA WakeupRuled ==
    ASSUME NEW c \in {BufAddr(b) : b \in Bufs} \cup {SleepLock(b) : b \in Bufs},
           P!WakeupAcquire(Irq, c), Ptable \notin own[Irq]
    PROVE  Disciplined!Next
  <1>1. Disciplined!WakeupAcquire(Irq, c)
    BY DEF P!WakeupAcquire, Disciplined!WakeupAcquire, P!At, Disciplined!At,
       P!Running, Disciplined!Running, P!Irq, Disciplined!Irq, P!AcquireFault,
       Disciplined!AcquireFault, P!Panic, Disciplined!Panic, P!Acquire,
       Disciplined!Acquire, P!PushCli, Disciplined!PushCli, P!Goto,
       Disciplined!Goto
  <1>2. Irq = Disciplined!Irq
    BY DEF Irq, P!Irq, Disciplined!Irq
  <1> QED BY <1>1, <1>2 DEF Disciplined!Next, Disciplined!ClientStep

-----------------------------------------------------------------------------
(* Every step of Disk keeps the rules of the clients of Process *)

(* The calls that Process makes on its own account. *)
LEMMA InProcessRuled ==
    ASSUME Rules, InProcess
    PROVE  Disciplined!Next
  <1> USE DEF P!At, Disciplined!At, P!Running, Disciplined!Running, P!Irq,
      Disciplined!Irq, P!Sched, Disciplined!Sched, P!Procs, Disciplined!Procs,
      P!Goto, Disciplined!Goto, P!Panic, Disciplined!Panic
  <1>1. CASE Boot
    BY <1>1 DEF Boot, P!InitUser, Disciplined!InitUser, P!StartScheduler,
       Disciplined!StartScheduler, P!Sti, Disciplined!Sti, P!NoProc,
       Disciplined!NoProc, Disciplined!Next
  <1>2. CASE P!SchedStep
    <2>1. Disciplined!SchedStep
      BY <1>2
      DEF P!SchedStep, P!SchedSti, P!SchedAcquire, P!SchedSkip, P!SchedSwitch,
          P!SchedBack, P!SchedRelease, Disciplined!SchedStep,
          Disciplined!SchedSti, Disciplined!SchedAcquire,
          Disciplined!SchedSkip, Disciplined!SchedSwitch,
          Disciplined!SchedBack, Disciplined!SchedRelease, P!Sti,
          Disciplined!Sti, P!AcquireFault, Disciplined!AcquireFault,
          P!Acquire, Disciplined!Acquire, P!PushCli, Disciplined!PushCli,
          P!ReleaseFault, Disciplined!ReleaseFault, P!PopCliFault,
          Disciplined!PopCliFault, P!ReleaseFrom, Disciplined!ReleaseFrom,
          P!PopCli, Disciplined!PopCli, P!KPGDIR, Disciplined!KPGDIR,
          P!NoProc, Disciplined!NoProc
    <2> QED BY <2>1 DEF Disciplined!Next
  <1>3. ASSUME NEW p \in Procs, P!Syscall(p) \/ KernelStep(p)
        PROVE  Disciplined!Next
    <2> USE DEF P!ReleaseFault, Disciplined!ReleaseFault, P!PopCliFault,
        Disciplined!PopCliFault, P!ReleaseFrom, Disciplined!ReleaseFrom,
        P!PopCli, Disciplined!PopCli
    <2>1. CASE P!Syscall(p)
      BY <1>3, <2>1 DEF P!Syscall, Disciplined!Syscall, P!Cli, Disciplined!Cli,
         Procs, Disciplined!Next, Disciplined!ProcStep
    <2>2. CASE P!ForkRet(p)
      BY <2>2 DEF P!ForkRet, Disciplined!ForkRet, Procs, Disciplined!Next,
         Disciplined!ProcStep
    <2>3. CASE P!TrapRet(p)
      BY <2>3 DEF P!TrapRet, Disciplined!TrapRet, P!Sti, Disciplined!Sti,
         Procs, Disciplined!Next, Disciplined!ProcStep
    <2>4. CASE P!SleepRelease(p)
      BY <2>4 DEF P!SleepRelease, Disciplined!SleepRelease, Procs,
         Disciplined!Next, Disciplined!ProcStep
    <2>5. CASE P!SleepSched(p)
      BY <2>5 DEF P!SleepSched, Disciplined!SleepSched, P!CallSched,
         Disciplined!CallSched, P!SchedFault, Disciplined!SchedFault, Procs,
         Disciplined!Next, Disciplined!ProcStep
    <2>6. CASE P!SleepResume(p)
      BY <2>6 DEF P!SleepResume, Disciplined!SleepResume, P!ForgetSaved,
         Disciplined!ForgetSaved, P!Restored, Disciplined!Restored, Procs,
         Disciplined!Next, Disciplined!ProcStep
    <2>7. CASE P!SleepReacquire(p)
      BY <2>7 DEF P!SleepReacquire, Disciplined!SleepReacquire,
         P!AcquireFault, Disciplined!AcquireFault, P!Acquire,
         Disciplined!Acquire, P!PushCli, Disciplined!PushCli, Procs,
         Disciplined!Next, Disciplined!ProcStep
    <2>8. CASE task[p] = "none" /\ P!SyscallReturn(p)
      <3>1. own[p] = {}
        BY <2>8 DEF Rules, Ownership, Owns, Held, HandlerHolds, InSleep,
           P!SyscallReturn
      <3> QED BY <2>8, <3>1 DEF P!SyscallReturn, Disciplined!SyscallReturn,
              Procs, Disciplined!Next, Disciplined!ProcStep
    <2> QED BY <1>3, <2>1, <2>2, <2>3, <2>4, <2>5, <2>6, <2>7, <2>8 DEF KernelStep
  <1>4. CASE P!WakeupScan(Irq)
    BY <1>4 DEF P!WakeupScan, Disciplined!WakeupScan, Irq, P!Woken,
       Disciplined!Woken, P!ReleaseFault, Disciplined!ReleaseFault,
       P!PopCliFault, Disciplined!PopCliFault, P!ReleaseFrom,
       Disciplined!ReleaseFrom, P!PopCli, Disciplined!PopCli, Disciplined!Next,
       Disciplined!ClientStep
  <1> QED BY <1>1, <1>2, <1>3, <1>4 DEF InProcess

(* Outside sleep the lock of a process is that of its place. *)
LEMMA InKernel ==
    ASSUME Rules, NEW t \in Procs \cup {Irq}, P!At(t, "kern")
    PROVE  halt = "" /\ own[t] = Held(t) /\ pc[t] = "kern"
  BY DEF P!At, P!Running, Rules, Ownership, Owns, InSleep

(* None of the three panics of ide_start comes: there is a buffer, its     *)
(* block is on the disk, and a block is one sector.                        *)
LEMMA IdeStartRuns ==
    ASSUME NEW b \in Bufs, IdeStart(b)
    PROVE  /\ Ready /\ UNCHANGED procVars
           /\ drive' = [buf |-> b, write |-> b \in dirty, data |-> data[b],
                        busy |-> TRUE, failed |-> FALSE]
  <1>1. b # NoBuf
    BY BufsAssumption
  <1>2. ~(blockno[b] >= FS_SIZE)
    BY BlockAssumption
  <1>3. sector_per_block = 1
    BY DEF sector_per_block, B_SIZE, SECTOR_SIZE
  <1>4. IdeStartFault(b) = ""
    BY <1>1, <1>2, <1>3 DEF IdeStartFault
  <1> QED BY <1>4 DEF IdeStart

(* So what starts the drive does nothing to Process.                       *)
LEMMA StartRuns ==
    ASSUME Rules
    PROVE  /\ \A p \in Procs : StartRequest(p) => UNCHANGED procVars
           /\ HandlerStartNext => UNCHANGED procVars
  <1>1. ASSUME NEW p \in Procs, StartRequest(p) PROVE UNCHANGED procVars
    <2>1. task[p] = "io_start" /\ IdeStart(buf[p])
      BY <1>1 DEF StartRequest, InCode
    <2>2. buf[p] \in Bufs
      BY <2>1 DEF Rules, Named
    <2> QED BY <2>1, <2>2, IdeStartRuns
  <1>2. ASSUME HandlerStartNext PROVE UNCHANGED procVars
    <2>1. CASE ide_queue = <<>>
      BY <1>2, <2>1 DEF HandlerStartNext
    <2>2. CASE ide_queue # <<>>
      <3>1. Head(ide_queue) \in Bufs
        BY <2>2 DEF Rules, QueueType
      <3>2. IdeStart(Head(ide_queue))
        BY <1>2, <2>2 DEF HandlerStartNext
      <3> QED BY <3>1, <3>2, IdeStartRuns
    <2> QED BY <2>1, <2>2
  <1> QED BY <1>1, <1>2

(* The steps of a process in sleeplock.c and in the driver. *)
LEMMA DriverRuled ==
    ASSUME Rules, NEW p \in Procs, DriverStep(p)
    PROVE  Disciplined!Next \/ UNCHANGED procVars
  <1> USE Known, InKernel DEF InCode, Held, HandlerHolds
  <1>1. ASSUME NEW b \in Bufs, AcquireSleepLock(p, b) PROVE Disciplined!Next
    <2>1. SpinLock(b) \in Disciplined!Locks
      BY DEF Disciplined!Locks
    <2>2. SpinLock(b) \notin own[p]
      BY <1>1 DEF AcquireSleepLock
    <2> QED BY <1>1, <2>1, <2>2, AcquireRuled DEF AcquireSleepLock
  <1>2. CASE AcquireSleepWait(p)
    <2>1. own[p] = {SpinLock(buf[p])}
      BY <1>2 DEF AcquireSleepWait
    <2> QED BY <1>2, <2>1, SleepRuled DEF AcquireSleepWait
  <1>3. CASE AcquireSleepTake(p)
    BY <1>3, ReleaseRuled DEF AcquireSleepTake
  <1>4. CASE ReleaseSleep(p)
    BY <1>4 DEF ReleaseSleep
  <1>5. CASE RequestIo(p)
    <2>1. own[p] = {}
      BY <1>5 DEF RequestIo
    <2> QED BY <1>5, <2>1, AcquireRuled DEF RequestIo
  <1>6. CASE QueueRequest(p)
    BY <1>6 DEF QueueRequest
  <1>7. CASE StartRequest(p)
    BY <1>7, StartRuns
  <1>8. CASE AwaitRequest(p)
    <2>1. own[p] = {IdeLock}
      BY <1>8 DEF AwaitRequest
    <2> QED BY <1>8, <2>1, SleepRuled DEF AwaitRequest
  <1>9. CASE RequestDone(p)
    BY <1>9, ReleaseRuled DEF RequestDone
  <1> QED
    BY <1>1, <1>2, <1>3, <1>4, <1>5, <1>6, <1>7, <1>8, <1>9 DEF DriverStep

(* The steps of ide_handler. *)
LEMMA HandlerRuled ==
    ASSUME Rules, HandlerStep \/ DiskInterrupt
    PROVE  Disciplined!Next \/ UNCHANGED procVars
  <1> USE InKernel DEF InCode, Held, HandlerHolds
  <1>0. IdeLock \in Disciplined!Locks /\ IdeLock # Ptable
    BY Names DEF Disciplined!Locks
  <1>1. CASE HandlerAcquire
    <2>1. own[Irq] = {}
      BY <1>1 DEF HandlerAcquire
    <2> QED BY <1>0, <1>1, <2>1, AcquireRuled DEF HandlerAcquire
  <1>2. CASE HandlerNoRequest
    BY <1>2 DEF HandlerNoRequest
  <1>3. CASE HandlerTakeHead
    BY <1>3 DEF HandlerTakeHead
  <1>4. CASE HandlerTransfer
    BY <1>4 DEF HandlerTransfer
  <1>5. CASE HandlerWakeup
    <2>1. own[Irq] = {IdeLock}
      BY <1>5 DEF HandlerWakeup
    <2>2. buf[Irq] \in Bufs
      BY <1>5 DEF HandlerWakeup, Rules, Named
    <2> QED BY <1>0, <1>5, <2>1, <2>2, WakeupRuled DEF HandlerWakeup
  <1>6. CASE HandlerStartNext
    BY <1>6, StartRuns
  <1>7. CASE HandlerRelease
    BY <1>0, <1>7, ReleaseRuled DEF HandlerRelease
  <1>8. CASE HandlerReturn
    BY <1>8 DEF HandlerReturn, P!InterruptReturn, Disciplined!InterruptReturn,
       P!At, Disciplined!At, P!Running, Disciplined!Running, P!Irq,
       Disciplined!Irq, P!Goto, Disciplined!Goto, P!Sti, Disciplined!Sti,
       Disciplined!Next
  <1>9. CASE DiskInterrupt
    BY <1>9 DEF DiskInterrupt, P!Interrupt, Disciplined!Interrupt, P!Irq,
       Disciplined!Irq, P!Goto, Disciplined!Goto, P!Cli, Disciplined!Cli,
       Disciplined!Next
  <1> QED
    BY <1>1, <1>2, <1>3, <1>4, <1>5, <1>6, <1>7, <1>8, <1>9 DEF HandlerStep

-----------------------------------------------------------------------------
(* Every step keeps the invariant *)

(* What the calls into Process do to the places and locks of the threads.  *)
LEMMA AcquireEffect ==
    ASSUME Shape, NEW t \in Procs \cup {Irq}, NEW l, P!ClientAcquire(t, l)
    PROVE  /\ pc' = pc /\ slk' = slk /\ cur' = cur /\ DOMAIN own' = DOMAIN own
           /\ \A u \in Threads \ {t} : own'[u] = own[u]
           /\ halt' = "" => own'[t] = own[t] \cup {l}
  <1>1. CASE own' = [own EXCEPT ![t] = @ \cup {l}]
    BY <1>1, Names DEF P!ClientAcquire, P!Panic, Shape
  <1>2. CASE own' = own /\ halt' # ""
    BY <1>2 DEF P!ClientAcquire, P!Panic
  <1> QED BY <1>1, <1>2 DEF P!ClientAcquire, P!Panic

(* release(l). *)
LEMMA ReleaseEffect ==
    ASSUME Shape, NEW t \in Procs \cup {Irq}, NEW l, P!ClientRelease(t, l)
    PROVE  /\ pc' = pc /\ slk' = slk /\ cur' = cur /\ DOMAIN own' = DOMAIN own
           /\ \A u \in Threads \ {t} : own'[u] = own[u]
           /\ halt' = "" => own'[t] = own[t] \ {l}
  <1>1. CASE own' = [own EXCEPT ![t] = @ \ {l}]
    BY <1>1, Names DEF P!ClientRelease, P!Panic, Shape
  <1>2. CASE own' = own /\ halt' # ""
    BY <1>2 DEF P!ClientRelease, P!Panic
  <1> QED BY <1>1, <1>2 DEF P!ClientRelease, P!Panic

(* The entry of sleep, for a lock other than ptable.lock. *)
LEMMA SleepEffect ==
    ASSUME Shape, NEW p \in Procs, NEW c, NEW l, l # Ptable, P!SleepEnter(p, c, l)
    PROVE  /\ own' = own /\ cur' = cur
           /\ DOMAIN slk' = DOMAIN slk /\ DOMAIN pc' = DOMAIN pc
           /\ slk'[p] = l /\ \A q \in Procs \ {p} : slk'[q] = slk[q]
           /\ \A u \in (Threads \cup {Sched}) \ {p} : pc'[u] = pc[u]
           /\ pc'[p] \in {pc[p], "sleep_rel"}
           /\ halt' = "" => pc'[p] = "sleep_rel"
  <1>1. slk' = [slk EXCEPT ![p] = l] /\ own' = own /\ cur' = cur
    BY DEF P!SleepEnter
  <1>2. \/ pc' = pc /\ halt' # ""
        \/ pc' = [pc EXCEPT ![p] = "sleep_rel"]
    BY DEF P!SleepEnter, P!Goto, P!AcquireFault
  <1> QED BY <1>1, <1>2, Names DEF Shape

(* The entry of wakeup. *)
LEMMA WakeupEffect ==
    ASSUME NEW t, NEW c, P!WakeupAcquire(t, c)
    PROVE  /\ slk' = slk /\ own' = own /\ cur' = cur
           /\ pc' = pc \/ pc' = [pc EXCEPT ![t] = "wake"]
  BY DEF P!WakeupAcquire, P!Panic, P!Goto

(* A step of one thread leaves the locks of the others accounted for.      *)
LEMMA OthersOwn ==
    ASSUME Rules, halt = "", NEW t \in Threads,
           \A u \in Threads \ {t} : /\ own'[u] = own[u] /\ pc'[u] = pc[u]
                                    /\ task'[u] = task[u] /\ buf'[u] = buf[u],
           \A q \in Procs \ {t} : slk'[q] = slk[q],
           halt' = "" => IF t = Irq THEN own'[Irq] = Held(Irq)' ELSE Owns(t)'
    PROVE  Ownership'
  <1>1. \A u \in Threads \ {t} : Held(u)' = Held(u)
    BY DEF Held
  <1>2. \A q \in Procs \ {t} : Owns(q)'
    BY <1>1, Names, ZenonT(60) DEF Rules, Ownership, Owns
  <1>3. t # Irq => own'[Irq] = Held(Irq)'
    BY <1>1, Names DEF Rules, Ownership
  <1> QED BY <1>2, <1>3, Names DEF Ownership, Threads

(* The steps that no code of Disk takes part in. *)
LEMMA InProcessKeeps ==
    ASSUME Rules, InProcess
    PROVE  Rules'
  <1> USE Names DEF P!At, P!Running, P!Goto, P!Panic
  <1>1. QueueType' /\ Named' /\ task' = task /\ \A t : Held(t)' = Held(t)
    BY DEF Rules, InProcess, ioVars, QueueType, Named, Held
  <1>2. CASE Boot
    <2>1. own' = own /\ slk' = slk /\ cur' = cur
          /\ pc[Sched] = "init_user"
          /\ \/ pc' = [pc EXCEPT ![Sched] = "sti"]
             \/ \E p \in Procs : pc' = [pc EXCEPT ![p] = "fork_ret"]
             \/ pc' = pc
      BY <1>2 DEF Boot, P!InitUser, P!StartScheduler
    <2>2. halt' = "" => halt = ""
      BY <1>2 DEF Boot, P!InitUser, P!StartScheduler
    <2>3. Shape' /\ Places'
      BY <1>1, <2>1 DEF Rules, Shape, Places
    <2>4. \A p \in Procs : pc[p] \notin InSleep /\ pc'[p] \notin InSleep
      BY <2>1 DEF Rules, Shape, Places, InSleep
    <2>5. Ownership'
      BY <1>1, <2>1, <2>2, <2>4 DEF Rules, Ownership, Owns
    <2> QED BY <1>1, <2>3, <2>5 DEF Rules
  <1>3. CASE P!SchedStep
    <2>1. own' = own /\ slk' = slk /\ pc[Sched] # "init_user"
          /\ \/ pc' = pc
             \/ \E label \in {"acquire", "scan", "switched", "sti"} :
                    pc' = [pc EXCEPT ![Sched] = label]
      BY <1>3
      DEF P!SchedStep, P!SchedSti, P!SchedAcquire, P!SchedSkip, P!SchedSwitch,
          P!SchedBack, P!SchedRelease
    <2>2. halt' = "" => halt = ""
      BY <1>3
      DEF P!SchedStep, P!SchedSti, P!SchedAcquire, P!SchedSkip, P!SchedSwitch,
          P!SchedBack, P!SchedRelease
    <2>3. Shape' /\ Places'
      BY <1>1, <2>1 DEF Rules, Shape, Places
    <2>4. Ownership'
      BY <1>1, <2>1, <2>2 DEF Rules, Shape, Ownership, Owns, InSleep
    <2> QED BY <1>1, <2>3, <2>4 DEF Rules
  <1>4. ASSUME NEW p \in Procs, P!Syscall(p) \/ KernelStep(p)
        PROVE  Rules'
    <2>0. cur = p /\ halt = "" /\ pc[Sched] # "init_user"
      BY <1>4 DEF KernelStep, P!Syscall, P!ForkRet, P!TrapRet, P!SleepRelease,
         P!SleepSched, P!SleepResume, P!SleepReacquire, P!SyscallReturn, Rules,
         Places
    <2>7. p \in Threads /\ p # Irq /\ task' = task /\ buf' = buf
      BY <1>1, Names DEF InProcess, ioVars
    <2>1. CASE own' = own /\ slk' = slk
               /\ \/ pc' = pc
                  \/ /\ pc[p] \notin InSleep
                     /\ \E label \in {"kern", "trap_ret", "user"} :
                            pc' = [pc EXCEPT ![p] = label]
      <3>1. Shape' /\ Places'
        BY <1>1, <2>0, <2>1 DEF Rules, Shape, Places
      <3>2. Ownership'
        BY <1>1, <2>0, <2>1 DEF Rules, Shape, Ownership, Owns, InSleep
      <3> QED BY <1>1, <3>1, <3>2 DEF Rules
    <2>2. CASE P!Syscall(p) \/ P!ForkRet(p) \/ P!TrapRet(p) \/ P!SyscallReturn(p)
      BY <2>1, <2>2 DEF P!Syscall, P!ForkRet, P!TrapRet, P!SyscallReturn, InSleep
    <2>3. CASE P!SleepRelease(p)
      <3>1. slk' = slk /\ pc[p] = "sleep_rel"
            /\ \/ own' = own /\ pc' = pc
               \/ /\ pc' = [pc EXCEPT ![p] = "sleep_sched"]
                  /\ own' = [own EXCEPT ![p] = @ \ {slk[p]}]
        BY <2>3 DEF P!SleepRelease
      <3>2. Shape' /\ Places'
        BY <1>1, <2>0, <3>1 DEF Rules, Shape, Places
      <3>3. own[p] = {slk[p]} /\ Held(p) = {slk[p]} /\ own[Irq] = Held(Irq)
            /\ task[p] \in {"lk_test", "io_wait"}
        BY <2>0, <3>1 DEF Rules, Ownership, Owns, InSleep
      <3>4. own'[Irq] = own[Irq]
            /\ \A q \in Procs \ {p} : own'[q] = own[q] /\ pc'[q] = pc[q]
        BY <3>1 DEF Rules, Shape
      <3>5. \/ own'[p] = {slk[p]} /\ pc'[p] = "sleep_rel"
            \/ own'[p] = {} /\ pc'[p] = "sleep_sched"
        BY <3>1, <3>3 DEF Rules, Shape
      <3>6. Owns(p)'
        BY <1>1, <3>1, <3>3, <3>5 DEF Owns, InSleep
      <3>7. \A q \in Procs \ {p} : Owns(q)'
        BY <1>1, <2>0, <3>1, <3>4 DEF Rules, Ownership, Owns
      <3>8. Ownership'
        BY <1>1, <3>3, <3>4, <3>6, <3>7 DEF Ownership
      <3> QED BY <1>1, <3>2, <3>8 DEF Rules
    <2>4. CASE P!SleepSched(p)
      <3>1. slk' = slk /\ own' = own /\ pc[p] = "sleep_sched"
            /\ (pc' = pc \/ pc' = [pc EXCEPT ![p] = "slept"])
        BY <2>4 DEF P!SleepSched, P!CallSched
      <3>2. Shape' /\ Places'
        BY <1>1, <2>0, <3>1 DEF Rules, Shape, Places
      <3>3. \A u \in Threads \ {p} : own'[u] = own[u] /\ pc'[u] = pc[u]
        BY <3>1 DEF Rules, Shape
      <3>4. own'[p] = {} /\ pc'[p] \in {"sleep_sched", "slept"}
        BY <2>0, <3>1 DEF Rules, Shape, Ownership, Owns, InSleep
      <3>5. Owns(p)
        BY <2>0 DEF Rules, Ownership
      <3>6. Owns(p)'
        BY <1>1, <3>1, <3>4, <3>5 DEF Owns, InSleep
      <3>7. Ownership'
        BY <2>0, <2>7, <3>1, <3>3, <3>6, OthersOwn
      <3> QED BY <1>1, <3>2, <3>7 DEF Rules
    <2>5. CASE P!SleepResume(p)
      <3>1. slk[p] # Ptable
        BY <2>5, <2>0, ZenonT(60) DEF P!SleepResume, Rules, Ownership, Owns, InSleep, Held,
           HandlerHolds, Named
      <3>2. slk' = slk /\ own' = own /\ pc[p] = "slept"
            /\ (pc' = pc \/ pc' = [pc EXCEPT ![p] = "sleep_acq"])
        BY <2>5, <3>1 DEF P!SleepResume
      <3>3. Shape' /\ Places'
        BY <1>1, <2>0, <3>2 DEF Rules, Shape, Places
      <3>4. \A u \in Threads \ {p} : own'[u] = own[u] /\ pc'[u] = pc[u]
        BY <3>2 DEF Rules, Shape
      <3>5. own'[p] = {} /\ pc'[p] \in {"slept", "sleep_acq"}
        BY <2>0, <3>2 DEF Rules, Shape, Ownership, Owns, InSleep
      <3>6. Owns(p)
        BY <2>0 DEF Rules, Ownership
      <3>7. Owns(p)'
        BY <1>1, <3>2, <3>5, <3>6 DEF Owns, InSleep
      <3>8. Ownership'
        BY <2>0, <2>7, <3>2, <3>4, <3>7, OthersOwn
      <3> QED BY <1>1, <3>3, <3>8 DEF Rules
    <2>6. CASE P!SleepReacquire(p)
      <3>1. pc[p] = "sleep_acq"
            /\ \/ slk' = slk /\ own' = own /\ pc' = pc
               \/ /\ pc' = [pc EXCEPT ![p] = "kern"]
                  /\ own' = [own EXCEPT ![p] = @ \cup {slk[p]}]
                  /\ slk' = [slk EXCEPT ![p] = Ptable]
        BY <2>6 DEF P!SleepReacquire
      <3>2. Shape' /\ Places'
        BY <1>1, <2>0, <3>1 DEF Rules, Shape, Places
      <3>3. /\ \A u \in Threads \ {p} : own'[u] = own[u] /\ pc'[u] = pc[u]
            /\ \A q \in Procs \ {p} : slk'[q] = slk[q]
        BY <3>1 DEF Rules, Shape
      <3>4. /\ own[p] = {} /\ Held(p) = {slk[p]}
            /\ task[p] \in {"lk_test", "io_wait"}
        BY <2>0, <3>1 DEF Rules, Ownership, Owns, InSleep
      <3>5. \/ own'[p] = {} /\ pc'[p] = "sleep_acq" /\ slk'[p] = slk[p]
            \/ own'[p] = {slk[p]} /\ pc'[p] = "kern"
        BY <3>1, <3>4 DEF Rules, Shape
      <3>6. Owns(p)'
        BY <1>1, <3>4, <3>5 DEF Owns, InSleep
      <3>7. Ownership'
        BY <2>0, <2>7, <3>3, <3>6, OthersOwn
      <3> QED BY <1>1, <3>2, <3>7 DEF Rules
    <2> QED BY <1>4, <2>2, <2>3, <2>4, <2>5, <2>6 DEF KernelStep
  <1>5. CASE P!WakeupScan(Irq)
    <2>1. own' = own /\ slk' = slk /\ cur' = cur /\ halt = ""
          /\ (pc' = pc \/ pc' = [pc EXCEPT ![Irq] = "kern"])
      BY <1>5 DEF P!WakeupScan
    <2>2. Shape' /\ Places'
      BY <1>1, <2>1 DEF Rules, Shape, Places
    <2>3. Ownership'
      BY <1>1, <2>1 DEF Rules, Shape, Ownership, Owns, InSleep
    <2> QED BY <1>1, <2>2, <2>3 DEF Rules
  <1> QED BY <1>2, <1>3, <1>4, <1>5 DEF InProcess

(* Adding to the queue and taking from it. *)
LEMMA QueueSteps ==
    ASSUME NEW q \in Seq(Bufs)
    PROVE  /\ \A b \in Bufs : Append(q, b) \in Seq(Bufs)
           /\ q # <<>> => Head(q) \in Bufs /\ Tail(q) \in Seq(Bufs)
  OBVIOUS

(* The steps of a process in sleeplock.c and in the driver. *)
LEMMA DriverKeeps ==
    ASSUME Rules, NEW p \in Procs, DriverStep(p)
    PROVE  Rules'
  <1> USE Names, InKernel DEF InCode, Do
  <1>1. /\ cur = p /\ halt = "" /\ pc[p] = "kern"
        /\ own[p] = Held(p) /\ pc[Sched] # "init_user"
    <2>1. P!At(p, "kern")
      BY DEF DriverStep, AcquireSleepLock, AcquireSleepWait, AcquireSleepTake,
         ReleaseSleep, RequestIo, QueueRequest, StartRequest, AwaitRequest,
         RequestDone
    <2>2. cur = p /\ halt = "" /\ pc[p] = "kern"
      BY <2>1 DEF P!At, P!Running
    <2>3. own[p] = Held(p)
      BY <2>1
    <2>4. pc[Sched] # "init_user"
      BY <2>2 DEF Rules, Places
    <2> QED BY <2>2, <2>3, <2>4
  <1>2. ASSUME NEW b \in Bufs, AcquireSleepLock(p, b) PROVE Rules'
    <2>1. own[p] = {}
      BY <1>1, <1>2 DEF AcquireSleepLock, Held, HandlerHolds
    <2>2. P!ClientAcquire(p, SpinLock(b)) /\ Shape /\ p \in Threads
      BY <1>2 DEF AcquireSleepLock, Rules
    <2>3. /\ task'[p] = "lk_test" /\ buf'[p] = b
          /\ \A u \in Threads \ {p} : task'[u] = task[u] /\ buf'[u] = buf[u]
      BY <1>2 DEF AcquireSleepLock, Rules, QueueType
    <2>4. QueueType' /\ Named' /\ Shape' /\ Places'
      BY <1>1, <1>2, <2>2, AcquireEffect DEF AcquireSleepLock, ioVars, Rules,
         QueueType, Named, Shape, Places
    <2>5. halt' = "" => Owns(p)'
      BY <1>1, <2>1, <2>2, <2>3, AcquireEffect, ZenonT(60) DEF Held, Owns, InSleep
    <2>6. Ownership'
      BY <1>1, <2>2, <2>3, <2>5, AcquireEffect, OthersOwn
    <2> QED BY <2>4, <2>6 DEF Rules
  <1>3. ASSUME NEW c, NEW l, Held(p) = {l}, l # Ptable, P!SleepEnter(p, c, l),
               task[p] \in {"lk_test", "io_wait"},
               UNCHANGED <<ioVars, slocked, task, buf>>
        PROVE  Rules'
    <2>1. QueueType' /\ Named' /\ Shape' /\ Places'
      BY <1>1, <1>3, SleepEffect, ZenonT(60) DEF ioVars, Rules, QueueType, Named, Shape,
         Places
    <2>2. Held(p)' = {l}
      BY <1>3 DEF Held
    <2>3. halt' = "" => Owns(p)'
      BY <1>1, <1>3, <2>2, SleepEffect, ZenonT(60) DEF Rules, Owns, InSleep
    <2>4. /\ \A u \in Threads \ {p} : own'[u] = own[u] /\ pc'[u] = pc[u]
          /\ \A q \in Procs \ {p} : slk'[q] = slk[q]
      BY <1>3, SleepEffect DEF Rules
    <2>5. task' = task /\ buf' = buf
      BY <1>3
    <2>6. Ownership'
      BY <1>1, <2>3, <2>4, <2>5, OthersOwn
    <2> QED BY <2>1, <2>6 DEF Rules
  <1>4. ASSUME NEW l, NEW label, Held(p) = {l}, P!ClientRelease(p, l),
               label \in {"none", "holds"}, Do(p, label),
               task[p] # "none", UNCHANGED <<ide_queue, buf>>
        PROVE  Rules'
    <2>1. QueueType' /\ Named' /\ Shape' /\ Places'
      BY <1>1, <1>4, ReleaseEffect DEF ioVars, Rules, QueueType, Named, Shape,
         Places
    <2>2. /\ task'[p] = label
          /\ \A u \in Threads \ {p} : task'[u] = task[u] /\ buf'[u] = buf[u]
      BY <1>4 DEF Rules, QueueType
    <2>3. Held(p)' = {}
      BY <1>4, <2>2 DEF Held, HandlerHolds
    <2>4. /\ pc' = pc /\ slk' = slk
          /\ \A u \in Threads \ {p} : own'[u] = own[u]
          /\ halt' = "" => own'[p] = own[p] \ {l}
      BY <1>4, ReleaseEffect DEF Rules
    <2>5. own[p] = {l}
      BY <1>1, <1>4
    <2>6. halt' = "" => own'[p] = {}
      BY <2>4, <2>5
    <2>7. halt' = "" => Owns(p)'
      BY <1>1, <2>3, <2>4, <2>6 DEF Owns, InSleep
    <2>8. Ownership'
      BY <1>1, <2>2, <2>4, <2>7, OthersOwn
    <2> QED BY <2>1, <2>8 DEF Rules
  <1>5. ASSUME NEW label, Do(p, label), UNCHANGED procVars, Held(p)' = Held(p),
               buf' \in [Threads -> Bufs \cup {NoBuf}],
               \A t \in Threads \ {p} : buf'[t] = buf[t],
               label # "none" => buf'[p] \in Bufs, ide_queue' \in Seq(Bufs)
        PROVE  Rules'
    <2>1. QueueType' /\ Named' /\ Shape' /\ Places'
      BY <1>1, <1>5 DEF procVars, Rules, QueueType, Named, Shape, Places
    <2>2. own' = own /\ pc' = pc /\ slk' = slk
      BY <1>5 DEF procVars
    <2>3. \A t \in Threads \ {p} : task'[t] = task[t] /\ buf'[t] = buf[t]
      BY <1>5 DEF Rules, QueueType
    <2>4. Owns(p)'
      BY <1>1, <1>5, <2>2 DEF Owns, InSleep
    <2>5. Ownership'
      BY <1>1, <2>2, <2>3, <2>4, OthersOwn
    <2> QED BY <2>1, <2>5 DEF Rules
  <1>6. CASE AcquireSleepWait(p)
    <2>1. Held(p) = {SpinLock(buf[p])} /\ SpinLock(buf[p]) # Ptable
      BY <1>6 DEF AcquireSleepWait, Held, Rules, Named
    <2> QED BY <1>3, <1>6, <2>1 DEF AcquireSleepWait
  <1>7. CASE AcquireSleepTake(p)
    BY <1>4, <1>7 DEF AcquireSleepTake, Held, ioVars
  <1>8. CASE ReleaseSleep(p)
    <2>1. Held(p) = {} /\ Held(p)' = {}
      BY <1>8 DEF ReleaseSleep, Held, HandlerHolds, Rules, QueueType
    <2> QED BY <1>5, <1>8, <2>1 DEF ReleaseSleep, ioVars, Rules, QueueType
  <1>9. CASE RequestIo(p)
    <2>1. own[p] = {} /\ buf[p] \in Bufs
      BY <1>1, <1>9 DEF RequestIo, Held, HandlerHolds, Rules, Named
    <2>2. P!ClientAcquire(p, IdeLock) /\ Shape
      BY <1>9 DEF RequestIo, Rules
    <2>3. /\ task'[p] = "io_queue"
          /\ \A u \in Threads \ {p} : task'[u] = task[u] /\ buf'[u] = buf[u]
      BY <1>9 DEF RequestIo, Rules, QueueType
    <2>4. QueueType' /\ Named' /\ Shape' /\ Places'
      BY <1>1, <1>9, <2>1, <2>2, AcquireEffect DEF RequestIo, ioVars, Rules,
         QueueType, Named, Shape, Places
    <2>5. halt' = "" => Owns(p)'
      BY <1>1, <2>1, <2>2, <2>3, AcquireEffect, ZenonT(60) DEF Held, Owns, InSleep
    <2>6. Ownership'
      BY <1>1, <2>2, <2>3, <2>5, AcquireEffect, OthersOwn
    <2> QED BY <2>4, <2>6 DEF Rules
  <1>10. CASE QueueRequest(p)
    <2>1. buf[p] \in Bufs
      BY <1>10 DEF QueueRequest, Rules, Named
    <2>2. ide_queue' = Append(ide_queue, buf[p]) /\ buf' = buf
      BY <1>10 DEF QueueRequest
    <2>3. task[p] = "io_queue" /\ task'[p] \in {"io_start", "io_wait"}
      BY <1>10 DEF QueueRequest, Rules, QueueType
    <2>4. Held(p)' = Held(p)
      BY <2>3 DEF Held
    <2>5. ide_queue' \in Seq(Bufs)
      BY <2>1, <2>2, QueueSteps DEF Rules, QueueType
    <2>6. PICK label \in {"io_start", "io_wait"} : Do(p, label)
      BY <1>10 DEF QueueRequest
    <2>7. UNCHANGED procVars
      BY <1>10 DEF QueueRequest
    <2> QED BY <1>5, <2>1, <2>2, <2>4, <2>5, <2>6, <2>7 DEF Rules, QueueType
  <1>11. CASE StartRequest(p)
    <2>1. buf[p] \in Bufs
      BY <1>11 DEF StartRequest, Rules, Named
    <2>2. Held(p)' = Held(p) /\ ide_queue' \in Seq(Bufs) /\ buf' = buf
      BY <1>11 DEF StartRequest, Held, Rules, QueueType
    <2>3. UNCHANGED procVars
      BY <1>11, StartRuns
    <2> QED BY <1>5, <1>11, <2>1, <2>2, <2>3 DEF StartRequest, Rules, QueueType
  <1>12. CASE AwaitRequest(p)
    BY <1>3, <1>12 DEF AwaitRequest, Held
  <1>13. CASE RequestDone(p)
    BY <1>4, <1>13 DEF RequestDone, Held, ioVars
  <1> QED
    BY <1>2, <1>6, <1>7, <1>8, <1>9, <1>10, <1>11, <1>12, <1>13 DEF DriverStep

(* The steps of ide_handler, and the interrupt that calls it. *)
LEMMA HandlerKeeps ==
    ASSUME Rules, HandlerStep \/ DiskInterrupt
    PROVE  Rules'
  <1> USE Names DEF InCode, Do
  <1>0. /\ halt = "" /\ own[Irq] = Held(Irq) /\ Shape /\ QueueType
        /\ HandlerStep => pc[Irq] = "kern"
    <2>1. HandlerStep => P!At(Irq, "kern")
      BY DEF HandlerStep, HandlerAcquire, HandlerNoRequest, HandlerTakeHead,
         HandlerTransfer, HandlerWakeup, HandlerStartNext, HandlerRelease,
         HandlerReturn, P!InterruptReturn
    <2>2. DiskInterrupt => halt = ""
      BY DEF DiskInterrupt, P!Interrupt
    <2> QED BY <2>1, <2>2 DEF P!At, P!Running, Rules, Ownership
  (* The handler moves in its code, and the table of Process does not change *)
  (* except for its own place.                                               *)
  <1>1. ASSUME NEW label, task'[Irq] = label, DOMAIN task' = Threads,
               \A u \in Threads \ {Irq} : task'[u] = task[u], slk' = slk, cur' = cur,
               DOMAIN own' = DOMAIN own, DOMAIN pc' = DOMAIN pc,
               \A u \in (Threads \cup {Sched}) \ {Irq} : pc'[u] = pc[u],
               \A u \in Threads \ {Irq} : own'[u] = own[u] /\ buf'[u] = buf[u],
               halt' = "" => own'[Irq] = Held(Irq)',
               buf' \in [Threads -> Bufs \cup {NoBuf}],
               label \in {"h_transfer", "h_wakeup", "h_next"} => buf'[Irq] \in Bufs,
               ide_queue' \in Seq(Bufs), pc'[Irq] = "off" => label = "none"
        PROVE  Rules'
    <2>1. QueueType' /\ Named' /\ Shape' /\ Places'
      BY <1>1 DEF Rules, QueueType, Named, Shape, Places
    <2>2. Ownership'
      BY <1>0, <1>1, OthersOwn
    <2> QED BY <2>1, <2>2 DEF Rules
  <1>2. CASE HandlerAcquire
    <2>1. own[Irq] = {}
      BY <1>0, <1>2 DEF HandlerAcquire, Held, HandlerHolds
    <2>2. Held(Irq)' = {IdeLock}
      BY <1>0, <1>2 DEF HandlerAcquire, Held, HandlerHolds, QueueType
    <2>3. P!ClientAcquire(Irq, IdeLock)
      BY <1>2 DEF HandlerAcquire
    <2>4. halt' = "" => own'[Irq] = Held(Irq)'
      BY <1>0, <2>1, <2>2, <2>3, AcquireEffect
    <2>5. /\ UNCHANGED <<pc, slk, cur, ide_queue, buf>> /\ DOMAIN own' = DOMAIN own
          /\ \A u \in Threads \ {Irq} : own'[u] = own[u]
      BY <1>0, <1>2, <2>3, AcquireEffect DEF HandlerAcquire, ioVars
    <2>6. task' = [task EXCEPT ![Irq] = "h_head"] /\ pc[Irq] = "kern"
      BY <1>2 DEF HandlerAcquire, P!At
    <2>7. /\ task'[Irq] = "h_head" /\ DOMAIN task' = Threads
          /\ \A u \in Threads \ {Irq} : task'[u] = task[u]
      BY <1>0, <2>6 DEF QueueType
    <2> QED BY <1>0, <1>1, <2>7, <2>4, <2>5, <2>6 DEF QueueType
  <1>3. CASE HandlerNoRequest
    <2>1. Held(Irq)' = Held(Irq)
      BY <1>0, <1>3 DEF HandlerNoRequest, Held, HandlerHolds, QueueType
    <2>2. UNCHANGED <<pc, slk, cur, own, ide_queue, buf>>
      BY <1>3 DEF HandlerNoRequest, procVars, ioVars
    <2>3. task' = [task EXCEPT ![Irq] = "h_release"] /\ pc[Irq] = "kern"
      BY <1>3 DEF HandlerNoRequest, P!At
    <2>4. /\ task'[Irq] = "h_release" /\ DOMAIN task' = Threads
          /\ \A u \in Threads \ {Irq} : task'[u] = task[u]
      BY <1>0, <2>3 DEF QueueType
    <2> QED BY <1>0, <1>1, <2>4, <2>1, <2>2, <2>3 DEF QueueType
  <1>4. CASE HandlerTakeHead
    <2>1. Held(Irq) = {IdeLock} /\ Held(Irq)' = {IdeLock}
      BY <1>0, <1>4 DEF HandlerTakeHead, Held, HandlerHolds, QueueType
    <2>2. Head(ide_queue) \in Bufs /\ Tail(ide_queue) \in Seq(Bufs)
      BY <1>0, <1>4, QueueSteps DEF HandlerTakeHead, QueueType
    <2> QED BY <1>0, <1>1, <1>4, <2>1, <2>2
            DEF P!At, HandlerStep, HandlerTakeHead, procVars, QueueType
  <1>5. CASE HandlerTransfer
    <2>1. Held(Irq) = {IdeLock} /\ Held(Irq)' = {IdeLock} /\ buf[Irq] \in Bufs
      BY <1>0, <1>5 DEF HandlerTransfer, Held, HandlerHolds, QueueType, Rules, Named
    <2> QED BY <1>0, <1>1, <1>5, <2>1 DEF P!At, HandlerStep, HandlerTransfer, procVars, QueueType
  <1>6. CASE HandlerWakeup
    <2>1. Held(Irq) = {IdeLock} /\ Held(Irq)' = {IdeLock} /\ buf[Irq] \in Bufs
      BY <1>0, <1>6 DEF HandlerWakeup, Held, HandlerHolds, QueueType, Rules, Named
    <2>2. P!WakeupAcquire(Irq, BufAddr(buf[Irq]))
      BY <1>6 DEF HandlerWakeup
    <2>3. /\ UNCHANGED <<slk, cur, own, ide_queue, buf>>
          /\ pc' = pc \/ pc' = [pc EXCEPT ![Irq] = "wake"]
      BY <1>6, <2>2, WakeupEffect DEF HandlerWakeup, ioVars
    <2>4. task' = [task EXCEPT ![Irq] = "h_next"] /\ pc[Irq] = "kern"
      BY <1>6 DEF HandlerWakeup, P!At
    <2>5. /\ DOMAIN pc' = DOMAIN pc /\ pc'[Irq] # "off"
          /\ \A u \in (Threads \cup {Sched}) \ {Irq} : pc'[u] = pc[u]
      BY <1>0, <2>3, <2>4 DEF Shape
    <2> QED BY <1>0, <1>1, <2>1, <2>3, <2>4, <2>5 DEF QueueType
  <1>7. CASE HandlerStartNext
    <2>1. Held(Irq) = {IdeLock} /\ Held(Irq)' = {IdeLock}
      BY <1>0, <1>7 DEF HandlerStartNext, Held, HandlerHolds, QueueType
    <2>2. UNCHANGED procVars
      BY <1>7, StartRuns
    <2> QED BY <1>0, <1>1, <1>7, <2>1, <2>2
            DEF P!At, HandlerStep, HandlerStartNext, procVars, QueueType
  <1>8. CASE HandlerRelease
    <2>1. own[Irq] = {IdeLock}
      BY <1>0, <1>8 DEF HandlerRelease, Held, HandlerHolds
    <2>2. Held(Irq)' = {}
      BY <1>0, <1>8 DEF HandlerRelease, Held, HandlerHolds, QueueType
    <2>3. P!ClientRelease(Irq, IdeLock)
      BY <1>8 DEF HandlerRelease
    <2>4. halt' = "" => own'[Irq] = Held(Irq)'
      BY <1>0, <2>1, <2>2, <2>3, ReleaseEffect
    <2>5. /\ UNCHANGED <<pc, slk, cur, ide_queue, buf>> /\ DOMAIN own' = DOMAIN own
          /\ \A u \in Threads \ {Irq} : own'[u] = own[u]
      BY <1>0, <1>8, <2>3, ReleaseEffect DEF HandlerRelease, ioVars
    <2>6. task' = [task EXCEPT ![Irq] = "none"] /\ pc[Irq] = "kern"
      BY <1>8 DEF HandlerRelease, P!At
    <2>7. /\ task'[Irq] = "none" /\ DOMAIN task' = Threads
          /\ \A u \in Threads \ {Irq} : task'[u] = task[u]
      BY <1>0, <2>6 DEF QueueType
    <2> QED BY <1>0, <1>1, <2>7, <2>4, <2>5, <2>6 DEF QueueType
  <1>9. CASE HandlerReturn
    <2>1. /\ UNCHANGED <<ide_queue, task, buf, own, slk, cur>>
          /\ pc' = [pc EXCEPT ![Irq] = "off"] /\ task[Irq] = "none"
      BY <1>9 DEF HandlerReturn, P!InterruptReturn, P!Goto, ioVars
    <2>2. Held(Irq)' = Held(Irq)
      BY <2>1 DEF Held
    <2> QED BY <1>0, <1>1, <2>1, <2>2 DEF QueueType, Shape
  <1>10. CASE DiskInterrupt
    <2>1. /\ UNCHANGED <<ide_queue, buf, own, slk, cur>>
          /\ pc' = [pc EXCEPT ![Irq] = "kern"]
          /\ task' = [task EXCEPT ![Irq] = "h_acquire"] /\ pc[Irq] = "off"
      BY <1>10 DEF DiskInterrupt, P!Interrupt, P!Goto
    <2>2. Held(Irq)' = {}
      BY <1>0, <2>1 DEF Held, HandlerHolds, QueueType
    <2>3. own[Irq] = {}
      BY <1>0, <2>1 DEF Rules, Places, Held, HandlerHolds
    <2>4. /\ DOMAIN pc' = DOMAIN pc /\ pc'[Irq] = "kern"
          /\ \A u \in (Threads \cup {Sched}) \ {Irq} : pc'[u] = pc[u]
      BY <1>0, <2>1 DEF Shape
    <2>5. /\ task'[Irq] = "h_acquire" /\ DOMAIN task' = Threads
          /\ \A u \in Threads \ {Irq} : task'[u] = task[u]
      BY <1>0, <2>1 DEF QueueType
    <2> QED BY <1>0, <1>1, <2>1, <2>2, <2>3, <2>4, <2>5 DEF QueueType
  <1> QED
    BY <1>2, <1>3, <1>4, <1>5, <1>6, <1>7, <1>8, <1>9, <1>10 DEF HandlerStep

(* Every step keeps the invariant and the rules. *)
LEMMA NextKeeps ==
    ASSUME Rules, [Next]_vars
    PROVE  Rules' /\ (Disciplined!Next \/ UNCHANGED procVars)
  <1>1. CASE InProcess
    BY <1>1, InProcessKeeps, InProcessRuled
  <1>2. ASSUME NEW p \in Procs, DriverStep(p)
        PROVE  Rules' /\ (Disciplined!Next \/ UNCHANGED procVars)
    BY <1>2, DriverKeeps, DriverRuled
  <1>3. CASE DiskInterrupt \/ HandlerStep
    BY <1>3, HandlerKeeps, HandlerRuled
  <1>4. ASSUME UNCHANGED <<procVars, ide_queue, task, buf>>
        PROVE  Rules' /\ (Disciplined!Next \/ UNCHANGED procVars)
    BY <1>4 DEF Rules, QueueType, Shape, Ownership, Owns, Held, Places, Named,
       procVars
  <1>5. CASE DriveDone \/ SpuriousRequest
    BY <1>4, <1>5 DEF DriveDone, SpuriousRequest
  <1>6. CASE UNCHANGED vars
    BY <1>4, <1>6 DEF vars, ioVars
  <1> QED BY <1>1, <1>2, <1>3, <1>5, <1>6 DEF Next

(* Rules holds in every state. *)
LEMMA RulesInvariant == Spec => []Rules
  <1>1. Init => Rules
    BY InitRules
  <1>2. Rules /\ [Next]_vars => Rules'
    BY NextKeeps
  <1> QED BY <1>1, <1>2, PTL DEF Spec

(* Driver and sleep locks keep the rules Process has for its clients, in   *)
(* every step they make. *)
THEOREM Discipline == Spec => KeepsTheRules
  <1>1. Init => Disciplined!Init
    BY DEF Init, P!Init, Disciplined!Init, P!Procs, Disciplined!Procs, P!Irq,
       Disciplined!Irq, P!Sched, Disciplined!Sched, P!Threads,
       Disciplined!Threads, P!Locks, Disciplined!Locks, P!NoProc,
       Disciplined!NoProc, P!KPGDIR, Disciplined!KPGDIR, P!CpuInit,
       Disciplined!CpuInit
  <1>2. Rules /\ [Next]_vars => [Disciplined!Next]_(Disciplined!vars)
    BY NextKeeps DEF procVars, Disciplined!vars
  <1> QED BY <1>1, <1>2, RulesInvariant, PTL DEF Spec, KeepsTheRules, Disciplined!Spec

-----------------------------------------------------------------------------
(* What ProcessProofs shows of clients that keep the rules *)

Ruled == INSTANCE ProcessProofs WITH
        CLocks <- {SpinLock(b) : b \in Bufs} \cup {IdeLock},
        Chans  <- {BufAddr(b) : b \in Bufs} \cup {SleepLock(b) : b \in Bufs},
        Wild   <- FALSE

(* Ruled and Disciplined are the same specification. *)
LEMMA SameInit == Ruled!Init <=> Disciplined!Init
  BY DEF Ruled!Init, Disciplined!Init, Ruled!Procs, Disciplined!Procs,
         Ruled!NoProc, Disciplined!NoProc, Ruled!KPGDIR, Disciplined!KPGDIR,
         Ruled!Locks, Disciplined!Locks, Ruled!CpuInit, Disciplined!CpuInit,
         Ruled!Sched, Disciplined!Sched, Ruled!Threads, Disciplined!Threads,
         Ruled!Irq, Disciplined!Irq

(* Their steps are the same too. *)
LEMMA SameNext == Ruled!Next <=> Disciplined!Next
  BY DEF Ruled!Next, Disciplined!Next, Ruled!InitUser, Disciplined!InitUser,
         Ruled!At, Disciplined!At, Ruled!Running, Disciplined!Running,
         Ruled!Irq, Disciplined!Irq, Ruled!Sched, Disciplined!Sched,
         Ruled!Procs, Disciplined!Procs, Ruled!Goto, Disciplined!Goto,
         Ruled!InitUserFails, Disciplined!InitUserFails, Ruled!Panic,
         Disciplined!Panic, Ruled!StartScheduler, Disciplined!StartScheduler,
         Ruled!Sti, Disciplined!Sti, Ruled!NoProc, Disciplined!NoProc,
         Ruled!SchedStep, Disciplined!SchedStep, Ruled!SchedSti,
         Disciplined!SchedSti, Ruled!SchedAcquire, Disciplined!SchedAcquire,
         Ruled!AcquireFault, Disciplined!AcquireFault, Ruled!Acquire,
         Disciplined!Acquire, Ruled!PushCli, Disciplined!PushCli,
         Ruled!SchedSkip, Disciplined!SchedSkip, Ruled!SchedSwitch,
         Disciplined!SchedSwitch, Ruled!SchedBack, Disciplined!SchedBack,
         Ruled!KPGDIR, Disciplined!KPGDIR, Ruled!SchedRelease,
         Disciplined!SchedRelease, Ruled!ReleaseFault,
         Disciplined!ReleaseFault, Ruled!PopCliFault, Disciplined!PopCliFault,
         Ruled!ReleaseFrom, Disciplined!ReleaseFrom, Ruled!PopCli,
         Disciplined!PopCli, Ruled!ProcStep, Disciplined!ProcStep,
         Ruled!ForkRet, Disciplined!ForkRet, Ruled!TrapRet,
         Disciplined!TrapRet, Ruled!Syscall, Disciplined!Syscall, Ruled!Cli,
         Disciplined!Cli, Ruled!SyscallExit, Disciplined!SyscallExit,
         Ruled!CallSched, Disciplined!CallSched, Ruled!SchedFault,
         Disciplined!SchedFault, Ruled!SyscallReturn,
         Disciplined!SyscallReturn, Ruled!YieldAcquire,
         Disciplined!YieldAcquire, Ruled!YieldSched, Disciplined!YieldSched,
         Ruled!YieldReturn, Disciplined!YieldReturn, Ruled!ForgetSaved,
         Disciplined!ForgetSaved, Ruled!Restored, Disciplined!Restored,
         Ruled!Locks, Disciplined!Locks, Ruled!SleepEnter,
         Disciplined!SleepEnter, Ruled!SleepRelease, Disciplined!SleepRelease,
         Ruled!SleepSched, Disciplined!SleepSched, Ruled!SleepResume,
         Disciplined!SleepResume, Ruled!SleepReacquire,
         Disciplined!SleepReacquire, Ruled!ClientStep, Disciplined!ClientStep,
         Ruled!ClientAcquire, Disciplined!ClientAcquire, Ruled!ClientRelease,
         Disciplined!ClientRelease, Ruled!WakeupAcquire,
         Disciplined!WakeupAcquire, Ruled!WakeupScan, Disciplined!WakeupScan,
         Ruled!Woken, Disciplined!Woken, Ruled!Interrupt,
         Disciplined!Interrupt, Ruled!InterruptReturn,
         Disciplined!InterruptReturn, Ruled!Halted, Disciplined!Halted,
         Ruled!vars, Disciplined!vars

(* The invariant of Process, for a kernel with this driver. *)
LEMMA Background == Spec => []Ruled!IInv
  <1>1. Ruled!SizeAssumption /\ Ruled!NameAssumption
    BY ProcessAssumption
    DEF P!SizeAssumption, P!NameAssumption, Ruled!SizeAssumption,
        Ruled!NameAssumption, P!IsFiniteSet, Ruled!IsFiniteSet
  <1>2. Ruled!Spec => []Ruled!IInv
    BY <1>1, Ruled!Invariance
  <1>3. [Disciplined!Next]_(Disciplined!vars) => [Ruled!Next]_(Ruled!vars)
    BY SameNext DEF Ruled!vars, Disciplined!vars
  <1>4. Disciplined!Spec => Ruled!Spec
    BY <1>3, SameInit, PTL DEF Disciplined!Spec, Ruled!Spec
  <1> QED BY <1>2, <1>4, Discipline, PTL DEF KeepsTheRules

(* No step of a driver that keeps the rules stops the machine. *)
LEMMA NeverHalted == Spec => [](halt = "")
  <1>1. Init => halt = ""
    BY DEF Init, P!Init
  <1>2. ASSUME halt = "", Rules, Ruled!IInv, Ruled!IInv', Next
        PROVE  halt' = ""
    <2>1. halt' \in {"", "page fault", "userinit: out of memory?",
                     "sched ptable.lock"}
          /\ (halt' = "sched ptable.lock" => state'[cproc'] = "ZOMBIE")
      BY <1>2 DEF Ruled!IInv, Ruled!NoPanic
    <2>2. CASE P!SchedStep \/ Boot \/ P!WakeupScan(Irq)
      BY <1>2, <2>1, <2>2
      DEF Boot, P!InitUser, P!StartScheduler, P!SchedStep, P!SchedSti,
          P!SchedAcquire, P!SchedSkip, P!SchedSwitch, P!SchedBack,
          P!SchedRelease, P!WakeupScan, P!Panic, P!AcquireFault,
          P!ReleaseFault, P!PopCliFault
    <2>3. ASSUME NEW p \in Procs, P!Syscall(p) \/ KernelStep(p)
          PROVE  halt' = ""
      <3>1. CASE P!SleepSched(p)
        <4>0. p # P!Irq /\ Ruled!Procs = Procs
          BY Names DEF Ruled!Procs, Procs, P!Procs
        <4>1. cproc \in Procs /\ cproc' = cproc
              /\ state' = [state EXCEPT ![cproc] = "SLEEPING"]
              /\ state \in [Procs -> Ruled!ProcState]
          BY <1>2, <2>3, <3>1, <4>0
          DEF P!SleepSched, P!CallSched, P!At, P!Running, Ruled!IInv,
              Ruled!TypeOK, Ruled!Current
        <4>2. state'[cproc'] = "SLEEPING"
          BY <4>1
        <4>3. halt' \in {"", "sched ptable.lock", "sched locks",
                         "sched running", "sched interruptible"}
          BY <1>2, <3>1 DEF P!SleepSched, P!CallSched, P!SchedFault
        <4> QED BY <2>1, <4>2, <4>3
      <3>2. CASE ~P!SleepSched(p)
        BY <1>2, <2>1, <2>3, <3>2
        DEF KernelStep, P!Syscall, P!ForkRet, P!TrapRet, P!SleepRelease,
            P!SleepResume, P!SleepReacquire, P!SyscallReturn, P!Panic,
            P!AcquireFault, P!ReleaseFault, P!PopCliFault
      <3> QED BY <3>1, <3>2
    <2>4. ASSUME NEW t, NEW l, P!ClientAcquire(t, l) \/ P!ClientRelease(t, l)
          PROVE  halt' = ""
      BY <1>2, <2>1, <2>4
      DEF P!ClientAcquire, P!ClientRelease, P!Panic, P!AcquireFault,
          P!ReleaseFault, P!PopCliFault
    <2>5. ASSUME NEW t, NEW c, NEW l,
                 P!SleepEnter(t, c, l) \/ P!WakeupAcquire(t, c)
          PROVE  halt' = ""
      BY <1>2, <2>1, <2>5
      DEF P!SleepEnter, P!WakeupAcquire, P!Panic, P!AcquireFault
    <2>6. CASE P!Interrupt \/ P!InterruptReturn \/ UNCHANGED procVars
      BY <1>2, <2>6 DEF P!Interrupt, P!InterruptReturn, procVars
    <2>7. ASSUME NEW p \in Procs, DriverStep(p) PROVE halt' = ""
      BY <1>2, <2>4, <2>5, <2>6, <2>7, StartRuns
      DEF DriverStep, AcquireSleepLock, AcquireSleepWait, AcquireSleepTake,
          ReleaseSleep, RequestIo, QueueRequest, AwaitRequest, RequestDone
    <2>8. CASE DiskInterrupt \/ HandlerStep
      BY <1>2, <2>4, <2>5, <2>6, <2>8, StartRuns
      DEF DiskInterrupt, HandlerStep, HandlerAcquire, HandlerNoRequest,
          HandlerTakeHead, HandlerTransfer, HandlerWakeup, HandlerRelease,
          HandlerReturn
    <2>9. CASE DriveDone \/ SpuriousRequest
      BY <2>6, <2>9 DEF DriveDone, SpuriousRequest
    <2> QED BY <1>2, <2>2, <2>3, <2>7, <2>8, <2>9 DEF Next, InProcess
  <1>3. ASSUME halt = "", UNCHANGED vars PROVE halt' = ""
    BY <1>3 DEF vars, procVars
  <1>4. halt = "" /\ Rules /\ Ruled!IInv /\ Ruled!IInv' /\ [Next]_vars => (halt = "")'
    BY <1>2, <1>3
  <1> QED BY <1>1, <1>4, Background, RulesInvariant, PTL DEF Spec

-----------------------------------------------------------------------------
(* Who may hold ide_lock *)

(* A machine that runs, with what Process and Disk promise about it.       *)
Sound == halt = "" /\ Rules /\ Ruled!IInv

(* All of it together is an invariant. *)
LEMMA SoundInvariance == Spec => []Sound
  <1>1. halt = "" /\ Rules /\ Ruled!IInv => Sound
    BY DEF Sound
  <1> QED BY <1>1, NeverHalted, RulesInvariant, Background, PTL

(* It is held by one thread: by the process that has the CPU, or by the    *)
(* handler. *)
LEMMA Exclusive ==
    ASSUME Sound
    PROVE  /\ \A p \in Procs : IdeLock \in own[p] =>
                    cur = p /\ pc[p] # "slept" /\ task[Irq] = "none"
           /\ \A p \in Procs : task[p] \in {"io_queue", "io_start"} =>
                    IdeLock \in own[p]
           /\ task[Irq] \in HandlerHolds => \A p \in Procs : IdeLock \notin own[p]
           /\ IdeFree <=> \A t \in Threads : IdeLock \notin own[t]
  <1> USE Names DEF Sound
  <1>1. ASSUME NEW p \in Procs, IdeLock \in own[p]
        PROVE  cur = p /\ pc[p] # "slept" /\ pc[Irq] = "off"
    <2>1. cur = p
      BY <1>1 DEF Ruled!IInv, Ruled!Parked, Ruled!OwnershipByLabel,
         Ruled!OwnedAtLabel, Ruled!Procs, Procs, P!Procs
    <2>2. pc[p] \notin {"trap_ret", "user", "slept", "sti", "acquire"}
      BY <1>1 DEF Ruled!IInv, Ruled!TypeOK, Ruled!ProcLabels,
         Ruled!OwnershipByLabel,
         Ruled!OwnedAtLabel, Ruled!Procs, Procs, P!Procs
    <2>3. pc[Irq] = "off"
      BY <2>1, <2>2 DEF Ruled!IInv, Ruled!InterruptWindow, Ruled!Open,
         Ruled!Irq, Irq, P!Irq
    <2> QED BY <2>1, <2>2, <2>3
  <1>2. ASSUME NEW p \in Procs, task[p] \in {"io_queue", "io_start"}
        PROVE  IdeLock \in own[p]
    BY <1>2 DEF Rules, Ownership, Owns, InSleep, Held
  <1>3. task[Irq] \in HandlerHolds => pc[Irq] # "off"
    BY DEF Rules, Places, HandlerHolds
  <1>4. own[Sched] = {} /\ cur \in Procs \cup {Sched}
    BY DEF Ruled!IInv, Ruled!OwnershipByLabel, Ruled!Sched, Sched, P!Sched,
       Ruled!TypeOK, Ruled!Procs, Procs, P!Procs
  <1>5. IdeFree <=> IdeLock \notin own[cur] \cup own[Irq]
    <2>1. \A t : IdeLock \in Ruled!Holds(t) <=> IdeLock \in own[t]
      BY DEF Ruled!Holds
    <2>2. IdeLock \in Ruled!Locks
      BY DEF Ruled!Locks
    <2> QED BY <2>1, <2>2 DEF IdeFree, Ruled!IInv, Ruled!LocksAccounted,
            Ruled!Irq, Irq, P!Irq, Ruled!TypeOK
  <1>6. IdeFree <=> \A t \in Threads : IdeLock \notin own[t]
    BY <1>1, <1>4, <1>5 DEF Threads
  <1> QED BY <1>1, <1>2, <1>3, <1>6 DEF Rules, Places

-----------------------------------------------------------------------------
(* One holder of each buffer: `locked' of a sleep lock is set from the     *)
(* first acquire_sleep on, and a process gets past the test only by        *)
(* setting it. *)

Using(p, b) == buf[p] = b /\ task[p] \notin {"none", "lk_test"}

Holders   == \A p \in Procs, b \in Bufs : Using(p, b) => b \in slocked
OneHolder == \A p, q \in Procs, b \in Bufs : Using(p, b) /\ Using(q, b) => p = q

(* A step keeps a buffer with its holder. *)
LEMMA HoldersStep ==
    ASSUME Rules, Holders, OneHolder, [Next]_vars
    PROVE  Holders' /\ OneHolder'
  <1> USE Names DEF Holders, OneHolder
  <1>0. DOMAIN task = Threads /\ DOMAIN buf = Threads
    BY DEF Rules, QueueType
  <1>1. ASSUME \A p \in Procs, b \in Bufs : Using(p, b)' => Using(p, b),
               slocked' = slocked
        PROVE  Holders' /\ OneHolder'
    BY <1>1
  <1>2. CASE UNCHANGED <<slocked, task, buf>>
    BY <1>1, <1>2 DEF Using
  <1>3. ASSUME NEW p \in Procs, DriverStep(p)
        PROVE  Holders' /\ OneHolder'
    <2> USE DEF InCode, Do, Using
    <2>1. ASSUME NEW b \in Bufs, AcquireSleepLock(p, b)
          PROVE  Holders' /\ OneHolder'
      BY <1>0, <1>1, <2>1 DEF AcquireSleepLock
    <2>2. CASE AcquireSleepTake(p)
      <3>0. /\ buf' = buf /\ task'[p] = "holds"
            /\ \A q \in Procs \ {p} : task'[q] = task[q]
        BY <1>0, <2>2 DEF AcquireSleepTake
      <3>1. \A q \in Procs, b \in Bufs :
                Using(q, b)' => Using(q, b) \/ (q = p /\ b = buf[p])
        <4> SUFFICES ASSUME NEW q \in Procs, NEW b \in Bufs, Using(q, b)'
                     PROVE  Using(q, b) \/ (q = p /\ b = buf[p])
          OBVIOUS
        <4>1. CASE q = p
          BY <3>0, <4>1
        <4>2. CASE q # p
          BY <3>0, <4>2
        <4> QED BY <4>1, <4>2
      <3>2. buf[p] \notin slocked /\ slocked' = slocked \cup {buf[p]}
        BY <2>2 DEF AcquireSleepTake
      <3> QED BY <3>1, <3>2
    <2>3. CASE ReleaseSleep(p)
      BY <1>0, <1>1, <2>3 DEF ReleaseSleep
    <2>4. CASE RequestIo(p) \/ QueueRequest(p) \/ StartRequest(p) \/ RequestDone(p)
      <3>1. /\ task[p] \notin {"none", "lk_test"} /\ UNCHANGED <<slocked, buf>>
            /\ \A q \in Procs \ {p} : task'[q] = task[q]
        BY <1>0, <2>4 DEF RequestIo, QueueRequest, StartRequest, RequestDone
      <3> QED BY <1>1, <3>1
    <2>5. CASE AcquireSleepWait(p) \/ AwaitRequest(p)
      BY <1>2, <2>5 DEF AcquireSleepWait, AwaitRequest
    <2> QED BY <1>3, <2>1, <2>2, <2>3, <2>4, <2>5 DEF DriverStep
  <1>4. CASE DiskInterrupt \/ HandlerStep
    <2>1. /\ slocked' = slocked
          /\ \A p \in Procs : task'[p] = task[p] /\ buf'[p] = buf[p]
      BY <1>0, <1>4 DEF DiskInterrupt, HandlerStep, HandlerAcquire,
         HandlerNoRequest, HandlerTakeHead, HandlerTransfer, HandlerWakeup,
         HandlerStartNext, HandlerRelease, HandlerReturn, Do
    <2> QED BY <1>1, <2>1 DEF Using
  <1>5. CASE InProcess \/ DriveDone \/ SpuriousRequest \/ UNCHANGED vars
    BY <1>2, <1>5 DEF InProcess, DriveDone, SpuriousRequest, vars
  <1> QED BY <1>3, <1>4, <1>5 DEF Next

-----------------------------------------------------------------------------
(* The queue, the drive and the buffers *)

NotStarting == \A p \in Procs : task[p] # "io_start"
HandlerServes == {"h_transfer", "h_wakeup", "h_next"}

(* The drive has the command for buffer b, with its data if it is a write. *)
ServesRight(b) ==
    /\ drive.buf = b
    /\ drive.write <=> b \in dirty
    /\ drive.write => drive.data = data[b]

(* Except between a change of the queue and the command for its new head,  *)
(* which ide_lock protects, the drive is at the head of the queue.         *)
HeadServed ==
    ide_queue # <<>> /\ NotStarting /\ task[Irq] \notin HandlerServes =>
        /\ ServesRight(Head(ide_queue))
        /\ drive.busy \/ irq \/ task[Irq] \in {"h_acquire", "h_head"}

TakenServed ==
    task[Irq] = "h_transfer" =>
        /\ ServesRight(buf[Irq])
        /\ \A i \in DOMAIN ide_queue : ide_queue[i] # buf[Irq]

StartsAlone == \A p \in Procs : task[p] = "io_start" => ide_queue = <<buf[p]>>

QueuedOnce ==
    \A i, j \in DOMAIN ide_queue : ide_queue[i] = ide_queue[j] => i = j

Awaited ==
    \A i \in DOMAIN ide_queue :
        /\ ~Finished(ide_queue[i])
        /\ \E p \in Procs : /\ buf[p] = ide_queue[i]
                            /\ task[p] \in {"io_wait", "io_start"}

(* What the drive did or is about to do.  A write has data. *)
DriveTrue ==
    /\ \A b \in dirty : data[b] \in Versions
    /\ drive.write => drive.data \in Versions
    /\ drive.busy => drive.buf \in Bufs
    /\ drive.failed => ~drive.busy /\ drive.buf \in spoilt
    /\ drive.write /\ ~drive.busy /\ ~drive.failed => disk[drive.buf] = drive.data

(* A finished buffer the drive still works on is being written as it is.   *)
WritesOut ==
    \A b \in valid \ dirty :
        drive.busy /\ drive.buf = b => drive.write /\ drive.data = data[b]

DriverInv ==
    /\ TypeOK
    /\ HeadServed /\ TakenServed /\ StartsAlone /\ QueuedOnce /\ Awaited
    /\ DriveTrue /\ WritesOut /\ BufferMatchesDisk

(* Nothing is queued at first. *)
LEMMA InitDriverInv == Init => DriverInv
  <1> SUFFICES ASSUME Init PROVE DriverInv
    OBVIOUS
  <1>1. TypeOK
    <2>1. drive \in [buf : Bufs \cup {NoBuf}, write : BOOLEAN,
                     data : Versions \cup {Unread}, busy : BOOLEAN,
                     failed : BOOLEAN]
      BY DEF Init, Idle
    <2>2. ide_queue \in Seq(Bufs)
      BY DEF Init
    <2> QED BY <2>1, <2>2 DEF Init, TypeOK, Versions
  <1>2. StartsAlone /\ TakenServed
    BY Names DEF Init, StartsAlone, TakenServed
  <1>3. HeadServed /\ QueuedOnce /\ Awaited
    BY DEF Init, HeadServed, QueuedOnce, Awaited
  <1>4. DriveTrue /\ WritesOut /\ BufferMatchesDisk
    BY DEF Init, Idle, DriveTrue, WritesOut, BufferMatchesDisk
  <1> QED BY <1>1, <1>2, <1>3, <1>4 DEF DriverInv

(* Steps that leave the queue, the drive and the buffers alone. *)
LEMMA QuietKeeps ==
    ASSUME DriverInv, UNCHANGED ioVars, slocked' \subseteq Bufs,
           buf' \in [Threads -> Bufs \cup {NoBuf}], DOMAIN task' = Threads,
           \A p \in Procs :
               /\ task'[p] = "io_start" <=> task[p] = "io_start"
               /\ task[p] \in {"io_wait", "io_start"} /\ ~Finished(buf[p])
                    => task'[p] = task[p] /\ buf'[p] = buf[p]
               /\ task[p] = "io_start" => buf'[p] = buf[p],
           task'[Irq] = "h_transfer" => task[Irq] = "h_transfer" /\ buf'[Irq] = buf[Irq],
           task[Irq] \in HandlerServes => task'[Irq] \in HandlerServes,
           ide_queue # <<>> /\ task[Irq] \in {"h_acquire", "h_head"}
               => task'[Irq] \in {"h_acquire", "h_head"} \cup HandlerServes
    PROVE  DriverInv'
  <1> USE DEF DriverInv, ioVars
  <1>1. TypeOK'
    BY DEF TypeOK
  <1>2. HeadServed'
    BY DEF HeadServed, NotStarting, ServesRight
  <1>3. TakenServed' /\ StartsAlone' /\ QueuedOnce'
    BY DEF TakenServed, StartsAlone, QueuedOnce, ServesRight
  <1>4. Awaited'
    BY DEF Awaited, Finished
  <1>5. DriveTrue' /\ WritesOut' /\ BufferMatchesDisk'
    BY DEF DriveTrue, WritesOut, BufferMatchesDisk
  <1> QED BY <1>1, <1>2, <1>3, <1>4, <1>5

(* What Append does to the entries of a queue. *)
LEMMA AppendFacts ==
    ASSUME NEW q \in Seq(Bufs), NEW b \in Bufs
    PROVE  /\ Append(q, b) \in Seq(Bufs)
           /\ q = <<>> => Append(q, b) = <<b>>
           /\ q # <<>> => Append(q, b) # <<>> /\ Head(Append(q, b)) = Head(q)
           /\ DOMAIN Append(q, b) = DOMAIN q \cup {Len(q) + 1}
           /\ Append(q, b)[Len(q) + 1] = b
           /\ \A i \in DOMAIN q : Append(q, b)[i] = q[i]
  <1>1. /\ Append(q, b) \in Seq(Bufs) /\ Len(Append(q, b)) = Len(q) + 1
        /\ \A i \in 1..Len(q) : Append(q, b)[i] = q[i]
        /\ Append(q, b)[Len(q) + 1] = b /\ Len(q) \in Nat
        /\ DOMAIN q = 1..Len(q) /\ DOMAIN Append(q, b) = 1..(Len(q) + 1)
    OBVIOUS
  <1>2. 1..(Len(q) + 1) = 1..Len(q) \cup {Len(q) + 1}
    BY <1>1
  <1>3. q = <<>> => Append(q, b) = <<b>>
    OBVIOUS
  <1>4. ASSUME q # <<>>
        PROVE  Append(q, b) # <<>> /\ Head(Append(q, b)) = Head(q)
    <2>1. Len(q) > 0
      BY <1>4
    <2> QED BY <1>1, <2>1
  <1> QED BY <1>1, <1>2, <1>3, <1>4

(* What Head and Tail return. *)
LEMMA TailFacts ==
    ASSUME NEW q \in Seq(Bufs), q # <<>>
    PROVE  /\ Tail(q) \in Seq(Bufs) /\ Head(q) \in Bufs
           /\ 1 \in DOMAIN q /\ Head(q) = q[1] /\ DOMAIN Tail(q) \subseteq Nat \ {0}
           /\ \A i \in DOMAIN Tail(q) : i + 1 \in DOMAIN q /\ Tail(q)[i] = q[i + 1]
  OBVIOUS

(* What the driver steps are about: ide_lock keeps the others out.         *)
Ground == Sound /\ Holders /\ OneHolder /\ DriverInv

(* A request joins the queue: nobody else has its buffer. *)
LEMMA QueueRequestStep ==
    ASSUME Ground, NEW p \in Procs, QueueRequest(p)
    PROVE  DriverInv'
  <1> USE Names DEF InCode, Do
  <1> DEFINE b == buf[p]
  <1>1. /\ task[p] = "io_queue" /\ b \in Bufs /\ ide_queue \in Seq(Bufs)
        /\ task[Irq] = "none" /\ \A q \in Procs \ {p} : task[q] # "io_start"
        /\ DOMAIN task = Threads /\ Using(p, b)
    <2>1. task[p] = "io_queue"
      BY DEF QueueRequest
    <2>2. b \in Bufs /\ ide_queue \in Seq(Bufs) /\ DOMAIN task = Threads
      BY <2>1 DEF Ground, Sound, Rules, Named, QueueType
    <2> QED BY <2>1, <2>2, Exclusive DEF Ground, Using
  <1>2. /\ ide_queue' = Append(ide_queue, b)
        /\ UNCHANGED <<slocked, disk, drive, irq, spoilt, buf>>
        /\ task'[p] = IF ide_queue = <<>> THEN "io_start" ELSE "io_wait"
        /\ DOMAIN task' = Threads
        /\ \A t \in Threads \ {p} : task'[t] = task[t]
    BY <1>1 DEF QueueRequest, Ground
  <1>3. \/ dirty' = dirty \cup {b} /\ valid' = valid
           /\ data' = [data EXCEPT ![b] = "new"]
        \/ dirty' = dirty /\ valid' = valid \ {b} /\ data' = data
    BY DEF QueueRequest
  <1>4. \A i \in DOMAIN ide_queue : ide_queue[i] # b /\ ide_queue[i] \in Bufs
    <2> SUFFICES ASSUME NEW i \in DOMAIN ide_queue, ide_queue[i] = b PROVE FALSE
      BY <1>1
    <2>1. PICK q \in Procs : buf[q] = b /\ task[q] \in {"io_wait", "io_start"}
      BY DEF Ground, DriverInv, Awaited
    <2>2. Using(q, b)
      BY <2>1 DEF Using
    <2>3. q = p
      BY <1>1, <2>2 DEF Ground, OneHolder
    <2> QED BY <1>1, <2>1, <2>3
  <1>5. ide_queue' \in Seq(Bufs) /\ DOMAIN ide_queue' = DOMAIN ide_queue \cup {Len(ide_queue) + 1}
        /\ ide_queue'[Len(ide_queue) + 1] = b
        /\ \A i \in DOMAIN ide_queue : ide_queue'[i] = ide_queue[i]
    BY <1>1, <1>2, AppendFacts
  <1>6. TypeOK'
    BY <1>1, <1>2, <1>3, <1>5 DEF Ground, DriverInv, TypeOK, Versions
  <1>7. HeadServed'
    <2> SUFFICES ASSUME ide_queue # <<>>
                 PROVE  ServesRight(Head(ide_queue))' /\ (drive.busy \/ irq)
      <3>1. ide_queue = <<>> => ~NotStarting'
        BY <1>2 DEF NotStarting
      <3> QED BY <1>2, <3>1 DEF HeadServed
    <2>1. Head(ide_queue') = Head(ide_queue) /\ Head(ide_queue) = ide_queue[1]
          /\ 1 \in DOMAIN ide_queue
      BY <1>1, <1>2, AppendFacts, TailFacts
    <2>2. ServesRight(Head(ide_queue)) /\ (drive.busy \/ irq)
      BY <1>1 DEF Ground, DriverInv, HeadServed, NotStarting, HandlerServes
    <2>3. Head(ide_queue) # b
      BY <1>4, <2>1
    <2> QED BY <1>2, <1>3, <2>1, <2>2, <2>3 DEF ServesRight, Ground, DriverInv, TypeOK
  <1>8. TakenServed'
    BY <1>1, <1>2 DEF TakenServed
  <1>9. StartsAlone'
    BY <1>1, <1>2, AppendFacts DEF StartsAlone
  <1>10. QueuedOnce'
    BY <1>4, <1>5 DEF QueuedOnce, Ground, DriverInv
  <1>11. Awaited'
    <2> SUFFICES ASSUME NEW i \in DOMAIN ide_queue'
                 PROVE  /\ ~Finished(ide_queue[i])'
                        /\ \E q \in Procs : /\ buf'[q] = ide_queue'[i]
                                            /\ task'[q] \in {"io_wait", "io_start"}
      BY DEF Awaited
    <2>1. CASE i \in DOMAIN ide_queue
      <3>1. PICK q \in Procs : /\ buf[q] = ide_queue[i]
                               /\ task[q] \in {"io_wait", "io_start"}
        BY <2>1 DEF Ground, DriverInv, Awaited
      <3>2. ~Finished(ide_queue[i]) /\ ide_queue[i] # b
        BY <1>4, <2>1 DEF Ground, DriverInv, Awaited
      <3>3. ~Finished(ide_queue[i])'
        BY <1>3, <1>5, <2>1, <3>2 DEF Finished
      <3> QED BY <1>1, <1>2, <1>5, <2>1, <3>1, <3>3
    <2>2. CASE i = Len(ide_queue) + 1
      <3>1. ~Finished(b)'
        BY <1>2, <1>3 DEF Finished
      <3> QED BY <1>2, <1>5, <2>2, <3>1 DEF Finished
    <2> QED BY <1>5, <2>1, <2>2
  <1>12. DriveTrue'
    BY <1>1, <1>2, <1>3 DEF Ground, DriverInv, TypeOK, DriveTrue, Versions
  <1>13. WritesOut' /\ BufferMatchesDisk'
    BY <1>2, <1>3 DEF Ground, DriverInv, TypeOK, WritesOut, BufferMatchesDisk
  <1> QED BY <1>6, <1>7, <1>8, <1>9, <1>10, <1>11, <1>12, <1>13 DEF DriverInv

(* A command for an unfinished buffer, given to a drive that is ready.     *)
LEMMA IdeStartEffect ==
    ASSUME DriverInv, NEW b \in Bufs, ~Finished(b), IdeStart(b),
           UNCHANGED <<valid, dirty, data, disk, spoilt>>
    PROVE  /\ ServesRight(b)' /\ drive'.busy
           /\ drive' \in [buf : Bufs \cup {NoBuf}, write : BOOLEAN,
                          data : Versions \cup {Unread}, busy : BOOLEAN,
                          failed : BOOLEAN]
           /\ DriveTrue' /\ WritesOut' /\ BufferMatchesDisk'
  <1>1. drive' = [buf |-> b, write |-> b \in dirty, data |-> data[b],
                  busy |-> TRUE, failed |-> FALSE] /\ ~drive.busy
    BY IdeStartRuns DEF Ready
  <1>2. ServesRight(b)' /\ drive'.busy
    BY <1>1 DEF ServesRight
  <1>3. data[b] \in Versions \cup {Unread}
    BY DEF DriverInv, TypeOK
  <1>4. DriveTrue' /\ WritesOut' /\ BufferMatchesDisk'
    BY <1>1 DEF DriverInv, DriveTrue, WritesOut, BufferMatchesDisk, Finished
  <1> QED BY <1>1, <1>2, <1>3, <1>4

(* The first request of an empty queue starts the drive. *)
LEMMA StartRequestStep ==
    ASSUME Ground, NEW p \in Procs, StartRequest(p)
    PROVE  DriverInv'
  <1> USE Names DEF InCode, Do
  <1>1. /\ task[p] = "io_start" /\ buf[p] \in Bufs /\ ide_queue = <<buf[p]>>
        /\ task[Irq] = "none" /\ \A q \in Procs \ {p} : task[q] # "io_start"
        /\ DOMAIN task = Threads
    <2>1. task[p] = "io_start"
      BY DEF StartRequest
    <2>2. buf[p] \in Bufs /\ DOMAIN task = Threads
      BY <2>1 DEF Ground, Sound, Rules, Named, QueueType
    <2>3. ide_queue = <<buf[p]>>
      BY <2>1 DEF Ground, DriverInv, StartsAlone
    <2> QED BY <2>1, <2>2, <2>3, Exclusive DEF Ground
  <1>2. /\ UNCHANGED <<slocked, ide_queue, valid, dirty, data, disk, irq, spoilt, buf>>
        /\ task'[p] = "io_wait" /\ DOMAIN task' = Threads
        /\ \A t \in Threads \ {p} : task'[t] = task[t]
        /\ IdeStart(buf[p])
    BY <1>1 DEF StartRequest, Ground
  <1>3. Head(ide_queue) = buf[p] /\ ~Finished(buf[p])
    BY <1>1 DEF Ground, DriverInv, Awaited
  <1>4. ServesRight(buf[p])' /\ drive'.busy /\ DriveTrue' /\ WritesOut' /\ BufferMatchesDisk'
        /\ drive' \in [buf : Bufs \cup {NoBuf}, write : BOOLEAN,
                       data : Versions \cup {Unread}, busy : BOOLEAN,
                       failed : BOOLEAN]
    BY <1>1, <1>2, <1>3, IdeStartEffect DEF Ground
  <1>5. TypeOK'
    BY <1>2, <1>4 DEF Ground, DriverInv, TypeOK
  <1>6. HeadServed' /\ TakenServed' /\ StartsAlone' /\ QueuedOnce'
    BY <1>1, <1>2, <1>3, <1>4 DEF HeadServed, TakenServed, StartsAlone,
       QueuedOnce, Ground, DriverInv, ServesRight
  <1>7. Awaited'
    BY <1>1, <1>2 DEF Awaited, Finished, Ground, DriverInv
  <1> QED BY <1>4, <1>5, <1>6, <1>7 DEF DriverInv

(* The handler has ide_lock from its acquire to its release: no process is *)
(* about to start the drive. *)
LEMMA HandlerAlone ==
    ASSUME Ground, task[Irq] \in HandlerHolds
    PROVE  NotStarting
  BY Exclusive DEF Ground, NotStarting

(* The handler takes the request the drive has served. *)
LEMMA HandlerTakeHeadStep ==
    ASSUME Ground, HandlerTakeHead
    PROVE  DriverInv'
  <1> USE Names DEF InCode, Do
  <1>1. /\ task[Irq] = "h_head" /\ ide_queue # <<>> /\ ide_queue \in Seq(Bufs)
        /\ DOMAIN task = Threads /\ DOMAIN buf = Threads
    BY DEF HandlerTakeHead, Ground, DriverInv, TypeOK
  <1>2. NotStarting
    BY <1>1, HandlerAlone DEF HandlerHolds
  <1>3. /\ buf'[Irq] = Head(ide_queue) /\ ide_queue' = Tail(ide_queue)
        /\ task'[Irq] = "h_transfer" /\ DOMAIN task' = Threads
        /\ \A t \in Threads \ {Irq} : task'[t] = task[t] /\ buf'[t] = buf[t]
        /\ UNCHANGED <<slocked, valid, dirty, data, disk, drive, irq, spoilt>>
    BY <1>1 DEF HandlerTakeHead
  <1>4. /\ ide_queue' \in Seq(Bufs) /\ Head(ide_queue) \in Bufs
        /\ 1 \in DOMAIN ide_queue /\ Head(ide_queue) = ide_queue[1]
        /\ \A i \in DOMAIN ide_queue' :
                i + 1 \in DOMAIN ide_queue /\ ide_queue'[i] = ide_queue[i + 1]
        /\ DOMAIN ide_queue' \subseteq Nat \ {0}
    BY <1>1, <1>3, TailFacts
  <1>5. ServesRight(Head(ide_queue))
    BY <1>1, <1>2 DEF Ground, DriverInv, HeadServed, HandlerServes
  <1>6. TypeOK'
    <2>1. buf' \in [Threads -> Bufs \cup {NoBuf}]
      BY <1>3, <1>4 DEF HandlerTakeHead, Ground, DriverInv, TypeOK
    <2> QED BY <1>3, <1>4, <2>1 DEF Ground, DriverInv, TypeOK
  <1>7. HeadServed'
    BY <1>3 DEF HeadServed, HandlerServes
  <1>8. TakenServed'
    <2>1. \A i \in DOMAIN ide_queue' : ide_queue'[i] # Head(ide_queue)
      BY <1>4 DEF Ground, DriverInv, QueuedOnce
    <2> QED BY <1>3, <1>5, <2>1 DEF TakenServed, ServesRight
  <1>9. StartsAlone'
    BY <1>2, <1>3 DEF StartsAlone, NotStarting
  <1>10. QueuedOnce'
    BY <1>4 DEF Ground, DriverInv, QueuedOnce
  <1>11. Awaited'
    BY <1>3, <1>4 DEF Ground, DriverInv, Awaited, Finished
  <1>12. DriveTrue' /\ WritesOut' /\ BufferMatchesDisk'
    BY <1>3 DEF Ground, DriverInv, DriveTrue, WritesOut, BufferMatchesDisk
  <1> QED BY <1>6, <1>7, <1>8, <1>9, <1>10, <1>11, <1>12 DEF DriverInv

(* It finishes the buffer, with the data of that request. *)
LEMMA HandlerTransferStep ==
    ASSUME Ground, HandlerTransfer
    PROVE  DriverInv'
  <1> USE Names DEF InCode, Do
  <1> DEFINE b == buf[Irq]
  <1>1. task[Irq] = "h_transfer" /\ b \in Bufs /\ DOMAIN task = Threads
    BY DEF HandlerTransfer, Ground, DriverInv, TypeOK, Sound, Rules, Named
  <1>2. NotStarting
    BY <1>1, HandlerAlone DEF HandlerHolds
  <1>3. ServesRight(b) /\ \A i \in DOMAIN ide_queue : ide_queue[i] # b
    BY <1>1 DEF Ground, DriverInv, TakenServed
  <1>4. /\ b \notin dirty => ~drive.busy
        /\ data' = IF b \notin dirty /\ ~drive.failed
                   THEN [data EXCEPT ![b] = disk[b]] ELSE data
        /\ valid' = valid \cup {b} /\ dirty' = dirty \ {b}
        /\ task'[Irq] = "h_wakeup" /\ DOMAIN task' = Threads
        /\ \A t \in Threads \ {Irq} : task'[t] = task[t]
        /\ UNCHANGED <<slocked, ide_queue, disk, drive, irq, spoilt, buf>>
    BY <1>1, <1>3 DEF HandlerTransfer, Ready, ServesRight
  <1>5. /\ data' \in [Bufs -> Versions \cup {Unread}]
        /\ \A c \in Bufs \ {b} : data'[c] = data[c]
        /\ b \notin dirty /\ ~drive.failed => data'[b] = disk[b]
        /\ b \in dirty => data'[b] = data[b]
    BY <1>1, <1>4 DEF Ground, DriverInv, TypeOK, Versions
  <1>6. TypeOK'
    BY <1>1, <1>4, <1>5 DEF Ground, DriverInv, TypeOK
  <1>7. HeadServed' /\ TakenServed'
    BY <1>4 DEF HeadServed, TakenServed, HandlerServes
  <1>8. StartsAlone'
    BY <1>2, <1>4 DEF StartsAlone, NotStarting
  <1>9. QueuedOnce'
    BY <1>4 DEF Ground, DriverInv, QueuedOnce
  <1>10. Awaited'
    BY <1>3, <1>4 DEF Ground, DriverInv, Awaited, Finished
  <1>11. DriveTrue'
    BY <1>1, <1>4, <1>5 DEF Ground, DriverInv, TypeOK, DriveTrue
  <1>12. WritesOut'
    BY <1>1, <1>3, <1>4, <1>5 DEF Ground, DriverInv, TypeOK, WritesOut, ServesRight
  <1>13. BufferMatchesDisk'
    <2> SUFFICES ASSUME NEW c \in valid' \ (dirty' \cup spoilt')
                 PROVE  (drive.busy /\ drive.buf = c) \/ data'[c] = disk[c]
      BY <1>4 DEF BufferMatchesDisk
    <2>1. CASE c # b
      BY <1>1, <1>4, <1>5, <2>1 DEF Ground, DriverInv, TypeOK, BufferMatchesDisk
    <2>2. CASE c = b
      BY <1>1, <1>3, <1>4, <1>5, <2>2 DEF Ground, DriverInv, DriveTrue, ServesRight
    <2> QED BY <2>1, <2>2
  <1> QED BY <1>6, <1>7, <1>8, <1>9, <1>10, <1>11, <1>12, <1>13 DEF DriverInv

(* It gives the drive the next request. *)
LEMMA HandlerStartNextStep ==
    ASSUME Ground, HandlerStartNext
    PROVE  DriverInv'
  <1> USE Names DEF InCode, Do
  <1>1. /\ task[Irq] = "h_next" /\ ide_queue \in Seq(Bufs)
        /\ DOMAIN task = Threads /\ DOMAIN buf = Threads
    BY DEF HandlerStartNext, Ground, DriverInv, TypeOK
  <1>2. NotStarting
    BY <1>1, HandlerAlone DEF HandlerHolds
  <1>3. /\ task'[Irq] = "h_release" /\ DOMAIN task' = Threads
        /\ \A t \in Threads \ {Irq} : task'[t] = task[t] /\ buf'[t] = buf[t]
        /\ buf' \in [Threads -> Bufs \cup {NoBuf}]
        /\ UNCHANGED <<slocked, ide_queue, valid, dirty, data, disk, irq, spoilt>>
    BY <1>1 DEF HandlerStartNext, Ground, DriverInv, TypeOK
  <1>4. /\ drive' \in [buf : Bufs \cup {NoBuf}, write : BOOLEAN,
                       data : Versions \cup {Unread}, busy : BOOLEAN,
                       failed : BOOLEAN]
        /\ DriveTrue' /\ WritesOut' /\ BufferMatchesDisk'
        /\ ide_queue # <<>> => ServesRight(Head(ide_queue))' /\ drive'.busy
    <2>1. CASE ide_queue = <<>>
      <3>1. drive' = drive
        BY <2>1 DEF HandlerStartNext
      <3> QED BY <1>3, <2>1, <3>1 DEF Ground, DriverInv, TypeOK, DriveTrue,
              WritesOut, BufferMatchesDisk
    <2>2. CASE ide_queue # <<>>
      <3> DEFINE h == Head(ide_queue)
      <3>1. IdeStart(h)
        BY <2>2 DEF HandlerStartNext
      <3>2. h \in Bufs /\ 1 \in DOMAIN ide_queue /\ h = ide_queue[1]
        BY <1>1, <2>2, TailFacts
      <3>3. ~Finished(h)
        BY <3>2 DEF Ground, DriverInv, Awaited
      <3>4. /\ ServesRight(h)' /\ drive'.busy
            /\ drive' \in [buf : Bufs \cup {NoBuf}, write : BOOLEAN,
                           data : Versions \cup {Unread}, busy : BOOLEAN,
                           failed : BOOLEAN]
            /\ DriveTrue' /\ WritesOut' /\ BufferMatchesDisk'
        <4> HIDE DEF h
        <4>1. drive' = [buf |-> h, write |-> h \in dirty, data |-> data[h],
                        busy |-> TRUE, failed |-> FALSE] /\ h' = h
          BY <1>3, <3>1, <3>2, IdeStartRuns DEF h
        <4>2. \A c \in Bufs : c = h =>
                /\ ServesRight(c)' /\ drive'.busy
                /\ drive' \in [buf : Bufs \cup {NoBuf}, write : BOOLEAN,
                               data : Versions \cup {Unread}, busy : BOOLEAN,
                               failed : BOOLEAN]
                /\ DriveTrue' /\ WritesOut' /\ BufferMatchesDisk'
          BY <1>3, <3>1, <3>3, IdeStartEffect DEF Ground
        <4> QED BY <3>2, <4>1, <4>2 DEF ServesRight
      <3> QED BY <1>3, <3>4
    <2> QED BY <2>1, <2>2
  <1>5. TypeOK'
    BY <1>3, <1>4 DEF Ground, DriverInv, TypeOK
  <1>6. HeadServed' /\ TakenServed'
    BY <1>3, <1>4 DEF HeadServed, TakenServed
  <1>7. StartsAlone'
    BY <1>2, <1>3 DEF StartsAlone, NotStarting
  <1>8. QueuedOnce' /\ Awaited'
    BY <1>3 DEF Ground, DriverInv, QueuedOnce, Awaited, Finished
  <1> QED BY <1>4, <1>5, <1>6, <1>7, <1>8 DEF DriverInv

(* The drive carries out what it was told. *)
LEMMA DriveDoneStep ==
    ASSUME Ground, DriveDone
    PROVE  DriverInv'
  <1>1. PICK failed \in BOOLEAN :
        /\ drive' = [drive EXCEPT !.busy = FALSE, !.failed = failed]
        /\ spoilt' = IF failed THEN spoilt \cup {drive.buf} ELSE spoilt \ {drive.buf}
        /\ disk' = IF drive.write /\ ~failed
                   THEN [disk EXCEPT ![drive.buf] = drive.data] ELSE disk
    BY DEF DriveDone
  <1>2. /\ drive.busy /\ irq'
        /\ UNCHANGED <<slocked, ide_queue, valid, dirty, data, task, buf>>
    BY DEF DriveDone
  <1>3. drive.buf \in Bufs
    BY <1>2 DEF Ground, DriverInv, DriveTrue
  <1>4. /\ ~drive'.busy /\ drive'.failed = failed
        /\ drive'.buf = drive.buf /\ drive'.write = drive.write /\ drive'.data = drive.data
    BY <1>1 DEF Ground, DriverInv, TypeOK
  <1>5. \A c \in Bufs : c # drive.buf => disk'[c] = disk[c] /\ (c \in spoilt' <=> c \in spoilt)
    BY <1>1 DEF Ground, DriverInv, TypeOK
  <1>6. drive.write /\ ~failed => disk'[drive.buf] = drive.data
    BY <1>1, <1>3 DEF Ground, DriverInv, TypeOK
  <1>7. TypeOK'
    <2>1. disk' \in [Bufs -> Versions]
      BY <1>1, <1>3 DEF Ground, DriverInv, TypeOK, DriveTrue
    <2>2. drive' \in [buf : Bufs \cup {NoBuf}, write : BOOLEAN,
                     data : Versions \cup {Unread}, busy : BOOLEAN,
                     failed : BOOLEAN]
      BY <1>1 DEF Ground, DriverInv, TypeOK
    <2>3. spoilt' \subseteq Bufs
      BY <1>1, <1>3 DEF Ground, DriverInv, TypeOK
    <2> QED BY <1>2, <2>1, <2>2, <2>3 DEF Ground, DriverInv, TypeOK
  <1>8. HeadServed' /\ TakenServed'
    BY <1>2, <1>4 DEF HeadServed, TakenServed, NotStarting, ServesRight, Ground, DriverInv
  <1>9. StartsAlone' /\ QueuedOnce' /\ Awaited'
    BY <1>2 DEF StartsAlone, QueuedOnce, Awaited, Finished, Ground, DriverInv
  <1>10. DriveTrue'
    BY <1>1, <1>2, <1>4, <1>6 DEF DriveTrue, Ground, DriverInv
  <1>11. WritesOut'
    BY <1>4 DEF WritesOut
  <1>12. BufferMatchesDisk'
    <2> SUFFICES ASSUME NEW c \in valid \ (dirty \cup spoilt')
                 PROVE  data[c] = disk'[c]
      BY <1>2 DEF BufferMatchesDisk
    <2>0. c \in Bufs
      BY DEF Ground, DriverInv, TypeOK
    <2>1. CASE c # drive.buf
      BY <1>5, <2>0, <2>1 DEF Ground, DriverInv, BufferMatchesDisk
    <2>2. CASE c = drive.buf
      <3>1. ~failed
        BY <1>1, <2>2
      <3>2. drive.write /\ drive.data = data[c]
        BY <1>2, <2>2 DEF Ground, DriverInv, WritesOut
      <3> QED BY <1>6, <2>2, <3>1, <3>2
    <2> QED BY <2>1, <2>2
  <1> QED BY <1>7, <1>8, <1>9, <1>10, <1>11, <1>12 DEF DriverInv

(* The steps that move a thread through the code. *)
LEMMA DriverStepKeeps ==
    ASSUME Ground, NEW p \in Procs, DriverStep(p)
    PROVE  DriverInv'
  <1> USE Names DEF InCode, Do
  <1>0. /\ DriverInv /\ DOMAIN task = Threads /\ buf \in [Threads -> Bufs \cup {NoBuf}]
        /\ slocked \subseteq Bufs
    BY DEF Ground, DriverInv, TypeOK
  <1>1. ASSUME UNCHANGED ioVars, slocked' \subseteq Bufs,
               task[p] \notin {"io_wait", "io_start"} \/ Finished(buf[p]),
               task[p] # "io_start", task'[p] # "io_start",
               buf' \in [Threads -> Bufs \cup {NoBuf}], DOMAIN task' = Threads,
               \A t \in Threads \ {p} : task'[t] = task[t] /\ buf'[t] = buf[t]
        PROVE  DriverInv'
    <2>1. \A q \in Procs :
               /\ task'[q] = "io_start" <=> task[q] = "io_start"
               /\ task[q] \in {"io_wait", "io_start"} /\ ~Finished(buf[q])
                    => task'[q] = task[q] /\ buf'[q] = buf[q]
               /\ task[q] = "io_start" => buf'[q] = buf[q]
      BY <1>1
    <2>2. task'[Irq] = task[Irq] /\ buf'[Irq] = buf[Irq]
      BY <1>1
    <2> QED BY <1>0, <1>1, <2>1, <2>2, QuietKeeps
  <1>2. ASSUME NEW b \in Bufs, AcquireSleepLock(p, b) PROVE DriverInv'
    <2>1. task'[p] = "lk_test" /\ task[p] = "none"
      BY <1>0, <1>2 DEF AcquireSleepLock
    <2> QED BY <1>0, <1>1, <1>2, <2>1 DEF AcquireSleepLock
  <1>3. CASE AcquireSleepTake(p)
    <2>1. task'[p] = "holds" /\ task[p] = "lk_test" /\ buf[p] \in Bufs
      BY <1>0, <1>3 DEF AcquireSleepTake, Ground, Sound, Rules, Named
    <2> QED BY <1>0, <1>1, <1>3, <2>1 DEF AcquireSleepTake
  <1>4. CASE ReleaseSleep(p)
    <2>1. task'[p] = "none" /\ task[p] = "holds"
      BY <1>0, <1>4 DEF ReleaseSleep
    <2> QED BY <1>0, <1>1, <1>4, <2>1 DEF ReleaseSleep
  <1>5. CASE RequestIo(p)
    <2>1. task'[p] = "io_queue" /\ task[p] = "holds"
      BY <1>0, <1>5 DEF RequestIo
    <2> QED BY <1>0, <1>1, <1>5, <2>1 DEF RequestIo
  <1>6. CASE RequestDone(p)
    <2>1. task'[p] = "holds" /\ task[p] = "io_wait" /\ Finished(buf[p])
      BY <1>0, <1>6 DEF RequestDone
    <2> QED BY <1>0, <1>1, <1>6, <2>1 DEF RequestDone
  <1>7. CASE AcquireSleepWait(p) \/ AwaitRequest(p)
    <2>1. UNCHANGED <<ioVars, slocked, task, buf>>
      BY <1>7 DEF AcquireSleepWait, AwaitRequest
    <2> QED BY <1>0, <2>1, QuietKeeps
  <1> QED BY <1>2, <1>3, <1>4, <1>5, <1>6, <1>7, QueueRequestStep,
          StartRequestStep DEF DriverStep

(* The steps of the handler. *)
LEMMA HandlerStepKeeps ==
    ASSUME Ground, HandlerStep
    PROVE  DriverInv'
  <1> USE Names DEF InCode, Do, HandlerServes
  <1>0. /\ DriverInv /\ DOMAIN task = Threads /\ buf \in [Threads -> Bufs \cup {NoBuf}]
        /\ slocked \subseteq Bufs
    BY DEF Ground, DriverInv, TypeOK
  <1>1. ASSUME UNCHANGED <<ioVars, slocked, buf>>, DOMAIN task' = Threads,
               \A t \in Threads \ {Irq} : task'[t] = task[t],
               task'[Irq] # "h_transfer",
               task[Irq] \in HandlerServes => task'[Irq] \in HandlerServes,
               ide_queue # <<>> /\ task[Irq] \in {"h_acquire", "h_head"}
                   => task'[Irq] \in {"h_acquire", "h_head"} \cup HandlerServes
        PROVE  DriverInv'
    BY <1>0, <1>1, QuietKeeps
  <1>2. CASE HandlerAcquire
    <2>1. task[Irq] = "h_acquire" /\ task'[Irq] = "h_head"
      BY <1>0, <1>2 DEF HandlerAcquire
    <2> QED BY <1>0, <1>1, <1>2, <2>1 DEF HandlerAcquire
  <1>3. CASE HandlerNoRequest
    <2>1. task[Irq] = "h_head" /\ task'[Irq] = "h_release" /\ ide_queue = <<>>
      BY <1>0, <1>3 DEF HandlerNoRequest
    <2> QED BY <1>0, <1>1, <1>3, <2>1 DEF HandlerNoRequest
  <1>4. CASE HandlerWakeup
    <2>1. task[Irq] = "h_wakeup" /\ task'[Irq] = "h_next"
      BY <1>0, <1>4 DEF HandlerWakeup
    <2> QED BY <1>0, <1>1, <1>4, <2>1 DEF HandlerWakeup
  <1>5. CASE HandlerRelease
    <2>1. task[Irq] = "h_release" /\ task'[Irq] = "none"
      BY <1>0, <1>5 DEF HandlerRelease
    <2> QED BY <1>0, <1>1, <1>5, <2>1 DEF HandlerRelease
  <1>6. CASE HandlerReturn
    BY <1>0, <1>1, <1>6 DEF HandlerReturn
  <1> QED BY <1>2, <1>3, <1>4, <1>5, <1>6, HandlerTakeHeadStep,
          HandlerTransferStep, HandlerStartNextStep DEF HandlerStep

(* An interrupt from the drive, or one it did not raise. *)
LEMMA InterruptKeeps ==
    ASSUME Ground, DiskInterrupt \/ SpuriousRequest
    PROVE  DriverInv'
  <1> USE Names DEF Do
  <1>1. /\ UNCHANGED <<slocked, ide_queue, valid, dirty, data, disk, drive, spoilt, buf>>
        /\ irq' \in BOOLEAN /\ DOMAIN task' = Threads
        /\ \A p \in Procs : task'[p] = task[p]
        /\ \/ irq' /\ task'[Irq] = task[Irq]
           \/ task'[Irq] = "h_acquire" /\ task[Irq] = "none"
    <2>1. CASE DiskInterrupt
      <3>1. task[Irq] = "none"
        BY <2>1 DEF DiskInterrupt, P!Interrupt, Ground, Sound, Rules, Places
      <3> QED BY <2>1, <3>1 DEF DiskInterrupt, Ground, DriverInv, TypeOK
    <2>2. CASE SpuriousRequest
      BY <2>2 DEF SpuriousRequest, Ground, DriverInv, TypeOK
    <2> QED BY <2>1, <2>2
  <1>2. TypeOK'
    BY <1>1 DEF Ground, DriverInv, TypeOK
  <1>3. HeadServed' /\ TakenServed'
    BY <1>1 DEF Ground, DriverInv, HeadServed, TakenServed, NotStarting,
       HandlerServes, ServesRight
  <1>4. StartsAlone' /\ QueuedOnce' /\ Awaited'
    BY <1>1 DEF Ground, DriverInv, StartsAlone, QueuedOnce, Awaited, Finished
  <1>5. DriveTrue' /\ WritesOut' /\ BufferMatchesDisk'
    BY <1>1 DEF Ground, DriverInv, DriveTrue, WritesOut, BufferMatchesDisk
  <1> QED BY <1>2, <1>3, <1>4, <1>5 DEF DriverInv

(* Every step keeps the invariant of the driver. *)
LEMMA NextDriverInv ==
    ASSUME Ground, [Next]_vars
    PROVE  DriverInv'
  <1>1. CASE UNCHANGED <<ioVars, slocked, task, buf>>
    <2>1. DriverInv /\ TypeOK
      BY DEF Ground, DriverInv
    <2> QED BY <1>1, <2>1, QuietKeeps DEF TypeOK
  <1>2. CASE InProcess \/ UNCHANGED vars
    BY <1>1, <1>2 DEF InProcess, vars
  <1> QED BY <1>2, DriverStepKeeps, HandlerStepKeeps, InterruptKeeps,
          DriveDoneStep DEF Next

(* The whole invariant holds in every state. *)
LEMMA DriverInvariance == Spec => []Ground
  <1>1. Init => Holders /\ OneHolder /\ DriverInv
    BY InitDriverInv, Names DEF Init, Holders, OneHolder, Using
  <1>2. Sound /\ Holders /\ OneHolder /\ DriverInv /\ [Next]_vars
        => Holders' /\ OneHolder' /\ DriverInv'
    BY HoldersStep, NextDriverInv DEF Ground, Sound
  <1>3. Sound /\ Holders /\ OneHolder /\ DriverInv => Ground
    BY DEF Ground
  <1> QED BY <1>1, <1>2, <1>3, SoundInvariance, PTL DEF Spec

(* The variables of the driver have their types. *)
THEOREM TypeCorrect == Spec => []TypeOK
  <1>1. Ground => TypeOK
    BY DEF Ground, DriverInv
  <1> QED BY <1>1, DriverInvariance, PTL

(* Each completion goes to the request it belongs to, for every number of  *)
(* processes and buffers and also after interrupts the drive did not raise.*)
THEOREM CompletionsInOrder == Spec => []QueueServed
  <1>1. ASSUME Ground PROVE QueueServed
    <2> SUFFICES ASSUME IdeFree PROVE QueueServed
      BY DEF QueueServed
    <2>1. NotStarting /\ task[Irq] \notin HandlerHolds
      <3>1. \A t \in Threads : IdeLock \notin own[t]
        BY <1>1, Exclusive DEF Ground
      <3>2. own[Irq] = Held(Irq)
        BY <1>1 DEF Ground, Sound, Rules, Ownership
      <3>3. task[Irq] \notin HandlerHolds
        BY <3>1, <3>2, Names DEF Held, HandlerHolds
      <3> QED BY <1>1, <3>1, <3>3, Exclusive, Names DEF Ground, NotStarting
    <2>2. task[Irq] \notin HandlerServes /\ task[Irq] # "h_head"
      BY <2>1 DEF HandlerHolds, HandlerServes
    <2>3. ide_queue # <<>> =>
            /\ drive.buf = Head(ide_queue)
            /\ drive.busy \/ irq \/ task[Irq] = "h_acquire"
            /\ drive.write <=> drive.buf \in dirty
      BY <1>1, <2>1, <2>2 DEF Ground, DriverInv, HeadServed, ServesRight
    <2>4. \A i \in DOMAIN ide_queue :
            /\ ~Finished(ide_queue[i])
            /\ \E p \in Procs : buf[p] = ide_queue[i] /\ task[p] = "io_wait"
      BY <1>1, <2>1 DEF Ground, DriverInv, Awaited, NotStarting
    <2> QED BY <1>1, <2>3, <2>4 DEF QueueServed, Ground, DriverInv, QueuedOnce
  <1> QED BY <1>1, DriverInvariance, PTL

-----------------------------------------------------------------------------
(* Nobody sleeps for an answer that has come *)

InQueue(b) == \E i \in DOMAIN ide_queue : ide_queue[i] = b

(* The handler is between taking a request and waking those who wait for   *)
(* it.                                                                     *)
Answering(b) ==
    \/ task[Irq] \in {"h_transfer", "h_wakeup"} /\ buf[Irq] = b
    \/ task[Irq] = "h_next" /\ pc[Irq] = "wake" /\ arg[Irq] = BufAddr(b)

(* A request that is not finished is in the queue or in the handler.       *)
Unanswered ==
    \A p \in Procs :
        task[p] \in {"io_wait", "io_start"} /\ ~Finished(buf[p]) =>
            InQueue(buf[p]) \/ (task[Irq] = "h_transfer" /\ buf[Irq] = buf[p])

(* Who is about to sleep on a buffer has its request in the queue.         *)
Dozes(p) == pc[p] \in {"sleep_rel", "sleep_sched"}
Dozing ==
    \A p \in Procs : Dozes(p) =>
        \/ task[p] = "lk_test" /\ arg[p] = SleepLock(buf[p])
        \/ task[p] = "io_wait" /\ arg[p] = BufAddr(buf[p]) /\ InQueue(buf[p])

Sleepers ==
    \A p \in Procs, b \in Bufs :
        state[p] = "SLEEPING" /\ chan[p] = BufAddr(b) => InQueue(b) \/ Answering(b)

Waking == pc[Irq] = "wake" => task[Irq] = "h_next"

SleepInv == Unanswered /\ Dozing /\ Sleepers /\ Waking

(* What all steps but four do to those who sleep or are about to.          *)
Quiet ==
    /\ \A p \in Procs : state'[p] = "SLEEPING" => state[p] = "SLEEPING"
    /\ \A p \in Procs, b \in Bufs : chan'[p] = BufAddr(b) => chan[p] = BufAddr(b)
    /\ \A p \in Procs : Dozes(p)' => Dozes(p) /\ arg'[p] = arg[p]
    /\ pc[Irq] = "wake" <=> pc'[Irq] = "wake"
    /\ arg'[Irq] = arg[Irq]

(* Types of what Process keeps of the threads.                             *)
LEMMA ThreadTypes ==
    ASSUME Ruled!IInv
    PROVE  /\ state \in [Procs -> Ruled!ProcState] /\ DOMAIN chan = Procs
           /\ DOMAIN pc = Threads \cup {Sched} /\ DOMAIN arg = Threads \cup {Sched}
           /\ NoChan \notin {BufAddr(b) : b \in Bufs}
           /\ Irq \in DOMAIN pc /\ Procs \subseteq DOMAIN pc
  BY ProcessAssumption
  DEF P!NameAssumption, Ruled!IInv, Ruled!TypeOK, Ruled!Procs, Procs, P!Procs,
      Ruled!Threads, Threads, Ruled!Sched, Sched, P!Sched, Ruled!Irq, Irq, P!Irq

(* Who is about to sleep has the CPU to itself.                            *)
LEMMA DozesAlone ==
    ASSUME Ruled!IInv, NEW p \in Procs, Dozes(p)
    PROVE  cur = p /\ pc[Irq] = "off"
  <1>1. cur = p
    BY DEF Dozes, Ruled!IInv, Ruled!Parked, Ruled!Procs, Procs, P!Procs
  <1>2. ~Ruled!Open(cur)
    BY <1>1 DEF Dozes, Ruled!Open
  <1> QED BY <1>1, <1>2 DEF Ruled!IInv, Ruled!InterruptWindow, Ruled!Irq, Irq, P!Irq

(* Steps that neither put anyone to sleep nor wake anyone.                 *)
LEMMA QuietSteps ==
    ASSUME Ruled!IInv
    PROVE  /\ \A t \in Procs \cup {Irq} : \A l :
                 P!ClientAcquire(t, l) \/ P!ClientRelease(t, l) => Quiet
           /\ \A p \in Procs :
                 P!Syscall(p) \/ P!ForkRet(p) \/ P!TrapRet(p) \/ P!SleepRelease(p)
                 \/ P!SleepResume(p) \/ P!SleepReacquire(p) \/ P!SyscallReturn(p) => Quiet
           /\ Boot \/ P!SchedStep \/ P!Interrupt \/ P!InterruptReturn => Quiet
           /\ UNCHANGED procVars => Quiet
  <1> USE ThreadTypes, Names DEF P!At, P!Running, P!Goto, P!Panic
  <1>1. ASSUME UNCHANGED <<state, chan, pc, arg>> PROVE Quiet
    BY <1>1 DEF Quiet, Dozes
  <1>2. ASSUME NEW t \in Threads \cup {Sched}, NEW x, pc[t] # "wake", x # "wake",
               x \notin {"sleep_rel", "sleep_sched"} \/ Dozes(t),
               pc' = [pc EXCEPT ![t] = x], UNCHANGED <<chan, arg>>,
               \A p \in Procs : state'[p] = "SLEEPING" => state[p] = "SLEEPING"
        PROVE  Quiet
    BY <1>2 DEF Quiet, Dozes
  <1>3. ASSUME NEW t \in Procs \cup {Irq}, NEW l, P!ClientAcquire(t, l) \/ P!ClientRelease(t, l)
        PROVE  Quiet
    BY <1>1, <1>3 DEF P!ClientAcquire, P!ClientRelease
  <1>4. ASSUME NEW p \in Procs,
               P!Syscall(p) \/ P!ForkRet(p) \/ P!TrapRet(p) \/ P!SleepRelease(p)
               \/ P!SleepReacquire(p) \/ P!SyscallReturn(p)
        PROVE  Quiet
    <2>1. CASE UNCHANGED <<state, chan, pc, arg>>
      BY <1>1, <2>1
    <2>2. CASE ~UNCHANGED <<state, chan, pc, arg>>
      <3>1. PICK x \in {"kern", "trap_ret", "user", "sleep_sched"} :
               /\ pc' = [pc EXCEPT ![p] = x] /\ UNCHANGED <<state, chan, arg>>
               /\ pc[p] # "wake" /\ (x = "sleep_sched" => pc[p] = "sleep_rel")
        BY <1>4, <2>2
        DEF P!Syscall, P!ForkRet, P!TrapRet, P!SleepRelease, P!SleepReacquire, P!SyscallReturn
      <3> QED BY <1>2, <3>1 DEF Dozes
    <2> QED BY <2>1, <2>2
  <1>5. ASSUME NEW p \in Procs, P!SleepResume(p) PROVE Quiet
    <2>1. /\ chan' = [chan EXCEPT ![p] = NoChan] /\ UNCHANGED <<state, arg>>
          /\ pc' = pc \/ \E x \in {"kern", "sleep_acq"} : pc' = [pc EXCEPT ![p] = x]
      BY <1>5 DEF P!SleepResume
    <2> QED BY <2>1 DEF Quiet, Dozes
  <1>6. CASE Boot
    <2>1. CASE P!InitUser
      <3>1. PICK q \in Procs : /\ state' = [state EXCEPT ![q] = "RUNNABLE"]
                               /\ pc' = [pc EXCEPT ![q] = "fork_ret"]
        BY <2>1 DEF P!InitUser
      <3>2. UNCHANGED <<chan, arg>>
        BY <2>1 DEF P!InitUser
      <3>3. \A p \in Procs : state'[p] = "SLEEPING" => state[p] = "SLEEPING"
        BY <3>1
      <3> QED BY <3>1, <3>2, <3>3 DEF Quiet, Dozes
    <2>2. CASE P!StartScheduler
      BY <2>2 DEF P!StartScheduler, Quiet, Dozes
    <2> QED BY <1>6, <2>1, <2>2 DEF Boot
  <1>7. CASE P!SchedStep
    <2>1. /\ UNCHANGED <<chan, arg>> /\ pc[Sched] # "wake"
          /\ \A p \in Procs : state'[p] = "SLEEPING" => state[p] = "SLEEPING"
          /\ \/ pc' = pc
             \/ \E x \in {"sti", "acquire", "scan", "switched"} : pc' = [pc EXCEPT ![Sched] = x]
      BY <1>7 DEF P!SchedStep, P!SchedSti, P!SchedAcquire, P!SchedSkip, P!SchedSwitch,
         P!SchedBack, P!SchedRelease
    <2> QED BY <2>1 DEF Quiet, Dozes
  <1>8. CASE P!Interrupt \/ P!InterruptReturn
    <2>1. /\ UNCHANGED <<state, chan, arg>> /\ pc[Irq] # "wake"
          /\ \E x \in {"kern", "off"} : pc' = [pc EXCEPT ![Irq] = x]
      BY <1>8 DEF P!Interrupt, P!InterruptReturn
    <2> QED BY <2>1 DEF Quiet, Dozes
  <1>9. UNCHANGED procVars => Quiet
    BY <1>1 DEF procVars
  <1> QED BY <1>3, <1>4, <1>5, <1>6, <1>7, <1>8, <1>9

(* A quiet step that loses no request and moves nobody who is about to     *)
(* sleep.                                                                  *)
LEMMA QuietSleep ==
    ASSUME SleepInv, Quiet, Unanswered',
           \A b \in Bufs : InQueue(b) => InQueue(b)' \/ Answering(b)',
           \A b \in Bufs : Answering(b) => Answering(b)',
           \A p \in Procs : Dozes(p) =>
                task'[p] = task[p] /\ buf'[p] = buf[p] /\ ide_queue' = ide_queue,
           pc[Irq] = "wake" => task'[Irq] = task[Irq]
    PROVE  SleepInv'
  <1>1. Dozing'
    BY DEF SleepInv, Dozing, Quiet, InQueue
  <1>2. Sleepers'
    BY DEF SleepInv, Sleepers, Quiet
  <1>3. Waking'
    BY DEF SleepInv, Waking, Quiet
  <1> QED BY <1>1, <1>2, <1>3 DEF SleepInv

(* One that touches neither the queue, nor the flags, nor the places.      *)
LEMMA SameSleep ==
    ASSUME SleepInv, Quiet, UNCHANGED <<ide_queue, valid, dirty, task, buf>>
    PROVE  SleepInv'
  <1>1. Unanswered'
    BY DEF SleepInv, Unanswered, InQueue, Finished
  <1>2. \A b \in Bufs : (InQueue(b) => InQueue(b)') /\ (Answering(b) => Answering(b)')
    BY DEF InQueue, Answering, Quiet
  <1> QED BY <1>1, <1>2, QuietSleep

(* It holds at first: nobody has run. *)
LEMMA InitSleep == Init => SleepInv
  <1> SUFFICES ASSUME Init PROVE SleepInv
    OBVIOUS
  <1> USE Names
  <1>1. Unanswered
    BY DEF Init, Unanswered, Threads
  <1>2. \A p \in Procs : state[p] = "UNUSED" /\ pc[p] = "none"
    BY DEF Init, P!Init
  <1>3. pc[Irq] = "off"
    BY DEF Init, P!Init
  <1> QED BY <1>1, <1>2, <1>3 DEF SleepInv, Dozing, Dozes, Sleepers, Waking

(* The steps of a process in the driver. *)
LEMMA DriverSleep ==
    ASSUME Ground, Ground', SleepInv, NEW p \in Procs, DriverStep(p)
    PROVE  SleepInv'
  <1> USE Names DEF InCode, Do
  <1>0. /\ DOMAIN task = Threads /\ buf \in [Threads -> Bufs \cup {NoBuf}]
        /\ ide_queue \in Seq(Bufs) /\ Rules /\ Ruled!IInv /\ Shape
    BY DEF Ground, Sound, Rules, QueueType
  <1>1. ASSUME P!At(p, "kern")
        PROVE  pc[Irq] = "off" /\ \A q \in Procs : ~Dozes(q)
    <2>1. cur = p /\ pc[p] = "kern" /\ pc[Irq] = "off"
      BY <1>1 DEF P!At, P!Running
    <2> QED BY <1>0, <2>1, DozesAlone DEF Dozes
  <1>2. ASSUME P!At(p, "kern"), Quiet, UNCHANGED <<ide_queue, valid, dirty>>,
               task'[p] \notin {"io_wait", "io_start"},
               \A t \in Threads \ {p} : task'[t] = task[t] /\ buf'[t] = buf[t]
        PROVE  SleepInv'
    <2>1. Unanswered'
      BY <1>2 DEF SleepInv, Unanswered, InQueue, Finished
    <2>2. \A b \in Bufs : (InQueue(b) => InQueue(b)') /\ (Answering(b) => Answering(b)')
      BY <1>2 DEF InQueue, Answering, Quiet
    <2> QED BY <1>1, <1>2, <2>1, <2>2, QuietSleep
  <1>3. ASSUME NEW b \in Bufs, AcquireSleepLock(p, b) PROVE SleepInv'
    <2>1. P!At(p, "kern") /\ task'[p] = "lk_test" /\ Quiet
      BY <1>0, <1>3, QuietSteps DEF AcquireSleepLock
    <2> QED BY <1>0, <1>2, <1>3, <2>1 DEF AcquireSleepLock, ioVars
  <1>4. CASE AcquireSleepTake(p)
    <2>1. P!At(p, "kern") /\ task'[p] = "holds" /\ Quiet
      BY <1>0, <1>4, QuietSteps DEF AcquireSleepTake
    <2> QED BY <1>0, <1>2, <1>4, <2>1 DEF AcquireSleepTake, ioVars
  <1>5. CASE ReleaseSleep(p)
    <2>1. P!At(p, "kern") /\ task'[p] = "none" /\ Quiet
      BY <1>0, <1>5, QuietSteps DEF ReleaseSleep
    <2> QED BY <1>0, <1>2, <1>5, <2>1 DEF ReleaseSleep, ioVars
  <1>6. CASE RequestIo(p)
    <2>1. P!At(p, "kern") /\ task'[p] = "io_queue" /\ Quiet
      BY <1>0, <1>6, QuietSteps DEF RequestIo
    <2> QED BY <1>0, <1>2, <1>6, <2>1 DEF RequestIo, ioVars
  <1>7. CASE RequestDone(p)
    <2>1. P!At(p, "kern") /\ task'[p] = "holds" /\ Quiet
      BY <1>0, <1>7, QuietSteps DEF RequestDone
    <2> QED BY <1>0, <1>2, <1>7, <2>1 DEF RequestDone, ioVars
  <1>8. CASE QueueRequest(p)
    <2> DEFINE b == buf[p]
    <2>1. /\ P!At(p, "kern") /\ Quiet /\ buf' = buf
          /\ \A t \in Threads \ {p} : task'[t] = task[t]
          /\ \A c \in Bufs : c # b => (Finished(c)' <=> Finished(c))
      BY <1>0, <1>8, QuietSteps DEF QueueRequest, Finished
    <2>2. b \in Bufs /\ ide_queue' = Append(ide_queue, b)
      BY <1>0, <1>8 DEF QueueRequest, Rules, Named
    <2>3. \A c : InQueue(c)' <=> InQueue(c) \/ c = b
      BY <1>0, <2>2, AppendFacts DEF InQueue
    <2>4. Unanswered'
      <3> SUFFICES ASSUME NEW q \in Procs, task'[q] \in {"io_wait", "io_start"},
                          ~Finished(buf[q])', buf[q] # b
                   PROVE  InQueue(buf[q])' \/ (task[Irq] = "h_transfer" /\ buf[Irq] = buf[q])
        BY <2>1, <2>3 DEF Unanswered
      <3>1. q # p /\ task[q] = task'[q]
        BY <2>1 DEF Threads
      <3>2. buf[q] \in Bufs
        BY <1>0, <3>1 DEF Rules, Named
      <3> QED BY <2>1, <2>3, <3>1, <3>2 DEF SleepInv, Unanswered
    <2>5. \A c \in Bufs : (InQueue(c) => InQueue(c)') /\ (Answering(c) => Answering(c)')
      BY <2>1, <2>3 DEF Answering, Quiet
    <2> QED BY <1>1, <2>1, <2>4, <2>5, QuietSleep
  <1>9. CASE StartRequest(p)
    <2>1. /\ P!At(p, "kern") /\ task[p] = "io_start"
          /\ UNCHANGED <<ide_queue, valid, dirty, buf>>
          /\ \A t \in Threads \ {p} : task'[t] = task[t]
      BY <1>0, <1>9 DEF StartRequest
    <2>2. Quiet
      BY <1>0, <1>9, StartRuns, QuietSteps
    <2>3. Unanswered'
      BY <2>1 DEF SleepInv, Unanswered, InQueue, Finished, Threads
    <2>4. \A c \in Bufs : (InQueue(c) => InQueue(c)') /\ (Answering(c) => Answering(c)')
      BY <2>1, <2>2 DEF InQueue, Answering, Quiet
    <2> QED BY <1>1, <2>1, <2>2, <2>3, <2>4, QuietSleep
  <1>10. CASE AcquireSleepWait(p) \/ AwaitRequest(p)
    <2> DEFINE c == IF task[p] = "lk_test" THEN SleepLock(buf[p]) ELSE BufAddr(buf[p])
               l == IF task[p] = "lk_test" THEN SpinLock(buf[p]) ELSE IdeLock
    <2>1. /\ P!At(p, "kern") /\ P!SleepEnter(p, c, l) /\ task[p] \in {"lk_test", "io_wait"}
          /\ UNCHANGED <<ioVars, task, buf>>
          /\ task[p] = "io_wait" => ~Finished(buf[p])
      BY <1>10 DEF AcquireSleepWait, AwaitRequest
    <2>2. l # Ptable
      <3>1. buf[p] \in Bufs
        BY <1>0, <2>1 DEF Rules, Named
      <3> QED BY <3>1
    <2>3. /\ UNCHANGED <<state, chan>> /\ arg' = [arg EXCEPT ![p] = c]
          /\ pc'[p] = "sleep_rel"
          /\ \A u \in (Threads \cup {Sched}) \ {p} : pc'[u] = pc[u]
      <3>1. halt' = ""
        BY DEF Ground, Sound
      <3>2. UNCHANGED <<state, chan>> /\ arg' = [arg EXCEPT ![p] = c]
        BY <2>1 DEF P!SleepEnter
      <3> HIDE DEF c, l
      <3> QED BY <1>0, <2>1, <2>2, <3>1, <3>2, SleepEffect
    <2>4. arg'[p] = c /\ arg'[Irq] = arg[Irq] /\ pc'[Irq] = pc[Irq]
      BY <1>0, <2>3, ThreadTypes
    <2>5. \A b \in Bufs : (InQueue(b)' <=> InQueue(b)) /\ (Answering(b)' <=> Answering(b))
      BY <2>1, <2>4 DEF InQueue, Answering, ioVars
    <2>6. Unanswered' /\ Sleepers' /\ Waking'
      BY <2>1, <2>3, <2>4, <2>5
      DEF SleepInv, Unanswered, Sleepers, Waking, InQueue, Finished, ioVars
    <2>7. task[p] = "io_wait" => InQueue(buf[p])
      <3> SUFFICES ASSUME task[p] = "io_wait" PROVE InQueue(buf[p])
        OBVIOUS
      <3>1. IdeLock \in own[p]
        BY <1>0, <2>1, InKernel DEF Held
      <3>2. task[Irq] # "h_transfer"
        BY <3>1, Exclusive DEF Ground, HandlerHolds
      <3> QED BY <2>1, <3>2 DEF SleepInv, Unanswered
    <2>8. Dozing'
      <3>1. \A q \in Procs : Dozes(q)' => q = p
        BY <1>1, <2>1, <2>3 DEF Dozes, Threads
      <3>2. \/ task'[p] = "lk_test" /\ arg'[p] = SleepLock(buf'[p])
            \/ task'[p] = "io_wait" /\ arg'[p] = BufAddr(buf'[p]) /\ InQueue(buf[p])'
        BY <2>1, <2>4, <2>7 DEF InQueue, ioVars
      <3> QED BY <3>1, <3>2 DEF Dozing
    <2> QED BY <2>6, <2>8 DEF SleepInv
  <1> QED BY <1>3, <1>4, <1>5, <1>6, <1>7, <1>8, <1>9, <1>10 DEF DriverStep

(* The steps of the handler. *)
LEMMA HandlerSleep ==
    ASSUME Ground, Ground', SleepInv, HandlerStep
    PROVE  SleepInv'
  <1> USE Names DEF InCode, Do
  <1>0. /\ DOMAIN task = Threads /\ buf \in [Threads -> Bufs \cup {NoBuf}]
        /\ ide_queue \in Seq(Bufs) /\ Rules /\ Ruled!IInv /\ Shape
    BY DEF Ground, Sound, Rules, QueueType
  <1>1. P!At(Irq, "kern") => \A q \in Procs : ~Dozes(q)
    BY <1>0, DozesAlone DEF P!At, P!Running
  <1>2. ASSUME P!At(Irq, "kern"), Quiet, UNCHANGED <<ide_queue, valid, dirty>>,
               task[Irq] \notin {"h_transfer", "h_wakeup"}, task'[Irq] # "h_transfer",
               \A t \in Threads \ {Irq} : task'[t] = task[t] /\ buf'[t] = buf[t]
        PROVE  SleepInv'
    <2>1. pc[Irq] = "kern"
      BY <1>2 DEF P!At
    <2>2. Unanswered'
      BY <1>2 DEF SleepInv, Unanswered, InQueue, Finished, Threads
    <2>3. \A b \in Bufs : (InQueue(b) => InQueue(b)') /\ ~Answering(b)
      BY <1>2, <2>1 DEF InQueue, Answering
    <2> QED BY <1>1, <1>2, <2>1, <2>2, <2>3, QuietSleep
  <1>3. CASE HandlerAcquire
    <2>1. P!At(Irq, "kern") /\ task[Irq] = "h_acquire" /\ task'[Irq] = "h_head" /\ Quiet
      BY <1>0, <1>3, QuietSteps DEF HandlerAcquire
    <2> QED BY <1>0, <1>2, <1>3, <2>1 DEF HandlerAcquire, ioVars
  <1>4. CASE HandlerNoRequest
    <2>1. P!At(Irq, "kern") /\ task[Irq] = "h_head" /\ task'[Irq] = "h_release" /\ Quiet
      BY <1>0, <1>4, QuietSteps DEF HandlerNoRequest
    <2> QED BY <1>0, <1>2, <1>4, <2>1 DEF HandlerNoRequest, ioVars
  <1>5. CASE HandlerStartNext
    <2>1. P!At(Irq, "kern") /\ task[Irq] = "h_next" /\ task'[Irq] = "h_release" /\ Quiet
      BY <1>0, <1>5, StartRuns, QuietSteps DEF HandlerStartNext
    <2> QED BY <1>0, <1>2, <1>5, <2>1 DEF HandlerStartNext
  <1>6. CASE HandlerRelease
    <2>1. P!At(Irq, "kern") /\ task[Irq] = "h_release" /\ task'[Irq] = "none" /\ Quiet
      BY <1>0, <1>6, QuietSteps DEF HandlerRelease
    <2> QED BY <1>0, <1>2, <1>6, <2>1 DEF HandlerRelease, ioVars
  <1>7. CASE HandlerReturn
    <2>1. P!At(Irq, "kern") /\ task[Irq] = "none" /\ task'[Irq] = "none" /\ Quiet
      BY <1>0, <1>7, QuietSteps DEF HandlerReturn, P!InterruptReturn
    <2> QED BY <1>0, <1>2, <1>7, <2>1 DEF HandlerReturn, ioVars
  <1>8. CASE HandlerTakeHead
    <2> DEFINE h == Head(ide_queue)
    <2>1. /\ P!At(Irq, "kern") /\ pc[Irq] = "kern" /\ task[Irq] = "h_head"
          /\ ide_queue # <<>> /\ ide_queue' = Tail(ide_queue)
          /\ UNCHANGED <<valid, dirty>> /\ Quiet
          /\ task'[Irq] = "h_transfer" /\ buf'[Irq] = h
          /\ \A t \in Threads \ {Irq} : task'[t] = task[t] /\ buf'[t] = buf[t]
      BY <1>0, <1>8, QuietSteps DEF HandlerTakeHead, P!At
    <2>2. ASSUME NEW b, InQueue(b), b # h PROVE InQueue(b)'
      <3>1. PICK i \in DOMAIN ide_queue : ide_queue[i] = b
        BY <2>2 DEF InQueue
      <3>2. i # 1
        BY <1>0, <2>1, <2>2, <3>1
      <3>3. i - 1 \in DOMAIN Tail(ide_queue) /\ Tail(ide_queue)[i - 1] = b
        BY <1>0, <2>1, <3>1, <3>2
      <3> QED BY <2>1, <3>3 DEF InQueue
    <2>3. Unanswered'
      BY <2>1, <2>2 DEF SleepInv, Unanswered, Finished, Threads
    <2>4. \A b \in Bufs : (InQueue(b) => InQueue(b)' \/ Answering(b)') /\ ~Answering(b)
      BY <2>1, <2>2 DEF Answering
    <2> QED BY <1>1, <2>1, <2>3, <2>4, QuietSleep
  <1>9. CASE HandlerTransfer
    <2>1. /\ P!At(Irq, "kern") /\ pc[Irq] = "kern" /\ task[Irq] = "h_transfer"
          /\ UNCHANGED <<ide_queue, buf>> /\ Quiet
          /\ valid' = valid \cup {buf[Irq]} /\ dirty' = dirty \ {buf[Irq]}
          /\ task'[Irq] = "h_wakeup"
          /\ \A t \in Threads \ {Irq} : task'[t] = task[t]
      BY <1>0, <1>9, QuietSteps DEF HandlerTransfer, P!At
    <2>2. \A b : Finished(b)' <=> Finished(b) \/ b = buf[Irq]
      BY <2>1 DEF Finished
    <2>3. Unanswered'
      BY <2>1, <2>2 DEF SleepInv, Unanswered, InQueue, Threads
    <2>4. \A b \in Bufs : (InQueue(b) => InQueue(b)') /\ (Answering(b) => Answering(b)')
      BY <2>1 DEF Answering, InQueue
    <2> QED BY <1>1, <2>1, <2>3, <2>4, QuietSleep
  <1>10. CASE HandlerWakeup
    <2>1. /\ P!At(Irq, "kern") /\ task[Irq] = "h_wakeup" /\ task'[Irq] = "h_next"
          /\ \A t \in Threads \ {Irq} : task'[t] = task[t]
          /\ UNCHANGED <<ide_queue, valid, dirty, buf>>
          /\ P!WakeupAcquire(Irq, BufAddr(buf[Irq]))
      BY <1>0, <1>10 DEF HandlerWakeup, ioVars
    <2>2. halt' = ""
      BY DEF Ground, Sound
    <2>3. UNCHANGED <<state, chan>> /\ arg' = [arg EXCEPT ![Irq] = BufAddr(buf[Irq])]
          /\ pc' = [pc EXCEPT ![Irq] = "wake"]
      BY <2>1, <2>2 DEF P!WakeupAcquire, P!Panic, P!Goto, P!AcquireFault
    <2>4. arg'[Irq] = BufAddr(buf[Irq]) /\ pc'[Irq] = "wake"
          /\ \A q \in Procs : pc'[q] = pc[q]
      BY <1>0, <2>3, ThreadTypes
    <2>5. Unanswered' /\ Dozing' /\ Waking'
      BY <1>1, <2>1, <2>4
      DEF SleepInv, Unanswered, Dozing, Dozes, Waking, InQueue, Finished, Threads
    <2>6. \A b \in Bufs : (InQueue(b) => InQueue(b)') /\ (Answering(b) => Answering(b)')
      BY <2>1, <2>4 DEF InQueue, Answering
    <2>7. Sleepers'
      BY <2>3, <2>6 DEF SleepInv, Sleepers
    <2> QED BY <2>5, <2>7 DEF SleepInv
  <1> QED BY <1>3, <1>4, <1>5, <1>6, <1>7, <1>8, <1>9, <1>10 DEF HandlerStep

(* Falling asleep and being woken. *)
LEMMA ProcessSleep ==
    ASSUME Ground, Ground', SleepInv, InProcess
    PROVE  SleepInv'
  <1> USE Names
  <1>0. Ruled!IInv /\ halt' = "" /\ UNCHANGED <<ide_queue, valid, dirty, task, buf>>
    BY DEF InProcess, ioVars, Ground, Sound
  <1>1. ASSUME Quiet PROVE SleepInv'
    BY <1>0, <1>1, SameSleep
  <1>2. ASSUME NEW p \in Procs, P!SleepSched(p) PROVE SleepInv'
    <2>1. /\ cur = p /\ pc[p] = "sleep_sched" /\ pc[Irq] = "off"
      BY <1>2 DEF P!SleepSched, P!At, P!Running
    <2>2. cproc = p
      BY <1>0, <2>1 DEF Ruled!IInv, Ruled!Current, Ruled!Procs, Procs, P!Procs,
         Ruled!Irq, Irq, P!Irq
    <2>3. /\ chan' = [chan EXCEPT ![p] = arg[p]] /\ arg' = [arg EXCEPT ![p] = NoChan]
          /\ state' = [state EXCEPT ![p] = "SLEEPING"]
          /\ pc' = [pc EXCEPT ![p] = "slept"]
      BY <1>0, <1>2, <2>2 DEF P!SleepSched, P!CallSched, P!Goto
    <2>4. /\ chan'[p] = arg[p] /\ pc'[p] = "slept" /\ pc'[Irq] = pc[Irq]
          /\ arg'[Irq] = arg[Irq]
          /\ \A q \in Procs \ {p} : /\ chan'[q] = chan[q] /\ pc'[q] = pc[q]
                                    /\ state'[q] = state[q] /\ arg'[q] = arg[q]
      BY <1>0, <2>3, ThreadTypes
    <2>5. Unanswered' /\ Waking'
      BY <1>0, <2>4 DEF SleepInv, Unanswered, Waking, InQueue, Finished
    <2>6. Dozing'
      BY <1>0, <2>4 DEF SleepInv, Dozing, Dozes, InQueue
    <2>7. \A b \in Bufs : (InQueue(b)' <=> InQueue(b)) /\ (Answering(b)' <=> Answering(b))
      BY <1>0, <2>4 DEF InQueue, Answering
    <2>8. ASSUME NEW b \in Bufs, chan'[p] = BufAddr(b) PROVE InQueue(b)
      <3>1. SleepLock(buf[p]) # BufAddr(b)
        BY DEF SleepLock, BufAddr
      <3>2. arg[p] = BufAddr(buf[p]) /\ InQueue(buf[p])
        BY <2>1, <2>4, <2>8, <3>1 DEF SleepInv, Dozing, Dozes
      <3>3. BufAddr(buf[p]) = BufAddr(b)
        BY <2>4, <2>8, <3>2
      <3>4. buf[p] = b
        <4>1. <<"buf", buf[p]>>[2] = <<"buf", b>>[2]
          BY <3>3 DEF BufAddr
        <4> QED BY <4>1
      <3> QED BY <3>2, <3>4
    <2>9. Sleepers'
      BY <2>4, <2>7, <2>8 DEF SleepInv, Sleepers
    <2> QED BY <2>5, <2>6, <2>9 DEF SleepInv
  <1>3. CASE P!WakeupScan(Irq)
    <2>1. /\ state' = [p \in Procs |-> IF p \in P!Woken(arg[Irq]) THEN "RUNNABLE" ELSE state[p]]
          /\ chan' = chan /\ arg' = [arg EXCEPT ![Irq] = NoChan]
          /\ pc' = [pc EXCEPT ![Irq] = "kern"]
          /\ pc[Irq] = "wake"
      BY <1>0, <1>3 DEF P!WakeupScan, P!Goto, P!At
    <2>2. task[Irq] = "h_next"
      BY <2>1 DEF SleepInv, Waking
    <2>3. pc'[Irq] = "kern" /\ \A q \in Procs : pc'[q] = pc[q] /\ arg'[q] = arg[q]
      BY <1>0, <2>1, ThreadTypes
    <2>4. Unanswered' /\ Dozing' /\ Waking'
      BY <1>0, <2>3 DEF SleepInv, Unanswered, Dozing, Dozes, Waking, InQueue, Finished
    <2>5. ASSUME NEW p \in Procs, NEW b \in Bufs, state'[p] = "SLEEPING", chan'[p] = BufAddr(b)
          PROVE  InQueue(b)'
      <3>1. state[p] = "SLEEPING" /\ chan[p] = BufAddr(b) /\ p \notin P!Woken(arg[Irq])
        BY <2>1, <2>5
      <3>2. arg[Irq] # BufAddr(b)
        BY <3>1 DEF P!Woken
      <3>3. InQueue(b)
        BY <2>2, <3>1, <3>2 DEF SleepInv, Sleepers, Answering
      <3> QED BY <1>0, <3>3 DEF InQueue
    <2> QED BY <2>4, <2>5 DEF SleepInv, Sleepers
  <1> QED BY <1>0, <1>1, <1>2, <1>3, QuietSteps DEF InProcess, KernelStep

(* Every step keeps it. *)
LEMMA NextSleep ==
    ASSUME Ground, Ground', SleepInv, [Next]_vars
    PROVE  SleepInv'
  <1> USE Names DEF Do
  <1>0. /\ DOMAIN task = Threads /\ Rules /\ Ruled!IInv
    BY DEF Ground, Sound, Rules, QueueType
  <1>1. CASE DriveDone \/ SpuriousRequest \/ UNCHANGED vars
    <2>1. UNCHANGED procVars /\ UNCHANGED <<ide_queue, valid, dirty, task, buf>>
      BY <1>1 DEF DriveDone, SpuriousRequest, vars, ioVars
    <2> QED BY <1>0, <2>1, QuietSteps, SameSleep
  <1>2. CASE DiskInterrupt
    <2>1. /\ UNCHANGED <<ide_queue, valid, dirty, buf>> /\ Quiet /\ pc[Irq] = "off"
          /\ task'[Irq] = "h_acquire" /\ \A p \in Procs : task'[p] = task[p]
      BY <1>0, <1>2, QuietSteps DEF DiskInterrupt, P!Interrupt
    <2>2. task[Irq] = "none"
      BY <1>0, <2>1 DEF Rules, Places
    <2>3. Unanswered'
      BY <2>1, <2>2 DEF SleepInv, Unanswered, InQueue, Finished
    <2>4. \A b \in Bufs : (InQueue(b) => InQueue(b)') /\ ~Answering(b)
      BY <2>1, <2>2 DEF Answering, InQueue
    <2> QED BY <2>1, <2>3, <2>4, QuietSleep
  <1> QED BY <1>1, <1>2, ProcessSleep, DriverSleep, HandlerSleep DEF Next

(* Nobody sleeps for an answer that has come, however many processes and   *)
(* buffers there are: no wakeup of the handler is lost.                    *)
THEOREM NoWakeupLost == Spec => []SleepersQueued
  <1>1. Ground /\ SleepInv => SleepersQueued
    <2> SUFFICES ASSUME Ground, SleepInv, IdeFree, NEW p \in Procs, NEW b \in Bufs,
                        state[p] = "SLEEPING", chan[p] = BufAddr(b)
                 PROVE  InQueue(b)
      BY DEF SleepersQueued, InQueue
    <2>1. IdeLock \notin own[Irq]
      BY Exclusive, Names DEF Ground
    <2>2. task[Irq] \notin HandlerHolds
      BY <2>1, Names DEF Ground, Sound, Rules, Ownership, Held, HandlerHolds
    <2> QED BY <2>2 DEF SleepInv, Sleepers, Answering, HandlerHolds
  <1>2. Ground /\ Ground' /\ SleepInv /\ [Next]_vars => SleepInv'
    BY NextSleep
  <1> QED BY <1>1, <1>2, InitSleep, DriverInvariance, PTL DEF Spec

(* A finished buffer holds what the disk holds, or what is on its way.     *)
THEOREM BufferCoherence == Spec => []BufferMatchesDisk
  <1>1. Ground => BufferMatchesDisk
    BY DEF Ground, DriverInv
  <1> QED BY <1>1, DriverInvariance, PTL

(* No panic of spinlock.c, process.c or ide_start is reachable from the    *)
(* driver and the sleep locks, if whoever fills in a buffer asks for a     *)
(* block of the disk (BlockAssumption): the machine never stops.           *)
THEOREM DriverNeverPanics == Spec => [](halt = "")
  BY NeverHalted
=============================================================================
