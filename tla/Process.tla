------------------------------ MODULE Process ------------------------------
(***************************************************************************)
(* The process table, the scheduler and the sleep/wakeup protocol of       *)
(* kernel/sys/process.c on the one CPU the kernel supports.                *)
(*                                                                         *)
(* Threads of control: one per process (in user mode or on its kernel      *)
(* stack), the scheduler loop launch_first_proc on the boot stack, and an  *)
(* interrupt handler that borrows the stack of whoever runs.  Only one of  *)
(* them advances at a time: `cur' has the CPU, unless a handler is active. *)
(*                                                                         *)
(* Kernel code that would call acquire, release, yield, sleep and wakeup   *)
(* from a system call or from a handler is the client of this module; it   *)
(* is external and nearly unconstrained, see the Client actions.           *)
(***************************************************************************)
EXTENDS Cpu, FiniteSets

CONSTANTS NPROC,        \* MAX_PROC, the slots of ptable
          NINIT,        \* processes the boot code creates with init_user
          CLocks,       \* spin locks of the clients
          Chans,        \* sleep channels
          Ptable,       \* ptable.lock
          NoChan,       \* chan = 0
          Wild          \* TRUE: clients may break the locking rules

ASSUME SizeAssumption == /\ NPROC \in Nat \ {0}
                         /\ NINIT \in Nat
ASSUME NameAssumption == /\ IsFiniteSet(CLocks)
                         /\ Ptable \notin CLocks
                         /\ NoChan \notin Chans
                         /\ Wild \in BOOLEAN

Procs == 0..(NPROC - 1)
Sched == NPROC          \* the scheduler loop
Irq   == NPROC + 1      \* the active interrupt handler
NoProc == -1            \* c->proc = 0
KPGDIR == -1            \* the kernel page table, loaded by switch_kvm
Locks   == CLocks \cup {Ptable}
Threads == Procs \cup {Sched, Irq}

VARIABLES
    state,      \* proc.state, per slot
    chan,       \* proc.chan, per slot
    cproc,      \* cpu.proc
    cr3,        \* page table in use: that of a process or KPGDIR
    esp0,       \* process whose kernel stack the TSS names
    locked,     \* spinlock.locked, per lock
    cpu,        \* IF, ncli, intena
    svint,      \* local `intena' of sched(), on the kernel stack of a process
    cur,        \* the thread whose stack is in use
    pc,         \* where each thread is
    idx,        \* local `i' of the scheduler loop
    arg,        \* chan argument of the sleep or wakeup call in progress
    slk,        \* lock argument of the sleep call in progress
    own,        \* locks each client code path has acquired and not released
    halt        \* "" or the message of the panic that stopped the machine

vars == <<state, chan, cproc, cr3, esp0, locked, cpu, svint, cur, pc, idx,
          arg, slk, own, halt>>

ProcState == {"UNUSED", "EMBRYO", "SLEEPING", "RUNNABLE", "RUNNING", "ZOMBIE"}

SchedLabels == {"init_user", "sti", "acquire", "scan", "switched"}
ProcLabels  == {"none", "fork_ret", "trap_ret", "user", "kern", "yield",
                "yielded", "sleep_rel", "sleep_sched", "slept", "sleep_acq",
                "wake"}
IrqLabels   == {"off", "kern", "wake"}

(* "" while the machine runs; else what stopped it: a PANIC of spinlock.c  *)
(* or process.c, or the page fault of InitUserFails.                       *)
Messages == {"", "acquire", "release", "popcli - interruptible", "popcli",
             "sched ptable.lock", "sched locks", "sched running",
             "sched interruptible", "sleep", "page fault",
             "userinit: out of memory?"}

Init ==
    /\ state  = [p \in Procs |-> "UNUSED"]
    /\ chan   = [p \in Procs |-> NoChan]
    /\ cproc  = NoProc
    /\ cr3    = KPGDIR
    /\ esp0   = NoProc
    /\ locked = [l \in Locks |-> FALSE]
    /\ cpu    = CpuInit
    /\ svint  = [p \in Procs |-> FALSE]
    /\ cur    = Sched
    /\ pc     = [t \in Threads |-> IF t = Sched THEN "init_user"
                                   ELSE IF t = Irq THEN "off" ELSE "none"]
    /\ idx    = 0
    /\ arg    = [t \in Threads |-> NoChan]
    /\ slk    = [p \in Procs |-> Ptable]
    /\ own    = [t \in Threads |-> {}]
    /\ halt   = ""

-----------------------------------------------------------------------------
(* Control *)

Running(t) ==
    /\ halt = ""
    /\ IF t = Irq THEN pc[Irq] # "off" ELSE cur = t /\ pc[Irq] = "off"

At(t, label)    == Running(t) /\ pc[t] = label
Goto(t, label)  == pc' = [pc EXCEPT ![t] = label]

(* panic() prints, then loops on cli; hlt: nothing runs any more. *)
Panic(msg) ==
    /\ halt' = msg
    /\ UNCHANGED <<state, chan, cproc, cr3, esp0, locked, cpu, svint, cur, pc,
                   idx, arg, slk, own>>

-----------------------------------------------------------------------------
(* Spin locks, as process.c uses them (Spinlock.tla has their code).       *)
(* lk->cpu is that of the only CPU, so holding(lk) is lk->locked.          *)

AcquireFault(l) == IF locked[l] THEN "acquire" ELSE ""
ReleaseFault(l) == IF ~locked[l] THEN "release" ELSE PopCliFault(cpu)

Acquire(l) == /\ locked' = [locked EXCEPT ![l] = TRUE]
              /\ cpu' = PushCli(cpu)

(* release(l) run on the CPU state c, which the caller may have changed. *)
ReleaseFrom(l, c) == /\ locked' = [locked EXCEPT ![l] = FALSE]
                     /\ cpu' = PopCli(c)

-----------------------------------------------------------------------------
(* sched() and the resumption of its caller *)

(* Seeded fault: sched() does not look at ncli. *)
SchedFaultAnyDepth(newstate, c) ==
    IF ~locked[Ptable] THEN "sched ptable.lock"
    ELSE IF newstate = "RUNNING" THEN "sched running"
    ELSE IF c.if THEN "sched interruptible" ELSE ""

SchedFault(newstate, c) ==
    IF ~locked[Ptable] THEN "sched ptable.lock"
    ELSE IF c.ncli # 1 THEN "sched locks"
    ELSE IF newstate = "RUNNING" THEN "sched running"
    ELSE IF c.if THEN "sched interruptible" ELSE ""

(* c->proc->state = newstate; sched(), from the stack of p with CPU state  *)
(* c: the thread will resume at label, after the restoration of intena.    *)
CallSched(p, newstate, label, c) ==
    /\ state' = [state EXCEPT ![cproc] = newstate]
    /\ cpu' = c
    /\ IF SchedFault(newstate, c) # ""
       THEN /\ halt' = SchedFault(newstate, c)
            /\ UNCHANGED <<svint, cur, pc>>
       ELSE /\ svint' = [svint EXCEPT ![p] = c.intena]
            /\ cur' = Sched
            /\ Goto(p, label)
            /\ UNCHANGED halt

(* Seeded fault: sched() returns without restoring intena. *)
RestoredNothing(p) == cpu

(* First statement after switch_to() in sched(): c_cpu()->intena = intena. *)
Restored(p) == [cpu EXCEPT !.intena = svint[p]]
ForgetSaved(p) == svint' = [svint EXCEPT ![p] = FALSE]

-----------------------------------------------------------------------------
(* Boot: kernel_main after the drivers are up *)

(* Seeded fault: the first frame returns to trap_ret, skipping fork_ret. *)
InitUserNoForkRet ==
    /\ At(Sched, "init_user")
    /\ idx < NINIT
    /\ \E p \in Procs :
        /\ state[p] = "UNUSED"
        /\ \A q \in Procs : q < p => state[q] # "UNUSED"
        /\ state' = [state EXCEPT ![p] = "RUNNABLE"]
        /\ Goto(p, "trap_ret")
    /\ locked' = [locked EXCEPT ![Ptable] = FALSE]
    /\ idx' = idx + 1
    /\ UNCHANGED <<chan, cproc, cr3, esp0, cpu, svint, cur, arg, slk, own, halt>>

(* init_user: take the first free slot, give it a kernel stack whose first *)
(* frame returns through fork_ret to trap_ret, and a page table.           *)
InitUser ==
    /\ At(Sched, "init_user")
    /\ idx < NINIT
    /\ \E p \in Procs :
        /\ state[p] = "UNUSED"
        /\ \A q \in Procs : q < p => state[q] # "UNUSED"
        /\ state' = [state EXCEPT ![p] = "RUNNABLE"]
        /\ Goto(p, "fork_ret")
    /\ locked' = [locked EXCEPT ![Ptable] = FALSE]
    /\ idx' = idx + 1
    /\ UNCHANGED <<chan, cproc, cr3, esp0, cpu, svint, cur, arg, slk, own, halt>>

(* No free slot, or kalloc() fails in config_proc_kstack, which puts the   *)
(* slot back: alloc_process returns 0 and init_user writes through it (the *)
(* page fault handler halts).  Or setup_kvm has no page.                   *)
InitUserFails ==
    /\ At(Sched, "init_user")
    /\ idx < NINIT
    /\ \/ Panic("page fault")
       \/ /\ \E p \in Procs : state[p] = "UNUSED"
          /\ Panic("userinit: out of memory?")

(* sti() in kernel_main, then launch_first_proc clears c->proc. *)
StartScheduler ==
    /\ At(Sched, "init_user")
    /\ idx = NINIT
    /\ cpu' = Sti(cpu)
    /\ cproc' = NoProc
    /\ idx' = 0
    /\ Goto(Sched, "sti")
    /\ UNCHANGED <<state, chan, cr3, esp0, locked, svint, cur, arg, slk, own, halt>>

-----------------------------------------------------------------------------
(* The scheduler loop, launch_first_proc *)

(* Seeded fault: the loop has no sti of its own. *)
SchedNoSti ==
    /\ At(Sched, "sti")
    /\ Goto(Sched, "acquire")
    /\ UNCHANGED <<state, chan, cproc, cr3, esp0, locked, cpu, svint, cur, idx,
                   arg, slk, own, halt>>

SchedSti ==
    /\ At(Sched, "sti")
    /\ cpu' = Sti(cpu)
    /\ Goto(Sched, "acquire")
    /\ UNCHANGED <<state, chan, cproc, cr3, esp0, locked, svint, cur, idx, arg,
                   slk, own, halt>>

SchedAcquire ==
    /\ At(Sched, "acquire")
    /\ IF AcquireFault(Ptable) # "" THEN Panic(AcquireFault(Ptable))
       ELSE /\ Acquire(Ptable)
            /\ idx' = 0
            /\ Goto(Sched, "scan")
            /\ UNCHANGED <<state, chan, cproc, cr3, esp0, svint, cur, arg, slk,
                           own, halt>>

SchedSkip ==
    /\ At(Sched, "scan")
    /\ idx < NPROC
    /\ state[idx] # "RUNNABLE"
    /\ idx' = idx + 1
    /\ UNCHANGED <<state, chan, cproc, cr3, esp0, locked, cpu, svint, cur, pc,
                   arg, slk, own, halt>>

(* switch_uvm(p), RUNNING, switch_to: the process resumes where it left. *)
SchedSwitch ==
    /\ At(Sched, "scan")
    /\ idx < NPROC
    /\ state[idx] = "RUNNABLE"
    /\ cproc' = idx
    /\ esp0' = idx
    /\ cr3' = idx
    /\ state' = [state EXCEPT ![idx] = "RUNNING"]
    /\ cur' = idx
    /\ Goto(Sched, "switched")
    /\ UNCHANGED <<chan, locked, cpu, svint, idx, arg, slk, own, halt>>

(* Seeded fault: the kernel page table is not loaded again. *)
SchedBackNoKvm ==
    /\ At(Sched, "switched")
    /\ cproc' = NoProc
    /\ idx' = idx + 1
    /\ Goto(Sched, "scan")
    /\ UNCHANGED <<state, chan, cr3, esp0, locked, cpu, svint, cur, arg, slk, own,
                   halt>>

(* Seeded fault: the scan starts over after each process it served. *)
SchedBackRestarts ==
    /\ At(Sched, "switched")
    /\ cr3' = KPGDIR
    /\ cproc' = NoProc
    /\ idx' = 0
    /\ Goto(Sched, "scan")
    /\ UNCHANGED <<state, chan, esp0, locked, cpu, svint, cur, arg, slk, own, halt>>

SchedBack ==
    /\ At(Sched, "switched")
    /\ cr3' = KPGDIR
    /\ cproc' = NoProc
    /\ idx' = idx + 1
    /\ Goto(Sched, "scan")
    /\ UNCHANGED <<state, chan, esp0, locked, cpu, svint, cur, arg, slk, own, halt>>

SchedRelease ==
    /\ At(Sched, "scan")
    /\ idx = NPROC
    /\ IF ReleaseFault(Ptable) # "" THEN Panic(ReleaseFault(Ptable))
       ELSE /\ ReleaseFrom(Ptable, cpu)
            /\ idx' = 0
            /\ Goto(Sched, "sti")
            /\ UNCHANGED <<state, chan, cproc, cr3, esp0, svint, cur, arg, slk,
                           own, halt>>

SchedStep == \/ SchedSti \/ SchedAcquire \/ SchedSkip \/ SchedSwitch
             \/ SchedBack \/ SchedRelease

-----------------------------------------------------------------------------
(* A process between kernel and user mode *)

(* Seeded fault: a new process keeps ptable.lock. *)
ForkRetKeepsLock(p) ==
    /\ At(p, "fork_ret")
    /\ Goto(p, "trap_ret")
    /\ UNCHANGED <<state, chan, cproc, cr3, esp0, locked, cpu, svint, cur, idx,
                   arg, slk, own, halt>>

(* First code of a process: give up the lock the scheduler took for it. *)
ForkRet(p) ==
    /\ At(p, "fork_ret")
    /\ IF ReleaseFault(Ptable) # "" THEN Panic(ReleaseFault(Ptable))
       ELSE /\ ReleaseFrom(Ptable, cpu)
            /\ Goto(p, "trap_ret")
            /\ UNCHANGED <<state, chan, cproc, cr3, esp0, svint, cur, idx, arg,
                           slk, own, halt>>

(* trap_ret ends in iret: the frame holds user EFLAGS, which have IF set. *)
TrapRet(p) ==
    /\ At(p, "trap_ret")
    /\ cpu' = Sti(cpu)
    /\ Goto(p, "user")
    /\ UNCHANGED <<state, chan, cproc, cr3, esp0, locked, svint, cur, idx, arg,
                   slk, own, halt>>

(* int 0x80 through an interrupt gate (0xEE): IF is cleared on entry. *)
Syscall(p) ==
    /\ At(p, "user")
    /\ cpu' = Cli(cpu)
    /\ Goto(p, "kern")
    /\ UNCHANGED <<state, chan, cproc, cr3, esp0, locked, svint, cur, idx, arg,
                   slk, own, halt>>

(* SYS_EXIT: state = ZOMBIE, then sched() as it stands in the handler. *)
SyscallExit(p) ==
    /\ At(p, "user")
    /\ CallSched(p, "ZOMBIE", "kern", Cli(cpu))
    /\ UNCHANGED <<chan, cproc, cr3, esp0, locked, idx, arg, slk, own>>

SyscallReturn(p) ==
    /\ At(p, "kern")
    /\ own[p] = {} \/ Wild
    /\ Goto(p, "trap_ret")
    /\ UNCHANGED <<state, chan, cproc, cr3, esp0, locked, cpu, svint, cur, idx,
                   arg, slk, own, halt>>

-----------------------------------------------------------------------------
(* Clients: kernel code of a system call (t \in Procs) or of an interrupt   *)
(* handler (t = Irq).  Unless Wild, it follows the rules of xv6 locking:   *)
(* acquire what it does not hold, release what it holds, hold exactly the  *)
(* lock it passes to sleep, none across yield, and return holding none.    *)

ClientAcquire(t, l) ==
    /\ At(t, "kern")
    /\ Wild \/ l \notin own[t]
    /\ t = Irq => l # Ptable /\ own[Irq] = {}     \* as ide_handler does
    /\ IF AcquireFault(l) # "" THEN Panic(AcquireFault(l))
       ELSE /\ Acquire(l)
            /\ own' = [own EXCEPT ![t] = @ \cup {l}]
            /\ UNCHANGED <<state, chan, cproc, cr3, esp0, svint, cur, pc, idx,
                           arg, slk, halt>>

ClientRelease(t, l) ==
    /\ At(t, "kern")
    /\ Wild \/ l \in own[t]
    /\ IF ReleaseFault(l) # "" THEN Panic(ReleaseFault(l))
       ELSE /\ ReleaseFrom(l, cpu)
            /\ own' = [own EXCEPT ![t] = @ \ {l}]
            /\ UNCHANGED <<state, chan, cproc, cr3, esp0, svint, cur, pc, idx,
                           arg, slk, halt>>

-----------------------------------------------------------------------------
(* yield *)

YieldAcquire(p) ==
    /\ At(p, "kern")
    /\ Wild \/ own[p] = {}
    /\ IF AcquireFault(Ptable) # "" THEN Panic(AcquireFault(Ptable))
       ELSE /\ Acquire(Ptable)
            /\ Goto(p, "yield")
            /\ UNCHANGED <<state, chan, cproc, cr3, esp0, svint, cur, idx, arg,
                           slk, own, halt>>

YieldSched(p) ==
    /\ At(p, "yield")
    /\ CallSched(p, "RUNNABLE", "yielded", cpu)
    /\ UNCHANGED <<chan, cproc, cr3, esp0, locked, idx, arg, slk, own>>

YieldReturn(p) ==
    /\ At(p, "yielded")
    /\ ForgetSaved(p)
    /\ IF ReleaseFault(Ptable) # ""
       THEN /\ halt' = ReleaseFault(Ptable)
            /\ UNCHANGED <<locked, cpu, pc>>
       ELSE /\ ReleaseFrom(Ptable, Restored(p))
            /\ Goto(p, "kern")
            /\ UNCHANGED halt
    /\ UNCHANGED <<state, chan, cproc, cr3, esp0, cur, idx, arg, slk, own>>

-----------------------------------------------------------------------------
(* sleep(chan, lk) *)

(* The caller holds lk: take ptable.lock first, unless lk is that lock. *)
SleepEnter(p, c, lk) ==
    /\ At(p, "kern")
    /\ Wild \/ own[p] = {lk}
    /\ arg' = [arg EXCEPT ![p] = c]
    /\ slk' = [slk EXCEPT ![p] = lk]
    /\ IF cproc = NoProc
       THEN halt' = "sleep" /\ UNCHANGED <<locked, cpu, pc>>
       ELSE IF lk = Ptable
       THEN Goto(p, "sleep_sched") /\ UNCHANGED <<locked, cpu, halt>>
       ELSE IF AcquireFault(Ptable) # ""
       THEN halt' = AcquireFault(Ptable) /\ UNCHANGED <<locked, cpu, pc>>
       ELSE Acquire(Ptable) /\ Goto(p, "sleep_rel") /\ UNCHANGED halt
    /\ UNCHANGED <<state, chan, cproc, cr3, esp0, svint, cur, idx, own>>

SleepRelease(p) ==
    /\ At(p, "sleep_rel")
    /\ IF ReleaseFault(slk[p]) # "" THEN Panic(ReleaseFault(slk[p]))
       ELSE /\ ReleaseFrom(slk[p], cpu)
            /\ own' = [own EXCEPT ![p] = @ \ {slk[p]}]
            /\ Goto(p, "sleep_sched")
            /\ UNCHANGED <<state, chan, cproc, cr3, esp0, svint, cur, idx, arg,
                           slk, halt>>

SleepSched(p) ==
    /\ At(p, "sleep_sched")
    /\ chan' = [chan EXCEPT ![cproc] = arg[p]]
    /\ arg' = [arg EXCEPT ![p] = NoChan]
    /\ CallSched(p, "SLEEPING", "slept", cpu)
    /\ UNCHANGED <<cproc, cr3, esp0, locked, idx, slk, own>>

(* Seeded fault: chan keeps the channel of the sleep that is over. *)
SleepResumeKeepsChan(p) ==
    /\ At(p, "slept")
    /\ ForgetSaved(p)
    /\ IF slk[p] = Ptable
       THEN /\ cpu' = Restored(p)
            /\ Goto(p, "kern")
            /\ UNCHANGED <<locked, halt>>
       ELSE IF ReleaseFault(Ptable) # ""
       THEN halt' = ReleaseFault(Ptable) /\ UNCHANGED <<locked, cpu, pc>>
       ELSE /\ ReleaseFrom(Ptable, Restored(p))
            /\ Goto(p, "sleep_acq")
            /\ UNCHANGED halt
    /\ UNCHANGED <<state, chan, cproc, cr3, esp0, cur, idx, arg, slk, own>>

(* Awake: chan = 0, and give ptable.lock back unless it was the lock of    *)
(* the caller.                                                             *)
SleepResume(p) ==
    /\ At(p, "slept")
    /\ chan' = [chan EXCEPT ![p] = NoChan]
    /\ ForgetSaved(p)
    /\ IF slk[p] = Ptable
       THEN /\ cpu' = Restored(p)
            /\ Goto(p, "kern")
            /\ UNCHANGED <<locked, halt>>
       ELSE IF ReleaseFault(Ptable) # ""
       THEN halt' = ReleaseFault(Ptable) /\ UNCHANGED <<locked, cpu, pc>>
       ELSE /\ ReleaseFrom(Ptable, Restored(p))
            /\ Goto(p, "sleep_acq")
            /\ UNCHANGED halt
    /\ UNCHANGED <<state, cproc, cr3, esp0, cur, idx, arg, slk, own>>

SleepReacquire(p) ==
    /\ At(p, "sleep_acq")
    /\ IF AcquireFault(slk[p]) # "" THEN Panic(AcquireFault(slk[p]))
       ELSE /\ Acquire(slk[p])
            /\ own' = [own EXCEPT ![p] = @ \cup {slk[p]}]
            /\ slk' = [slk EXCEPT ![p] = Ptable]
            /\ Goto(p, "kern")
            /\ UNCHANGED <<state, chan, cproc, cr3, esp0, svint, cur, idx, arg,
                           halt>>

-----------------------------------------------------------------------------
(* wakeup(chan), from a process or from an interrupt handler *)

WakeupAcquire(t, c) ==
    /\ At(t, "kern")
    /\ Wild \/ Ptable \notin own[t]
    /\ IF AcquireFault(Ptable) # "" THEN Panic(AcquireFault(Ptable))
       ELSE /\ Acquire(Ptable)
            /\ arg' = [arg EXCEPT ![t] = c]
            /\ Goto(t, "wake")
            /\ UNCHANGED <<state, chan, cproc, cr3, esp0, svint, cur, idx, slk,
                           own, halt>>

(* The loop over the table runs with interrupts off: one step. *)
Woken(c) == {p \in Procs : state[p] = "SLEEPING" /\ chan[p] = c}

WakeupScan(t) ==
    /\ At(t, "wake")
    /\ state' = [p \in Procs |-> IF p \in Woken(arg[t]) THEN "RUNNABLE"
                                 ELSE state[p]]
    /\ arg' = [arg EXCEPT ![t] = NoChan]
    /\ IF ReleaseFault(Ptable) # ""
       THEN halt' = ReleaseFault(Ptable) /\ UNCHANGED <<locked, cpu, pc>>
       ELSE ReleaseFrom(Ptable, cpu) /\ Goto(t, "kern") /\ UNCHANGED halt
    /\ UNCHANGED <<chan, cproc, cr3, esp0, svint, cur, idx, slk, own>>

-----------------------------------------------------------------------------
(* Interrupts: delivered between any two steps while IF is set; interrupt  *)
(* gates clear IF, iret restores it.                                       *)

Interrupt ==
    /\ halt = ""
    /\ pc[Irq] = "off"
    /\ cpu.if
    /\ cpu' = Cli(cpu)
    /\ Goto(Irq, "kern")
    /\ UNCHANGED <<state, chan, cproc, cr3, esp0, locked, svint, cur, idx, arg,
                   slk, own, halt>>

InterruptReturn ==
    /\ At(Irq, "kern")
    /\ own[Irq] = {}
    /\ cpu' = Sti(cpu)
    /\ Goto(Irq, "off")
    /\ UNCHANGED <<state, chan, cproc, cr3, esp0, locked, svint, cur, idx, arg,
                   slk, own, halt>>

(* The loop of panic(). *)
Halted == halt # "" /\ UNCHANGED vars

ProcStep(p) ==
    \/ ForkRet(p) \/ TrapRet(p)
    \/ Syscall(p) \/ SyscallExit(p) \/ SyscallReturn(p)
    \/ YieldAcquire(p) \/ YieldSched(p) \/ YieldReturn(p)
    \/ \E c \in Chans, lk \in Locks : SleepEnter(p, c, lk)
    \/ SleepRelease(p) \/ SleepSched(p) \/ SleepResume(p) \/ SleepReacquire(p)

ClientStep(t) ==
    \/ \E l \in Locks : ClientAcquire(t, l) \/ ClientRelease(t, l)
    \/ \E c \in Chans : WakeupAcquire(t, c)
    \/ WakeupScan(t)

Next ==
    \/ InitUser \/ InitUserFails \/ StartScheduler
    \/ SchedStep
    \/ \E p \in Procs : ProcStep(p)
    \/ \E t \in Procs \cup {Irq} : ClientStep(t)
    \/ Interrupt \/ InterruptReturn
    \/ Halted

Spec == Init /\ [][Next]_vars

(* The CPU boots and keeps executing the scheduler between interrupts,     *)
(* however often they come, and every interrupt handler returns.           *)
FairSpec ==
    /\ Spec
    /\ WF_vars(InitUser \/ StartScheduler)
    /\ SF_vars(SchedStep)
    /\ SF_vars(InterruptReturn)
    /\ WF_vars(WakeupScan(Irq))
    /\ \A l \in CLocks : SF_vars(ClientRelease(Irq, l))

-----------------------------------------------------------------------------
(* Properties *)

(* Every variable has its type; `own' and `arg' name only known objects.   *)
TypeOK ==
    /\ state \in [Procs -> ProcState]
    /\ chan \in [Procs -> Chans \cup {NoChan}]
    /\ cproc \in Procs \cup {NoProc}
    /\ cr3 \in Procs \cup {KPGDIR}
    /\ esp0 \in Procs \cup {NoProc}
    /\ locked \in [Locks -> BOOLEAN]
    /\ cpu \in CpuState
    /\ svint \in [Procs -> BOOLEAN]
    /\ cur \in Procs \cup {Sched}
    /\ pc \in [Threads -> ProcLabels \cup SchedLabels \cup IrqLabels]
    /\ pc[Sched] \in SchedLabels
    /\ pc[Irq] \in IrqLabels
    /\ \A p \in Procs : pc[p] \in ProcLabels
    /\ idx \in Nat
    /\ arg \in [Threads -> Chans \cup {NoChan}]
    /\ slk \in [Procs -> Locks]
    /\ own \in [Threads -> SUBSET Locks]
    /\ halt \in Messages

(* As long as clients keep the locking rules, no PANIC of spinlock.c or    *)
(* process.c can be reached, whatever the order of system calls, switches  *)
(* and interrupts: the only way to stop is to run out of memory at boot or *)
(* to call SYS_EXIT, whose handler enters sched() without ptable.lock.     *)
NoPanic ==
    \/ halt \in {"", "page fault", "userinit: out of memory?"}
    \/ halt = "sched ptable.lock" /\ state[cproc] = "ZOMBIE"

(* pushcli/popcli stay balanced across context switches: interrupts are on *)
(* only when no lock is held, so no handler can find a lock taken by the   *)
(* code it interrupted.                                                    *)
InterruptsOnlyUnlocked ==
    /\ cpu.ncli = Cardinality({l \in Locks : locked[l]})
    /\ cpu.if => cpu.ncli = 0

(* Code of a system call runs with interrupts off to its end, also after   *)
(* it slept or yielded: sched() saves and restores intena, since popcli of *)
(* the last lock would otherwise use the value of another thread.          *)
SyscallKeepsIFOff ==
    \A p \in Procs :
        cur = p /\ pc[p] \notin {"trap_ret", "user"} => ~cpu.if

(* The CPU runs the address space and traps to the kernel stack of the     *)
(* process it executes, which is the only one RUNNING; in the scheduler    *)
(* loop none is, and the kernel page table is loaded.                      *)
RunningIsCurrent ==
    halt = "" =>
        /\ \A p \in Procs : state[p] = "RUNNING" <=> cur = p
        /\ cur \in Procs => cproc = cur /\ cr3 = cur /\ esp0 = cur
        /\ cur = Sched /\ pc[Sched] # "switched" => cproc = NoProc /\ cr3 = KPGDIR

(* A process that is off the CPU is parked inside sched() (or has never    *)
(* run) and holds no lock other than ptable.lock, which it hands over.     *)
ParkedHoldsNothing ==
    \A p \in Procs : p # cur =>
        /\ pc[p] \in {"none", "fork_ret", "yielded", "slept"}
        /\ own[p] \subseteq {Ptable}

(* A process has a channel exactly while it is in sleep(): a wakeup can    *)
(* find every sleeper, and finds nobody else.                              *)
SleepersHaveChannel ==
    \A p \in Procs : /\ pc[p] = "slept" <=> chan[p] # NoChan
                     /\ state[p] = "SLEEPING" => pc[p] = "slept"

(* Whatever the clients do, the CPU changes stacks only under ptable.lock  *)
(* as the single lock, with interrupts off, and away from a process only   *)
(* after it has left RUNNING: the checks of sched() are complete.          *)
SwitchOnlyUnderPtable ==
    [][cur' # cur =>
        /\ {l \in Locks : locked'[l]} = {Ptable}
        /\ cpu'.ncli = 1 /\ ~cpu'.if
        /\ cur \in Procs => state'[cur] # "RUNNING"]_vars

(* The scan never starves a process: if the CPU keeps coming back to the   *)
(* scheduler, every RUNNABLE process is run.  A pass goes on after the     *)
(* slot it served rather than restarting.                                  *)
NoStarvation ==
    []<>(cur = Sched /\ halt = "") =>
        \A p \in Procs : state[p] = "RUNNABLE" ~> state[p] = "RUNNING"

(* The scheduler opens an interrupt window in every pass, also when all    *)
(* processes sleep and the last one left intena clear: the sti at the head *)
(* of the loop is what lets a device wake a sleeper.                       *)
IdleInterruptible == []<>(cur = Sched /\ halt = "") => []<>(cpu.if)

(* The comment on SYS_EXIT (kernel/sys/syscall.c:25): after the exit the   *)
(* CPU switches to the next process.  It stops instead.                    *)
ExitSchedulesNext == \A p \in Procs : state[p] = "ZOMBIE" => halt = ""

(* The comment on timer_handler (kernel/drivers/timer.c:37): timer         *)
(* interrupts force a process switch.  No handler reaches sched().         *)
InterruptsForceSwitch ==
    []<>(pc[Irq] # "off") =>
        \A p \in Procs : state[p] = "RUNNABLE" ~> state[p] = "RUNNING"

-----------------------------------------------------------------------------
(* The inductive invariant behind the safety properties, for clients that  *)
(* keep the locking rules.                                                 *)

(* Labels at which a thread that has the CPU owes a release of ptable.lock *)
PtableLabels == {"fork_ret", "yield", "yielded", "sleep_rel", "sleep_sched",
                 "slept", "wake", "scan", "switched"}
Holds(t) == own[t] \cup (IF pc[t] \in PtableLabels THEN {Ptable} ELSE {})

(* Labels at which interrupts may be on. *)
Open(t) == pc[t] \in {"sti", "acquire", "trap_ret", "user"}
(* Labels inside a system call, at which no intena but FALSE was saved. *)
InSyscall(t) == pc[t] \in {"kern", "yield", "sleep_rel", "sleep_sched",
                           "sleep_acq", "wake"}

Taken == {l \in Locks : locked[l]}

LocksAccounted ==
    /\ \A l \in Locks : locked[l] <=> l \in Holds(cur) \cup Holds(Irq)
    /\ cpu.ncli = Cardinality(Taken)

OwnedAtLabel(p) ==
    /\ pc[p] \in {"none", "fork_ret", "trap_ret", "user", "yield", "yielded",
                   "sleep_acq"} => own[p] = {}
    /\ pc[p] = "sleep_rel" => own[p] = {slk[p]}
    /\ pc[p] \in {"sleep_rel", "sleep_acq"} => slk[p] # Ptable
    /\ pc[p] \in {"sleep_sched", "slept"} => own[p] = {Ptable} \cap {slk[p]}
    /\ pc[p] = "wake" => Ptable \notin own[p]

OwnershipByLabel ==
    /\ own[Sched] = {}
    /\ pc[Irq] = "off" => own[Irq] = {}
    /\ Ptable \notin own[Irq]
    /\ \A p \in Procs : OwnedAtLabel(p)

InterruptWindow ==
    /\ cpu.if => pc[Irq] = "off" /\ Open(cur)
    /\ pc[Irq] # "off" => Open(cur)
    /\ \A p \in Procs : ~svint[p]
    /\ cpu.ncli > 0 /\ (pc[Irq] # "off" \/ InSyscall(cur)) => ~cpu.intena

Parked ==
    \A p \in Procs :
        /\ p # cur => /\ pc[p] \in {"none", "fork_ret", "yielded", "slept"}
                     /\ state[p] # "RUNNING"
        /\ pc[p] = "none" => p # cur
        /\ pc[p] = "none" <=> state[p] = "UNUSED"
        /\ pc[p] \in {"sleep_rel", "sleep_sched", "wake"} => arg[p] \in Chans

Current ==
    /\ cur \in Procs => /\ pc[Sched] = "switched"
                        /\ cproc = cur /\ cr3 = cur /\ esp0 = cur
                        /\ halt = "" => state[cur] = "RUNNING"
    /\ cur = Sched /\ pc[Sched] # "switched" => cproc = NoProc /\ cr3 = KPGDIR
    /\ pc[Sched] = "switched" => idx < NPROC
    /\ pc[Sched] = "scan" => idx <= NPROC

IInv ==
    /\ TypeOK
    /\ LocksAccounted
    /\ OwnershipByLabel
    /\ InterruptWindow
    /\ Parked
    /\ Current
    /\ SleepersHaveChannel
    /\ NoPanic

(* The inductive invariant behind SwitchOnlyUnderPtable, for any clients:  *)
(* ncli counts the taken locks, and in the scheduler loop those are        *)
(* ptable.lock, during the scan, and what the active handler has taken     *)
(* otherwise.                                                              *)
HandlerLocks == own[Irq] \cup (IF pc[Irq] = "wake" THEN {Ptable} ELSE {})

SchedulerLocks ==
    IF pc[Sched] \in {"scan", "switched"}
    THEN Taken = {Ptable} /\ ~cpu.if /\ pc[Irq] = "off"
    ELSE Taken = HandlerLocks

SwitchLocks ==
    /\ cpu.ncli = Cardinality(Taken)
    /\ pc[Irq] = "off" => own[Irq] = {}
    /\ Ptable \notin own[Irq]
    /\ cur \in Procs => cproc = cur /\ pc[Sched] = "switched"
    /\ cur = Sched => SchedulerLocks

SwitchInv == TypeOK /\ (halt = "" => SwitchLocks)
=============================================================================
