-------------------------------- MODULE Disk --------------------------------
(***************************************************************************)
(* The disk driver kernel/drivers/ide.c and the sleep locks of             *)
(* kernel/sys/sleeplock.c, with the processes, the scheduler, the handler  *)
(* and the spin locks of Process.tla underneath.  A process takes the      *)
(* sleep lock of a buffer with acquire_sleep, reads or writes its block    *)
(* and calls release_sleep; the handler completes the request.             *)
(*                                                                         *)
(* External are the code that queues a request, which this commit does not *)
(* have (ide_start says what it must do: hold ide_lock), the system call   *)
(* that leads to it, the drive, and the call of ide_handler: ide.h says    *)
(* that it is called when the disk interrupts, but isr_ata1_handler only   *)
(* sends the EOI.  Process is instantiated without its rules for clients   *)
(* (Wild): what follows keeps them by itself.                              *)
(***************************************************************************)
EXTENDS Integers, Sequences, FiniteSets

CONSTANTS NPROC, NINIT,
          Bufs,         \* buffers, each for a block of its own
          IdeLock,      \* ide_lock
          blockno,      \* the block of each buffer
          FS_SIZE,      \* blocks of the disk
          Ptable, NoChan, NoBuf,
          Spurious      \* TRUE: interrupts may come that the drive did not raise

ASSUME BufsAssumption == NoBuf \notin Bufs /\ Spurious \in BOOLEAN

(* Whoever fills in a buffer asks for a block that the disk has.           *)
ASSUME BlockAssumption == FS_SIZE \in Nat /\ blockno \in [Bufs -> 0..(FS_SIZE - 1)]

VARIABLES
    state, chan, cproc, cr3, esp0, locked, cpu, svint, cur, pc, idx, arg, slk,
    own, halt,  \* those of Process
    slocked,    \* buffers whose sleep lock has `locked' set
    ide_queue,  \* the buffers from ide_queue along qnext
    valid,      \* buffers with B_VALID
    dirty,      \* buffers with B_DIRTY
    data,       \* the version of its block in each buffer
    disk,       \* the version of each block on the disk
    drive,      \* the command in work or last done
    irq,        \* the drive's interrupt is requested
    spoilt,     \* history: buffers whose last command the drive failed
    task,       \* where a thread is in the code of this module
    buf         \* the buffer it works on

procVars == <<state, chan, cproc, cr3, esp0, locked, cpu, svint, cur, pc, idx,
              arg, slk, own, halt>>
ioVars   == <<ide_queue, valid, dirty, data, disk, drive, irq, spoilt>>
vars     == <<procVars, ioVars, slocked, task, buf>>

(* Addresses: the spin lock inside a sleep lock is not the lock itself.    *)
BufAddr(b)   == <<"buf", b>>
SleepLock(b) == <<"sleeplock", b>>
SpinLock(b)  == <<"sleeplock.lk", b>>

P == INSTANCE Process WITH
        CLocks <- {SpinLock(b) : b \in Bufs} \cup {IdeLock},
        Chans  <- {BufAddr(b) : b \in Bufs} \cup {SleepLock(b) : b \in Bufs},
        Wild   <- TRUE

(* The constants of Disk satisfy what Process assumes of its own.          *)
ASSUME ProcessAssumption == P!SizeAssumption /\ P!NameAssumption

Procs   == P!Procs
Irq     == P!Irq
Threads == Procs \cup {Irq}
Sched   == P!Sched

(* Contents of a block: what it held at first, or what a process wrote; a  *)
(* buffer that was never read holds neither.                               *)
Versions == {"old", "new"}
Unread   == "unread"

Idle == [buf |-> NoBuf, write |-> FALSE, data |-> Unread, busy |-> FALSE,
         failed |-> FALSE]

Init ==
    /\ P!Init
    /\ slocked = {}
    /\ ide_queue = <<>>
    /\ valid = {}
    /\ dirty = {}
    /\ data = [b \in Bufs |-> Unread]
    /\ disk = [b \in Bufs |-> "old"]
    /\ drive = Idle
    /\ irq = FALSE
    /\ spoilt = {}
    /\ task = [t \in Threads |-> "none"]
    /\ buf = [t \in Threads |-> NoBuf]

(* Thread t executes code of this module, at label. *)
InCode(t, label) == P!At(t, "kern") /\ task[t] = label
Do(t, label)     == task' = [task EXCEPT ![t] = label]

-----------------------------------------------------------------------------
(* sleeplock.c *)

(* The system call decides to use buffer b. *)
AcquireSleepLock(p, b) ==
    /\ InCode(p, "none")
    /\ P!ClientAcquire(p, SpinLock(b))
    /\ buf' = [buf EXCEPT ![p] = b]
    /\ Do(p, "lk_test")
    /\ UNCHANGED <<ioVars, slocked>>

(* while(lk->locked) sleep(lk, &lk->lk): the loop tests again afterwards.  *)
AcquireSleepWait(p) ==
    /\ InCode(p, "lk_test")
    /\ buf[p] \in slocked
    /\ P!SleepEnter(p, SleepLock(buf[p]), SpinLock(buf[p]))
    /\ UNCHANGED <<ioVars, slocked, task, buf>>

(* Free: take it and release the spin lock. *)
AcquireSleepTake(p) ==
    /\ InCode(p, "lk_test")
    /\ buf[p] \notin slocked
    /\ slocked' = slocked \cup {buf[p]}
    /\ P!ClientRelease(p, SpinLock(buf[p]))
    /\ Do(p, "holds")
    /\ UNCHANGED <<ioVars, buf>>

(* release_sleep is empty. *)
ReleaseSleep(p) ==
    /\ InCode(p, "holds")
    /\ buf' = [buf EXCEPT ![p] = NoBuf]
    /\ Do(p, "none")
    /\ UNCHANGED <<procVars, ioVars, slocked>>

-----------------------------------------------------------------------------
(* The disk *)

(* The register ide_wait polls shows DRDY and not BSY. *)
Ready == ~drive.busy

B_SIZE      == 512
SECTOR_SIZE == 512
sector_per_block == B_SIZE \div SECTOR_SIZE

(* The panic of ide_start(b), or "". *)
IdeStartFault(b) ==
    IF b = NoBuf THEN "ide_start"
    ELSE IF blockno[b] >= FS_SIZE THEN "incorrect blockno"
    ELSE IF sector_per_block > 7 THEN "idestart"
    ELSE ""

(* Seeded fault: every command is a write. *)
IdeStartWrites(b) ==
    IF IdeStartFault(b) # "" THEN P!Panic(IdeStartFault(b)) /\ UNCHANGED drive
    ELSE /\ Ready
         /\ drive' = [buf |-> b, write |-> TRUE, data |-> data[b],
                       busy |-> TRUE, failed |-> FALSE]
         /\ UNCHANGED procVars

(* ide_start(b): wait until the drive is ready and give it the command,    *)
(* for a write with the data.                                              *)
IdeStart(b) ==
    IF IdeStartFault(b) # "" THEN P!Panic(IdeStartFault(b)) /\ UNCHANGED drive
    ELSE /\ Ready
         /\ drive' = [buf |-> b, write |-> b \in dirty, data |-> data[b],
                       busy |-> TRUE, failed |-> FALSE]
         /\ UNCHANGED procVars

(* The drive carries the command out, or reports an error (DF or ERR), and *)
(* requests an interrupt.                                                  *)
DriveDone ==
    /\ drive.busy
    /\ \E failed \in BOOLEAN :
        /\ drive' = [drive EXCEPT !.busy = FALSE, !.failed = failed]
        /\ spoilt' = IF failed THEN spoilt \cup {drive.buf} ELSE spoilt \ {drive.buf}
        /\ disk' = IF drive.write /\ ~failed THEN [disk EXCEPT ![drive.buf] = drive.data]
                   ELSE disk
    /\ irq' = TRUE
    /\ UNCHANGED <<procVars, slocked, ide_queue, valid, dirty, data, task, buf>>

SpuriousRequest ==
    /\ Spurious
    /\ ~irq
    /\ irq' = TRUE
    /\ UNCHANGED <<procVars, slocked, ide_queue, valid, dirty, data, disk, drive,
                   spoilt, task, buf>>

-----------------------------------------------------------------------------
(* A request, under the sleep lock of its buffer *)

RequestIo(p) ==
    /\ InCode(p, "holds")
    /\ P!ClientAcquire(p, IdeLock)
    /\ Do(p, "io_queue")
    /\ UNCHANGED <<ioVars, slocked, buf>>

(* Append b to the queue, for a read or with new data for a write, and     *)
(* start the drive if it is the only one.                                  *)
QueueRequest(p) ==
    /\ InCode(p, "io_queue")
    /\ LET b == buf[p] IN
        /\ \/ /\ dirty' = dirty \cup {b}
              /\ data' = [data EXCEPT ![b] = "new"]
              /\ UNCHANGED valid
           \/ /\ valid' = valid \ {b}
              /\ UNCHANGED <<dirty, data>>
        /\ ide_queue' = Append(ide_queue, b)
    /\ Do(p, IF ide_queue = <<>> THEN "io_start" ELSE "io_wait")
    /\ UNCHANGED <<procVars, slocked, disk, drive, irq, spoilt, buf>>

StartRequest(p) ==
    /\ InCode(p, "io_start")
    /\ IdeStart(buf[p])
    /\ Do(p, "io_wait")
    /\ UNCHANGED <<slocked, ide_queue, valid, dirty, data, disk, irq,
                   spoilt, buf>>

Finished(b) == b \in valid /\ b \notin dirty

(* Seeded fault: sleep gets the wrong lock. *)
AwaitRequestOtherLock(p) ==
    /\ InCode(p, "io_wait")
    /\ ~Finished(buf[p])
    /\ P!SleepEnter(p, BufAddr(buf[p]), SpinLock(buf[p]))
    /\ UNCHANGED <<ioVars, slocked, task, buf>>

AwaitRequest(p) ==
    /\ InCode(p, "io_wait")
    /\ ~Finished(buf[p])
    /\ P!SleepEnter(p, BufAddr(buf[p]), IdeLock)
    /\ UNCHANGED <<ioVars, slocked, task, buf>>

RequestDone(p) ==
    /\ InCode(p, "io_wait")
    /\ Finished(buf[p])
    /\ P!ClientRelease(p, IdeLock)
    /\ Do(p, "holds")
    /\ UNCHANGED <<ioVars, slocked, buf>>

-----------------------------------------------------------------------------
(* ide_handler *)

DiskInterrupt ==
    /\ irq
    /\ P!Interrupt
    /\ irq' = FALSE
    /\ Do(Irq, "h_acquire")
    /\ UNCHANGED <<ide_queue, valid, dirty, data, disk, drive, spoilt, slocked, buf>>

HandlerAcquire ==
    /\ InCode(Irq, "h_acquire")
    /\ P!ClientAcquire(Irq, IdeLock)
    /\ Do(Irq, "h_head")
    /\ UNCHANGED <<ioVars, slocked, buf>>

(* No request: nothing to do. *)
HandlerNoRequest ==
    /\ InCode(Irq, "h_head")
    /\ ide_queue = <<>>
    /\ Do(Irq, "h_release")
    /\ UNCHANGED <<procVars, ioVars, slocked, buf>>

HandlerTakeHead ==
    /\ InCode(Irq, "h_head")
    /\ ide_queue # <<>>
    /\ buf' = [buf EXCEPT ![Irq] = Head(ide_queue)]
    /\ ide_queue' = Tail(ide_queue)
    /\ Do(Irq, "h_transfer")
    /\ UNCHANGED <<procVars, slocked, valid, dirty, data, disk, drive, irq, spoilt>>

(* Seeded fault: the data is taken without waiting for the drive. *)
HandlerTransferAtOnce ==
    /\ InCode(Irq, "h_transfer")
    /\ LET b == buf[Irq] IN
        /\ data' = IF b \notin dirty /\ ~drive.failed
                   THEN [data EXCEPT ![b] = IF drive.busy THEN Unread ELSE disk[drive.buf]]
                   ELSE data
        /\ valid' = valid \cup {b}
        /\ dirty' = dirty \ {b}
    /\ Do(Irq, "h_wakeup")
    /\ UNCHANGED <<procVars, slocked, ide_queue, disk, drive, irq, spoilt, buf>>

(* For a read, wait until the drive is ready and take the data, unless it  *)
(* reports an error.  In any case the buffer is valid and clean.           *)
HandlerTransfer ==
    /\ InCode(Irq, "h_transfer")
    /\ LET b == buf[Irq] IN
        /\ b \notin dirty => Ready
        /\ data' = IF b \notin dirty /\ ~drive.failed
                   THEN [data EXCEPT ![b] = disk[drive.buf]]
                   ELSE data
        /\ valid' = valid \cup {b}
        /\ dirty' = dirty \ {b}
    /\ Do(Irq, "h_wakeup")
    /\ UNCHANGED <<procVars, slocked, ide_queue, disk, drive, irq, spoilt, buf>>

(* Seeded fault: the handler wakes those who wait for the sleep lock. *)
HandlerWakeupLock ==
    /\ InCode(Irq, "h_wakeup")
    /\ P!WakeupAcquire(Irq, SleepLock(buf[Irq]))
    /\ Do(Irq, "h_next")
    /\ UNCHANGED <<ioVars, slocked, buf>>

HandlerWakeup ==
    /\ InCode(Irq, "h_wakeup")
    /\ P!WakeupAcquire(Irq, BufAddr(buf[Irq]))
    /\ Do(Irq, "h_next")
    /\ UNCHANGED <<ioVars, slocked, buf>>

(* Seeded fault: the next request is not started. *)
HandlerStartNone ==
    /\ InCode(Irq, "h_next")
    /\ buf' = [buf EXCEPT ![Irq] = NoBuf]
    /\ Do(Irq, "h_release")
    /\ UNCHANGED <<procVars, slocked, drive, ide_queue, valid, dirty, data, disk, irq, spoilt>>

(* Start the drive on the next request, if there is one. *)
HandlerStartNext ==
    /\ InCode(Irq, "h_next")
    /\ IF ide_queue # <<>> THEN IdeStart(Head(ide_queue)) ELSE UNCHANGED <<procVars, drive>>
    /\ buf' = [buf EXCEPT ![Irq] = NoBuf]
    /\ Do(Irq, "h_release")
    /\ UNCHANGED <<slocked, ide_queue, valid, dirty, data, disk, irq, spoilt>>

HandlerRelease ==
    /\ InCode(Irq, "h_release")
    /\ P!ClientRelease(Irq, IdeLock)
    /\ Do(Irq, "none")
    /\ UNCHANGED <<ioVars, slocked, buf>>

HandlerReturn ==
    /\ task[Irq] = "none"
    /\ P!InterruptReturn
    /\ UNCHANGED <<ioVars, slocked, task, buf>>

-----------------------------------------------------------------------------
(* Everything else happens inside Process. *)

Boot == P!InitUser \/ P!StartScheduler

(* The rest of a system call and of sleep.  Nothing calls yield. *)
KernelStep(p) ==
    \/ P!ForkRet(p) \/ P!TrapRet(p)
    \/ P!SleepRelease(p) \/ P!SleepSched(p) \/ P!SleepResume(p) \/ P!SleepReacquire(p)
    \/ task[p] = "none" /\ P!SyscallReturn(p)

InProcess ==
    /\ \/ Boot
       \/ P!SchedStep
       \/ \E p \in Procs : P!Syscall(p) \/ KernelStep(p)
       \/ P!WakeupScan(Irq)
    /\ UNCHANGED <<ioVars, slocked, task, buf>>

DriverStep(p) ==
    \/ \E b \in Bufs : AcquireSleepLock(p, b)
    \/ AcquireSleepWait(p) \/ AcquireSleepTake(p) \/ ReleaseSleep(p)
    \/ RequestIo(p) \/ QueueRequest(p) \/ StartRequest(p)
    \/ AwaitRequest(p) \/ RequestDone(p)

HandlerStep ==
    \/ HandlerAcquire \/ HandlerNoRequest \/ HandlerTakeHead \/ HandlerTransfer
    \/ HandlerWakeup \/ HandlerStartNext \/ HandlerRelease \/ HandlerReturn

Next ==
    \/ InProcess
    \/ \E p \in Procs : DriverStep(p)
    \/ DiskInterrupt \/ HandlerStep
    \/ DriveDone \/ SpuriousRequest

Spec == Init /\ [][Next]_vars

(* What the CPU does of itself: kernel code outside a handler runs to the  *)
(* end of the call; only user code may choose to make none.                *)
KernelCode ==
    \/ Boot /\ InProcess
    \/ P!SchedStep /\ InProcess
    \/ \E p \in Procs :
        \/ KernelStep(p) /\ InProcess
        \/ AcquireSleepWait(p) \/ AcquireSleepTake(p)
        \/ QueueRequest(p) \/ StartRequest(p) \/ AwaitRequest(p) \/ RequestDone(p)

(* Interrupts do not keep the interrupted code from running for ever, and  *)
(* the drive answers each command.                                         *)
FairSpec ==
    /\ Spec
    /\ SF_vars(KernelCode)
    /\ WF_vars(HandlerStep \/ (P!WakeupScan(Irq) /\ InProcess))
    /\ SF_vars(DiskInterrupt)
    /\ WF_vars(DriveDone)

-----------------------------------------------------------------------------
(* Properties *)

(* Every variable of this module has its type. *)
TypeOK ==
    /\ slocked \subseteq Bufs /\ valid \subseteq Bufs /\ dirty \subseteq Bufs
    /\ spoilt \subseteq Bufs
    /\ ide_queue \in Seq(Bufs)
    /\ data \in [Bufs -> Versions \cup {Unread}]
    /\ disk \in [Bufs -> Versions]
    /\ drive \in [buf : Bufs \cup {NoBuf}, write : BOOLEAN,
                  data : Versions \cup {Unread}, busy : BOOLEAN, failed : BOOLEAN]
    /\ irq \in BOOLEAN
    /\ buf \in [Threads -> Bufs \cup {NoBuf}]
    /\ DOMAIN task = Threads

IdeFree == ~locked[IdeLock]

(* Whenever ide_lock is free, the drive works on the head of the queue, or *)
(* has done so and the interrupt that completes it is due or taken; each   *)
(* buffer queued is queued once, unfinished, and awaited by the process    *)
(* that holds it.  A completion thus goes to the request it belongs to,    *)
(* also after interrupts the drive did not raise.                          *)
QueueServed ==
    IdeFree =>
        /\ ide_queue # <<>> => /\ drive.buf = Head(ide_queue)
                               /\ drive.busy \/ irq \/ task[Irq] = "h_acquire"
                               /\ drive.write <=> drive.buf \in dirty
        /\ \A i, j \in DOMAIN ide_queue : ide_queue[i] = ide_queue[j] => i = j
        /\ \A i \in DOMAIN ide_queue :
            /\ ~Finished(ide_queue[i])
            /\ \E p \in Procs : buf[p] = ide_queue[i] /\ task[p] = "io_wait"

(* Nobody sleeps for an answer that has come: whenever ide_lock is free,   *)
(* a process that sleeps on a buffer waits for a request in the queue.     *)
(* The wakeup cannot fall between the test of the flags and the sleep, and *)
(* none goes to another channel or comes before the flags are set.         *)
SleepersQueued ==
    IdeFree =>
        \A p \in Procs, b \in Bufs :
            state[p] = "SLEEPING" /\ chan[p] = BufAddr(b) =>
                \E i \in DOMAIN ide_queue : ide_queue[i] = b

(* A buffer that is valid, clean and not on its way to the disk holds what *)
(* the disk holds, unless the drive failed its last command.               *)
BufferMatchesDisk ==
    \A b \in valid \ (dirty \cup spoilt) :
        (drive.busy /\ drive.buf = b) \/ data[b] = disk[b]

(* Driver and sleep locks keep the rules Process has for its clients, so   *)
(* what holds of every such client holds of them: no panic, no lost CPU,   *)
(* no lock held across a switch.                                           *)
Disciplined == INSTANCE Process WITH
        CLocks <- {SpinLock(b) : b \in Bufs} \cup {IdeLock},
        Chans  <- {BufAddr(b) : b \in Bufs} \cup {SleepLock(b) : b \in Bufs},
        Wild   <- FALSE
KeepsTheRules == Disciplined!Spec

(* A process that waits for the disk gets its answer, if the CPU keeps     *)
(* coming back to the scheduler: no wakeup is lost between the test of the *)
(* flags and the sleep, and no request is left in the queue.               *)
IoCompletes ==
    []<>(cur = Sched /\ halt = "") =>
        \A p \in Procs : task[p] = "io_wait" ~> task[p] = "holds"
=============================================================================
