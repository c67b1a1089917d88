# A verification project for the TuixOS kernel

TuixOS is a small i386 kernel in the style of xv6: one CPU (`MAX_CPUS` is 1), a
process table of `MAX_PROC` slots, spin locks that disable interrupts, sleep and
wakeup, an IDE driver, and a host tool that builds file system images. This
directory holds TLA+ models of it, the TLC runs that check them on small
instances, and proofs for instances of any size.

## 1. The system

| part | source | state | operations | hard behaviour |
|---|---|---|---|---|
| spin locks | `kernel/sys/spinlock.c` | `locked`, `cpu` per lock; `ncli`, `intena` of the CPU; EFLAGS.IF | `acquire`, `release`, `pushcli`, `popcli`, `holding` | an interrupt handler that uses locks may arrive between two statements |
| processes | `kernel/sys/process.c`, `asm/switch.asm` | `ptable` (state, chan, ctx, pgdir), `cpu.proc`, `cpu.scheduler`, CR3, TSS | `init_user`, `launch_first_proc`, `fork_ret`, `yield`, `sched`, `sleep`, `wakeup` | `ptable.lock` is taken on one stack and released on another; `intena` belongs to the CPU but describes a thread |
| system calls | `kernel/sys/syscall.c`, `sysfile.c` | none of their own | exit, open, read, write | exit enters `sched()` |
| traps | `kernel/trap/*`, `asm/trap.asm`, `asm/switch.asm` | IDT, handler table, the kernel stacks | gate entry, dispatch, `trap_ret`, `switch_to` | frame layout with and without error code; traps and switches nested in each other |
| sleep locks | `kernel/sys/sleeplock.c` | `locked`, `pid`, inner spin lock | `acquire_sleep`; `release_sleep` and `holding_sleep` are empty | waiting while others run |
| IDE driver | `kernel/drivers/ide.c` | `ide_queue`, buffer flags, the drive | `ide_start`, `ide_handler`, `ide_wait` | completion against queue order, errors, lost interrupts |
| interrupt controller | `kernel/drivers/pic.c` | masks, in-service bits | `enable_irq`, `disable_irq`, `send_eoi` | cascade, missing EOI |
| timer, keyboard | `drivers/timer.c`, `keyboard.c` | `timer_ticks` | tick; print the key | none |
| memory | `mm/kalloc.c`, `mm/vm.c` | free list; page directories | `kalloc`, `kfree`, `map_pages`, `setup_kvm`, `init_uvm`, `switch_uvm` | exhaustion, address arithmetic, no lock |
| boot information | `sys/mulitiboot2.c` | `mem_info` | one pass over the tags | counts and 64-bit addresses |
| queue | `sys/queue.c` | `head`, `tail` | enqueue, dequeue, peek | `tail` goes stale when the queue empties; unused since the scheduler scans the table |
| image builder | `tools/mkfs.c` | superblock, inodes, bitmap, `freeblock`, `freeinode` | `ialloc`, `iappend`, `balloc`, `main` | boundaries between direct, index and data blocks |
| strings | `lib/string.c` | none | copy, compare, search, convert | overlapping ranges, bounds |
| screen, serial port | `drivers/screen.c`, `serial.c` | the cells; the line | `kprintf`, `kprint`, `serial_printf` | a buffer of 128 bytes; the end of the format |
| GDT, boot sectors | `sys/gdt.c`, `boot/` | | | |

**How they interact.** `kernel_main` sets up memory, descriptor tables and
devices with interrupts off, creates the first process with `init_user`, enables
interrupts and enters `launch_first_proc`, which never returns. From then on the
only flow of control between the parts is

* the scheduler and the processes, which hand the CPU to each other with
  `switch_to`, always under `ptable.lock`;
* system calls (an interrupt gate: IF is off in the handler) from a process;
* interrupts, on the stack of whoever runs, while IF is on;
* `sleep` and `wakeup` through a channel, between a process and a handler or
  another process.

At this commit the kernel contains the whole locking and sleeping machinery but
few callers: `yield` and `sleep` are reached from `acquire_sleep` only,
`wakeup` from `ide_handler` only, which no vector reaches yet, and
`kernel_main` calls `init_user` once. The models therefore take the *clients*
of this machinery as an environment: any kernel code that calls it in any order.

## 2. Modules

### Cpu, Process, MCProcess

`Cpu` holds what `cli`, `sti`, `pushcli` and `popcli` do to the record
(IF, `ncli`, `intena`). `Process` is the core of the system. Its threads are the
processes (`Procs`), the scheduler loop (`Sched`) and the active interrupt
handler (`Irq`); `cur` is the thread whose stack is in use, `pc` says where each
one is. The labels are the places at which something else can happen in between:

| code | actions |
|---|---|
| `init_user`, `alloc_process`, `config_proc_kstack` | `InitUser`; `InitUserFails` when no slot or no page is left |
| end of `kernel_main`, start of `launch_first_proc` | `StartScheduler` |
| the loop of `launch_first_proc` | `SchedSti`, `SchedAcquire`, `SchedSkip`, `SchedSwitch`, `SchedBack`, `SchedRelease` |
| first run of a process | `ForkRet`, `TrapRet` |
| system call | `Syscall`, `SyscallReturn`; `SyscallExit` for SYS_EXIT |
| `yield` | `YieldAcquire`, `YieldSched`, `YieldReturn` |
| `sleep(chan, lk)` | `SleepEnter`, `SleepRelease`, `SleepSched`, `SleepResume`, `SleepReacquire` |
| `wakeup(chan)` | `WakeupAcquire`, `WakeupScan` |
| `sched` | `CallSched` with its four checks `SchedFault`, and `Restored` for the statement behind `switch_to` |
| a hardware interrupt | `Interrupt`, `InterruptReturn` |
| `PANIC` | `Panic(msg)` sets `halt`; in `Process`, `Halted` is its endless loop; in `Spinlock` a panic deadlocks |

Every check of the code that ends in `PANIC` is there and really stops the
model; an invariant says which of them can be reached. `svint` is the local
variable `intena` of `sched()`, one per kernel stack. `own` is bookkeeping of
the model: which client code path has acquired which lock.

Clients are the actions `ClientAcquire` and `ClientRelease`, and the guards
marked `Wild` in the calls of `yield`, `sleep` and `wakeup`. With `Wild = FALSE`
they keep the rules every caller in the source keeps: acquire only what the path
does not hold, release what it holds, hold exactly `lk` at `sleep(chan, lk)`,
nothing at `yield`, return from a system call or handler with nothing, and in a
handler one lock other than `ptable.lock` (as `ide_handler`). With `Wild = TRUE`
all these rules are dropped except that a handler returns with no lock and does
not take `ptable.lock` for itself.

Abstracted: pids, EMBRYO (the boot runs with interrupts off, so nobody sees it),
names, trap frame contents and the registers that `switch_to` saves (both are in
`Trap`), and `lk == 0` in `sleep` (no caller passes it).

### Spinlock, LockSpec, MCSpinlock

`Process` treats `acquire` and `release` as one step each. `Spinlock` shows that
this is right: it runs `spinlock.c` one statement per step, in a thread `Base`
and in a handler `Irq` that may come between any two statements while IF is
on, and calls the same functions on the same locks. `LockSpec` has the atomic
operations over the record of `Cpu`. The refinement mapping shows a call in
progress as not begun: until `cli` in its first `pushcli` nothing has changed,
and from there to its last statement no one else can run; `entry` remembers the
state at that `cli`.

### The modules of proofs

`ProcessProofs`, `SpinlockProofs`, `DiskProofs`, `TrapProofs`, `InterruptsProofs`,
`VmProofs` and `MkfsProofs` have the theorems about the module each is named after, for
every value of its constants; `LibProofs` has those about `Queue`, `Strings`, `Format` and
`Multiboot` (section 5).

### Vm, MCVm

`kalloc.c` and `vm.c` in the order in which `kernel_main` and `init_user` use
them. Addresses are counted in pages, and a directory or table has `N` entries
instead of 1024, so 32-bit arithmetic is arithmetic modulo `N * N`; the wrap
matters, because the last range of `k_maps` ends at address 0. `mem` holds the
tables entry by entry, in the pages the allocator handed out for them. A page
that `kfree` has filled with `0xdeadbeef` reads as present entries (`Junk`), so
that a table used without `memset` shows. The boot page table maps the first `N`
pages only, and every write of the kernel goes through the table in `cr3`
(`Writable`).

| code | actions |
|---|---|
| `init_physical_memory`, `free_range`, `kfree` | `FreePage`, `FreeRangeDone` |
| `setup_kvm` | `SetupKvm`, `NextRange`, with `MapPage` and `WalkNewTable` for `map_pages` and `walk_pgdir` |
| `init_kvm` | `InitKvm` |
| `config_proc_kstack`, `init_uvm` | `InitUser`, `InitUvm`, `InitUvmDone` |
| `switch_uvm`, `switch_kvm` | `SwitchUvm`, `SwitchKvm` |

`kalloc` may fail at each of its calls, and what happens then is what the code
does: a panic, a null pointer loaded into `cr3` or written through (`halt` says
which), or nothing at all, where `init_uvm` ignores the result of `map_pages`.
The boot creates up to `NINIT` processes, although `kernel_main` at this commit
creates one. Nothing ever frees a page of a process.

### MkfsData, ImageSpec, Mkfs

`ImageSpec` is what an image is: a list of files that are created empty and grow
at the end. `Mkfs` is `tools/mkfs.c` with its direct and index blocks,
`freeblock`, `freeinode` and bitmap: `iappend` is a loop with one action per kind
of round (`AppendDirect`, `AppendIndirect`, `AppendAborts`, `AppendReturn`),
`main` the actions `MakeRoot` to `Balloc`. The local copy `din` of the inode is a
variable of its own, because the inode on the image changes only at the end of
`iappend`. Data is counted in units of `sizeof(struct dirent)`, so `B_SIZE` is a
number of units; a unit of data is known by its origin (`MkfsData`). `read()` may
return any number of units up to a block. Names, byte order and the packing of
inodes into blocks are left out.

The program looks neither for the end of the inode table nor for that of the
image: an inode behind the table would be written over the bitmap and then over
data, and a block behind the image is short when `rsect` reads it. The model
follows the program up to the first such inode (`OpenBeyond`) or block
(`AppendBeyond`) and stops there, at `beyond`. Nothing is claimed of what the
program does after that.

### Pic, MCPic

`pic.c` against a model of the two 8259s (external: priorities, latching of
requests, the cascade, end of interrupt), the order in which `kernel_main`
programs them, and which handlers send an EOI (`EoiHandlers`). `Clients` are the
lines that drivers open and close with `enable_irq` and `disable_irq` while the
kernel runs. A handler is two steps, what it does (`HandlerBody`) and its `iret`
(`HandlerIret`). The handlers pass the vector, not the line, to `send_eoi`.

### Trap, MCTrap

Two kernel stacks word by word: that of the scheduler and that of one process,
which begins with the frame `init_user` builds. `on` says where `esp` points.

| code | actions |
|---|---|
| gates of `idt.c`, stubs of `isr.c`, upper half of `trap.asm` | `UserFault`, `UserInt`, `KernelFault`, `Interrupt`, all by `Enter` |
| `isr_handler` and the handlers of `interrupts.c` | `HandlerHalts`, `DivideError`, `HandlerReturns` |
| `syscall_handlers`, `sysfile.c` | `SyscallResult` with what each call leaves in `eax`; `SyscallExit` |
| `switch_to` | `SwitchTo`, from the scheduler (`SchedSwitch`) and from `sched` (`SyscallSwitch`) |
| `fork_ret` | `ForkRetRelease`, `ForkRetReturn` |
| lower half of `trap.asm` | `TrapRet` |

A word is a pair of what it is and which. Words that the code always moves
together are one: the segment registers, the registers of `pusha` other than
`eax`, `ss` with the user's `esp`. `saved` is a history variable: the registers
each trap or switch in progress has put away. `sys_write` looks through
`ofile[fd]`, which nothing ever fills, and so takes for `ref` the word at address
0 of the program: it may answer the count or -1.

### Interrupts, MCInterrupts

The composition of `Pic` and `Trap`, both by `INSTANCE`. IF is not a variable of
its own: `Pic` gets the one in the `eflags` of `Trap`. `Deliver` takes a line that
the controllers offer and pushes the frame with its vector; `IrqBody` is the
handler, which reads `int_no` from that frame and sends the EOI; `IrqReturn` the
`trap_ret` of an interrupt, `OtherReturn` that of any other trap. Exceptions,
system calls, switches and the user program come in between.

### Disk, MCDisk

`ide.c` and `sleeplock.c` on top of `Process` (`P == INSTANCE Process`), whose
actions for clients it calls: a process of `Disk` acquires the spin lock inside a
sleep lock with `P!ClientAcquire`, sleeps with `P!SleepEnter`, and so on, and the
handler wakes with `P!WakeupAcquire`.

| code | actions |
|---|---|
| `acquire_sleep` | `AcquireSleepLock`, `AcquireSleepWait` (then the steps of `sleep`), `AcquireSleepTake` |
| `release_sleep`, which is empty | `ReleaseSleep` |
| `ide_start` with its three panics, `ide_wait` | `IdeStart`, `IdeStartFault`, `Ready` |
| `ide_handler` | `HandlerAcquire`, `HandlerNoRequest`, `HandlerTakeHead`, `HandlerTransfer`, `HandlerWakeup` (then `P!WakeupScan`), `HandlerStartNext`, `HandlerRelease` |
| external: code that queues a request | `RequestIo`, `QueueRequest`, `StartRequest`, `AwaitRequest`, `RequestDone` |
| external: the drive | `DriveDone`, `SpuriousRequest` |

The code that queues requests is missing at this commit. The model has what
`ide_start` (its caller holds `ide_lock`) and `ide_handler` (it takes the request at
the head, wakes who sleeps on the buffer and starts the next) leave it to do: append
the buffer, start the drive if there is no other, sleep until the buffer is valid
and clean. It fills in a block number that the disk has (`BlockAssumption`), as
`ide_start` demands. `isr_ata1_handler` does not call `ide_handler` either; the
model has the call that `ide.h` announces. A block has two versions, the old one and
what a process writes; the drive may fail any command, and raise interrupts for
none.

`Process` is instantiated with `Wild = TRUE`, which lets its actions be called
without its rules for clients, and `KeepsTheRules` says that the result is
nevertheless a behaviour of `Process` with `Wild = FALSE`. So what section 5
proves of all disciplined clients holds of the disk driver and the sleep locks.

### FifoSpec, Queue

`queue.c` on nodes with arbitrary links, and what `queue.h` promises, a sequence.
`Contents` follows the links from `head`.

### Strings, Format, Multiboot, MCSequential, MCStrings

`Strings` is `lib/string.c` on a memory of a few bytes: every function as a
function of memory and arguments, written from its loops (`CopyUp` and `CopyDown`
are the two directions byte by byte), and one step per call, for every memory
first. Callers give ranges inside the memory, strings that end in it, and
overlapping ranges only to `memmove`. `Wrote` and `Answered` are what `string.h`
promises of the memory and of the value returned. For unequal strings `string.h`
has `strcmp` and `strncmp` return a negative number, and the code returns the
difference of the first two bytes that differ; `Ordered` says what that is, and
`MCStrings` states what the header says.

`Format` is `serial_printf`, `kprintf`, `kprint` and `int_to_str`; a step is one
round of the loop over the format and takes one argument. `meaning` collects what
the format and the arguments stand for, by a definition of numerals of its own
(`Numeral`): `%p` is one prefix and the digits, `%d` the number with its sign.
Two directives print something else. `serial_printf` puts the prefix of `%p`
in front of digits that have it already, and `kprintf` prints nothing for a
negative `%d`. The history variable `misprint` records that one of them was met.

`Multiboot` is the pass over the boot loader's tags. The loader (external) places
each tag at the next multiple of 8; the code has to find it. `WORD` stands for
2^32, so that a region may end beyond it; `SLOTS` for the 32 entries of
`memory_map`, and `Stored` writes the first entry too many where it goes, into
the counters behind the array.

`MCSequential` extends these modules, `Queue` and `Mkfs`: in each behaviour one of
them runs and the others rest, since they share nothing.

How the models fit together: `Process` uses the atomic locks that `Spinlock`
implements, and `Disk` is one of its clients; an `Interrupt` of `Process` is a
`Deliver` of `Interrupts`, and its `InterruptReturn`, `SyscallReturn` and `TrapRet`
are the `iret` that `Trap` shows to continue what was interrupted, as its change of
`cur` is the `switch_to` of `Trap`; `switch_uvm` in `Process` only names the
address space that `Vm` shows to have the same kernel half as all others, which
is why the stack in use survives the change of `cr3`.

## 3. Runs

| run | module, cfg | what it asks | distinct states |
|---|---|---|---|
| `process` | `MCProcess` | disciplined clients: the safety invariants, the inductive invariant, no starvation, and an idle kernel keeps enabling interrupts | 25,679 |
| `process_wild` | `MCProcess`, `MCProcessWild` | clients that break the rules: does `sched()` still refuse every bad switch? | 144,703 |
| `spinlock` | `MCSpinlock` | no panic and no spinning on one CPU; implements `LockSpec`; every call returns | 4,208 |
| `vm` | `MCVm` | one owner per page, exact address spaces, wherever memory runs out | 1,434 |
| `sequential` | `MCSequential` | the image builder implements `ImageSpec`, uses every block once, bitmap and directory exact; queue, strings, formatted output and boot information do what their headers promise | 512,554 |
| `interrupts` | `MCInterrupts` | traps, switches and controllers together: every return continues what was interrupted, the EOIs balance, no open line is blocked for good | 213,184 |
| `disk` | `MCDisk` | driver and sleep locks keep the rules of `Process`; completions reach their request; every wait for the disk ends | 340,666 |
| `exit` | `MCProcess`, `MCProcessExit` | the comment on SYS_EXIT; **violated** | |
| `preempt` | `MCProcess`, `MCProcessPreempt` | the comment on the timer handler; **violated** | |
| `pic_disk` | `MCPic`, `MCPicDisk` | the comment on line 14; **violated** | |
| `trap_error` | `MCTrap`, `MCTrapError` | the comment on the error code of a page fault; **violated** | |
| `strcmp_doc` | `MCStrings` | what `string.h` says of `strcmp` and `strncmp`; **violated** | |

**Bounds.**

* `Process`: three slots are enough for a process that runs, one that is passed
  over behind it and one before it, so that the resumption of the scan matters;
  with two, "the next slot" and "the first slot" coincide. Two channels let a
  wakeup miss. One client lock besides `ptable.lock` gives every nesting that the
  rules allow in `sleep` (lk and `ptable.lock`); nesting of two client locks in
  either order is covered in `Spinlock`, which has two. Nothing else is bounded:
  the state spaces are finite as they are.
* `Vm`: with 16 entries per table a kernel half takes a directory and three
  tables, and a process seven pages in all. The kernel image ends anywhere from
  page 3 to 16, of 24. From 13 on memory runs out in each of the four calls of
  `kalloc` under `init_kvm`; below that one or two processes fit, and the next
  one fails at each of its seven calls in some behaviour, with others alive.
* `sequential`, `Mkfs`: two direct and two index entries and two units per block
  reach every boundary of `iappend` (first and last direct block, first index
  block, last block, one unit beyond it) in every division into reads. A fourth
  argument finds the inode table full, the largest files do not fit on the image,
  and one image is a block too large for its bitmap.
* `Interrupts`: the lines are the three whose handlers send an EOI, on both
  controllers; the clients may open and close the timer and the cascade, whose
  state at run time is not fixed by the boot code's order. The vectors are one of
  each kind: skipped, passed over, halting with and without an error code, INT
  with and without privilege. `MaxDepth = 3` lets an exception come in an
  interrupt in a new process whose first frame is still there; a fourth level
  would stand to the third as the third to the second.
* `Disk`: two processes and two buffers give every conflict there is: two
  processes for one buffer, and a queue with a request behind the head. A third
  request would only make the queue longer.
* `sequential`, the rest: five bytes of memory hold two strings side by side or a
  range that overlaps itself in either direction; three values of a byte are one
  for NUL and two that compare. Formats of four characters have two directives, so
  that one which prints what it means comes before or after one which does not;
  the buffer ends within a number, a string and a plain character. `WORD` is 8, so
  regions end below, at and above 4 GB; a third entry is one too many. Three nodes
  give a queue an inner one.

The runs that fail on purpose:

* `exit`: `syscall.c:25` promises a switch to the next process after SYS_EXIT.
  `sched()` insists on `ptable.lock`, which the handler did not take, and panics.
* `preempt`: `timer.c:37` says that a tick forces a process switch. The call of
  `schedule()` is commented out, and no other handler leads to `sched()`.
* `pic_disk`: `ide.c:33` says that line 14 is enabled. `enable_irq(14)` opens it
  on the slave; input 2 of the master stays masked since `disable_pic`.
* `trap_error`: `interrupts.c:147` decodes the error code of a page fault. The
  stubs push a zero for every vector, so `err_code` is that zero and the fields
  behind it are off by one word. The handlers of these vectors all halt, which is
  why `ResumesInterrupted` still holds.
* `strcmp_doc`: `string.h:105` and `string.h:116` say of strings that are not equal
  that the result is negative. `string.c:176` and `string.c:191` return the
  difference of the bytes, which is positive when the first string is the greater.

**Fairness.**

* `Process`: the scheduler loop gets strong fairness: the CPU executes
  instructions between two interrupts, so a step of the loop that is possible
  again and again is taken. Handlers are straight-line code, so they release what
  they hold (`ClientRelease(Irq, l)`) and return (`InterruptReturn`); the boot
  goes on. Nothing is assumed about processes: they may stay in user mode or in a
  loop of system calls, which is why both liveness properties are stated under
  `[]<>(cur = Sched)`, "the CPU keeps coming back to the scheduler".
* `Spinlock`: only that the CPU executes the statements of the thread and of the
  handler. That handlers end (`[]<>(pc[Irq] = "off")`) is a hypothesis inside
  `CallsReturn`, since the client code in the handler is free.
* `Interrupts`: boot and handlers are straight-line code, and the CPU takes an
  interrupt that it is offered again and again. That interrupts are on again and
  again with nothing of higher priority waiting is a hypothesis of
  `OpenLineServed`; devices, masks, programs and exceptions are free.
* `Disk`: kernel code outside handlers runs to the end of its call (strong,
  because interrupts come in between), the handler runs, the CPU takes the disk
  interrupt, and the drive answers each command (weak; `ide_wait` has no answer
  to one that does not). That the CPU keeps coming back to the scheduler is a
  hypothesis of `IoCompletes`, as in `Process`: there is no preemption.

## 4. Properties

* `NoPanic`: with disciplined clients no PANIC of `spinlock.c` or `process.c` is
  reachable, other than the one in SYS_EXIT and the two failures of `init_user`.
* `InterruptsOnlyUnlocked`: `ncli` is the number of locks held, and IF is set
  only when it is zero. This is what makes a one-CPU spin lock safe.
* `SyscallKeepsIFOff`: no `popcli` enables interrupts in the middle of a system
  call. It depends on `sched()` restoring `intena`: the scheduler saves TRUE in it.
* `RunningIsCurrent`: `cpu.proc`, CR3, the TSS stack and the one RUNNING process
  agree with the stack in use.
* `ParkedHoldsNothing`: off the CPU a process is inside `sched()`, or new.
* `SleepersHaveChannel`: a process has a channel exactly while it is in
  `sleep()`, so a wakeup finds every sleeper and nobody else.
* `SwitchOnlyUnderPtable` (action property, wild clients): every change of stack
  happens with `ptable.lock` as the only lock, IF off, and away from a process
  that is no longer RUNNING.
* `NoStarvation`, `IdleInterruptible`: the two liveness properties of the loop.
* `NeverStuck`, `ActsAtOneInstant`, `CallsReturn`: `spinlock.c` on one CPU.
* `PagesOwnedOnce`: every page given to the allocator is in the free list or has
  exactly one use, at every step and after a failure halfway. `KernelHalfExact`,
  `UserHalfExact`: an address space, and the one in `cr3` in particular, maps what
  it should, read-only text included, and nothing else. The user half is the page
  of the process; when `init_uvm` has no memory left for the table, which it does not
  notice, it is empty, and that can only be the latest process, with every earlier
  one whole. `OnlyOutOfMemoryStops`:
  whatever page the allocator hands out can be written through the page table
  then in use, which is what the split into two calls of `free_range` is for.
* `WritesFiles`: `Mkfs` implements `ImageSpec` when each file is read back through
  its blocks. `BlocksUsedOnce`, `BitmapExact`, `RootNamesEveryFile`: no block is
  lost or shared; the bitmap marks what is used; every file has its entry. All of
  them as far as the inode table and the image have room.
* `ServiceMatchesStack`, `OpenLineServed`: the controllers hold in service
  exactly the interrupt whose frame is on a stack; an EOI ends exactly its own, on
  both controllers, so that no line stays blocked.
* `ResumesInterrupted` (action property), `StackUnwound`,
  `FrameNamesInterrupted`: every return, of a trap or a switch, continues what was
  interrupted, no word is left behind, and handlers that go on find the registers
  in the right fields.
* `SleepersQueued`: whenever `ide_lock` is free, a process that sleeps on a buffer
  waits for a request in the queue, so no wakeup falls between the test of the flags
  and the sleep, goes to another channel or comes too early. `QueueServed`: whenever
  `ide_lock` is free, the drive works on the head of the queue or its interrupt is
  due, and every queued buffer is queued once and awaited; so a completion goes to
  its request, also after interrupts the drive did not raise. `BufferMatchesDisk`: a
  buffer marked valid and clean holds what the disk holds, unless the drive failed
  its last command. `KeepsTheRules`: the refinement of `Process` described above.
  `IoCompletes`: every wait for the disk ends.
* `QueueIsFifo`: `queue.c` implements a sequence whatever the links of nodes outside
  the queue hold. `StringsAsDocumented` (action property): every function writes and
  returns what `string.h` says, but for the sign of `strcmp` and `strncmp` for
  unequal strings, which is that of C's order; `strcmp_doc` shows the disagreement.
  `PrintsMeaning`: what is printed is what the format means exactly when no
  directive misprints (and with one that does it never is), within the buffer and
  the screen. `MemInfoExact`: `mem_info` agrees with the tags.

Each one has a seeded fault beside the definition it changes (marked "Seeded
fault" in the modules), a plausible slip in that code which TLC shows to violate
it.

## 5. Proofs

The proofs fit together as the code does:
`SpinlockProofs` justifies the atomic `acquire` and `release` of `Process`,
`ProcessProofs` is about every client that keeps the locking rules, and
`DiskProofs` first shows that the driver and the sleep locks are such a client and
then uses what `ProcessProofs` says of it. `TrapProofs` is about
the stacks, and `InterruptsProofs` joins them with the interrupt controllers.
`VmProofs` (memory), `MkfsProofs` (the file system image) and `LibProofs` (the queue,
the boot information, the string library and formatted output) stand on their own.

### ProcessProofs

For clients that keep the rules (`~Wild`) and for every value of the other
constants allowed by `SizeAssumption` and `NameAssumption` (at least one slot;
finitely many client locks, none of them `ptable.lock`; `NoChan` is no channel):

| theorem | property |
|---|---|
| `Invariance` | `IInv` |
| `PanicFreedom` | `NoPanic` |
| `LockBalance` | `InterruptsOnlyUnlocked` |
| `SyscallAtomicity` | `SyscallKeepsIFOff` |
| `Dispatch` | `RunningIsCurrent` |
| `Parking` | `ParkedHoldsNothing` |
| `SleepChannels` | `SleepersHaveChannel` |

and for any clients, those that break the rules included (`Wild` TRUE or FALSE):

| theorem | property |
|---|---|
| `TypeCorrect` | `TypeOK` |
| `SwitchDiscipline` | `SwitchOnlyUnderPtable` (action property): `sched()` checks enough |

None of the safety properties is inductive alone. `IInv` adds what ties them to
the place of each thread:

* `LocksAccounted`: a lock is taken exactly when the running thread or the
  handler holds it, either by its own acquire (`own`) or because its label is one
  at which it owes a release of `ptable.lock` (`PtableLabels`); and `ncli` counts
  the taken locks. The hand-over across `switch_to` is visible here: `switched`,
  `fork_ret`, `yielded` and `slept` are all such labels.
* `OwnershipByLabel`: what `own` may be at each label.
* `InterruptWindow`: the labels at which IF may be on, that a handler runs only
  over those, that no kernel stack has a TRUE saved `intena`, and that inside a
  system call or a handler with a lock held `intena` is FALSE.
* `Parked`, `Current`: where processes off the CPU are, and what the CPU's
  registers say about the one on it.

There is one lemma per action, `<Action>Step`, with one step per conjunct;
`AcquireCounts` and `ReleaseCounts` carry the counting argument, `AcquireWindow`
and `ReleaseWindow` the one about `intena`, `OpenHoldsNothing` that a thread with
interrupts on holds no lock. `NextIInv` collects the actions.

`IInv` is of no use for clients that break the rules: there `own` says nothing
about a process any more. `SwitchInv` keeps the little that survives as long as
no PANIC stopped the machine. `ncli` still counts the taken locks, because acquire
refuses a taken lock and release a free one. In the scheduler loop the taken
locks are known exactly: `ptable.lock` alone, with interrupts off and no handler
active, during the scan, and what the active handler has taken outside it
(`SchedulerLocks`); `cpu.proc` is the process on the CPU. Then `sched()` that finds
`ptable.lock` taken and `ncli = 1` has found the only taken lock (`SchedLeaves`).
`NextTypes` and `NextSwitches` collect the actions, `HaltedStays` says that a PANIC
is final.

### SpinlockProofs

For every finite set of locks (`SpinAssumption`), with the handler between any two
statements at which IF is on:

| theorem | property |
|---|---|
| `Invariance` | `IInv` |
| `TypeCorrect` | `TypeOK` |
| `NobodySpins` | `NeverStuck` |
| `Atomicity` | `ActsAtOneInstant`: every behaviour is one of `LockSpec` |

`IInv` says for every place inside a call how many `pushcli` are in effect there
(`AcquirePlace`, `ReleasePlace`); that whoever can be interrupted has none of them
behind it and holds no lock (`Interruptible`, `Windows`), so that nobody but the
thread whose statement is next (`Runner`) can have a lock; what `locked` and `cpu`
of each lock are while they are being changed (`LocksOf`); and how the state
differs from the one the caller left, which `entry` remembers (`EntryOf`).
There is one lemma per statement. `Atomicity` then needs of each statement only
whether the refinement mapping sees it: the last statement of a call is the
operation of `LockSpec`, a statement after the first `cli` is a stutter because the
mapping shows `entry`, and what comes before the `cli` has changed nothing.

### DiskProofs

For every number of processes and buffers (`BufsAssumption`: the null pointer is no
buffer; `ProcessAssumption`: the constants fit those of `Process`; `BlockAssumption`:
requests name blocks of the disk), for drives that fail commands and raise interrupts
for none:

| theorem | property |
|---|---|
| `Discipline` | `KeepsTheRules`: the driver is a client of `Process` with `Wild = FALSE` |
| `TypeCorrect` | `TypeOK` |
| `CompletionsInOrder` | `QueueServed` |
| `NoWakeupLost` | `SleepersQueued` |
| `BufferCoherence` | `BufferMatchesDisk` |
| `DriverNeverPanics` | no panic of `spinlock.c`, `process.c` or `ide_start` is reachable |

1. `Rules` relates the place of a thread in the driver to its label in `Process`
   and to the locks it holds. It is inductive without anything from `Process`, and
   it implies the guards that `Process` has with `Wild = FALSE`: hence `Discipline`,
   step by step.
2. With `Discipline` the theorem `Invariance` of `ProcessProofs` holds of `Disk`
   (`Ruled == INSTANCE ProcessProofs`): a thread holds `ide_lock` alone, a handler
   cannot come between, and nobody panics in `spinlock.c` or `process.c`.
3. With that, `Holders` (who is inside a sleep lock) and `DriverInv` are inductive:
   the queue has each buffer once, and its owner is waiting for it (`QueuedOnce`,
   `Awaited`); so `ide_start` gets no null pointer, and by `BlockAssumption` a block
   of the disk; the drive has the command of the head, or the handler is about to
   start it (`HeadServed`, `TakenServed`, `StartsAlone`); what the drive and the
   buffer contain agrees with what was written (`DriveTrue`, `WritesOut`).
4. `NoWakeupLost` needs what happens between the test of the flags and the sleep.
   `SleepInv` says that a request which is not finished is in the queue or with the
   handler (`Unanswered`), that a process about to sleep has its request in the
   queue (`Dozing`; it holds `ide_lock` or `ptable.lock` until it is SLEEPING, so the
   handler cannot take the request in between), and that for one which sleeps the
   handler may also be on its way to the wakeup (`Sleepers`).

### TrapProofs

For every choice of vectors, any depth of nested traps and any interleaving of
traps, interrupts, system calls and switches, provided that (`HandlersCanReturn`)
the handlers of vectors with an error code halt, because `trap_ret` skips two words
where there are three, and that the kernel divides by zero nowhere:

| theorem | property |
|---|---|
| `FramesAccountedFor` | `IInv` |
| `TypesCorrect` | `TypeOK` |
| `StacksUnwound` | `StackUnwound` |
| `FramesNameInterrupted` | `FrameNamesInterrupted` |
| `ResumesWhatWasInterrupted` | `ResumesInterrupted` |

That a return continues what was interrupted says nothing of the stack underneath,
which the next return pops. `IInv` therefore cuts each stack into layers, one for
each of the registers in `saved` (`Shape`): `Layer` says where the frame of trap
`k` begins and ends, what of `saved[s][k]` its words are (`Holds`), and which code may run
above it (`Outcome`: its handler, `trap_ret` after it, or `fork_ret` in a new
process); `Rest` what is above the last one, the context of `switch_to` in
particular; `Thread` which registers are possible at all. How long a layer is
depends on the registers in it, so its end is given by a function `off` of the
number of the trap. The lemmas on `Fits` say what appending a layer (`Enter`),
taking one away (`TrapRet`) or changing a word (`Return`) does to the others, and `Switching` what
`switch_to` does to two stacks; then there is one lemma per action. The steps
prove `IInv'` and the action property `Resumes` at once, since the registers that
a return loads come from the layer that it takes away.

### InterruptsProofs

For every choice of lines whose handlers send an EOI, of exceptions of the user
program as in `TrapProofs` and of exceptions of the kernel whose handlers halt
(`HandlersComeBack`), any devices and any use of the masks:

| theorem | property |
|---|---|
| `InStep` | `IInv` |
| `MachineIsTrap` | every behaviour is one of `Trap` |
| `TypesCorrect` | `TypesOK` |
| `ServiceIsOnStack` | `ServiceMatchesStack` |
| `StacksUnwound`, `FramesNameInterrupted` | the properties of that name |
| `ResumesWhatWasInterrupted` | `ResumesInterrupted` |

Until the `sti` the machine is code of the scheduler's stack (`Booting`), and each of
its steps is one of `Trap` (`StepOfTrap`); so `IInv` of `TrapProofs` holds. On top
of it `ServiceFrame` says where the vectors of lines are on the stacks: nowhere, or
at one word of the stack the CPU is on, with the handler or `trap_ret` above it, or
with an exception above that from which nobody returns. The EOI then ends the line that
`isr` holds because `int_no` of the frame on top is the vector of `handler`
(`BodyFindsVector`, `EoiEndsService`); a system call, whose code may switch, is
never above an interrupt (`ThreadsServed`), so no interrupt moves to another stack.
`TrapProofs` is instantiated a second time there (`Proved`); the lemmas `Same...`
say that its definitions are those of `T`.

### VmProofs

For every size of memory, tables and kernel image, any number of processes and any
end of the image that `LayoutAssumption` allows, wherever memory runs out:

| theorem | property |
|---|---|
| `Invariance` | `IInv` |
| `TypeCorrect` | `TypeOK` |
| `Ownership` | `PagesOwnedOnce` |
| `KernelHalf` | `KernelHalfExact` |
| `UserSpaces` | `UserHalfExact` |
| `Stops` | `OnlyOutOfMemoryStops` |

`PagesOwnedOnce` counts the uses of a page; the invariant says the same as sets:
free pages, directories, tables, stacks and user memory divide the pages that
`free_range` has passed (`Partition`), and each of them is there once (`FreedOnce`,
`TabledOnce`, `GivenOnce`). This is what keeps one address space as it is while
another is built: a table belongs to one slot of one directory, so an entry written
by `map_pages` shows at one address of one directory (`Progress` for the one in work,
`Complete` for the others). `Progress` says how far each of the four `k_maps` has
come; that the addresses still ahead are absent is why the panic `remap` is out of
reach, and 32-bit wrap-around appears as the last address of the last range.
`Ownership` then only has to count singletons (`AtMostOne`).

### MkfsProofs

For every size of the image, of its log, inode table and blocks, any number of
direct and index entries, of arguments and of units in the files, and any sizes of
the pieces that `read()` returns, provided that the metadata fits on the image, the
root inode into the inode table (`RoomAssumption`), and that there is an argument.
What follows holds as far as the inode table and the image have room; of what the
program does beyond them the theorems say nothing:

| theorem | property |
|---|---|
| `Invariance` | `IInv` |
| `TypeCorrect` | `TypeOK` |
| `BlocksOwned` | `BlocksUsedOnce` |
| `BitmapRight` | `BitmapExact` |
| `RootComplete` | `RootNamesEveryFile` |
| `ImageRefinement` | `WritesFiles`: every behaviour is one of `ImageSpec` |

`Spot` lists where a file keeps block numbers: direct entries, the index block, the
entries of the index block. `Owned` says that these places and the blocks handed out
correspond one to one. With it, writing a block changes one block of one file, and
`Filled` is inductive: each unit is what belongs there (`Meant`) before the end of
the file, and never written behind it. It has to be stated of the inode that iappend
has in memory (`Current`), which is ahead of the one on the image; `Settled` says
that the two agree up to the size on the image, where the reader stops. `Blank`
makes a fresh block an empty one, also when it becomes an index block. `Waiting`,
`Counts` and `Appending` tie the pieces still to be written to the arguments and to
the entries of the root directory. `AppendDirectStep` and `AppendIndirectStep`
differ only in how the block is found; `Written` does the rest for both. When an
assertion of iappend stops the program, or it has come to `beyond`, nothing is
claimed but the types, and the refinement holds because the inodes and blocks of the
image stay. The types are not empty there: every inode written lies in the table, every
block handed out on the image.

### LibProofs

The sequential parts, for values of the constants that the code allows: finitely
many nodes, none of them the null pointer (`NodesAssumption`); a memory of any size
with at least two byte values (`MemoryAssumption`); any width of words, number of tags
and of entries up to the first one too many (`WordAssumption`); any strings, formats,
buffer and screen, ints but for `INT_MIN` and unsigned ints of up to eight hexadecimal
digits (`StrsAssumption`, `FormatAssumption`):

| theorem | property |
|---|---|
| `QueueInvariant` | `QueueIInv` |
| `QueueRefinesFifo` | `QueueIsFifo`: every behaviour is one of `FifoSpec` |
| `BootInvariant` | `BootIInv` |
| `MemoryInformation` | `MemInfoExact` |
| `StringFunctions` | `StringsAsDocumented` (action property), with C's sign of `strcmp` and `strncmp` |
| `PrintInvariant` | `PrintInv` |
| `OutputMeansFormat` | `PrintsMeaning` |

What these properties say is the result of a loop or of a recursive function: the
walk along the links, a sum over the entries, the copy of a range, the digits of a
number. The induction theorems of the library take an operator, so induction is
used here in the form of sets: a set of naturals that is not empty has a least
element (`Least`, from the well-founded order of the naturals), hence one with 0 and
all successors is all of them (`Induct`); a step function has exactly one iteration
(`Recursion`, `Unique`), so that a CHOOSE for a recursive function is the function that
the recursion describes. Where a loop is bounded by a constant of the model the
theorem holds for every value of that constant.

* Queue: `QueueIInv` says that the queued nodes are one chain (`Chain`) from `head` to
  `tail`, none of them twice, of a length that the walk finds (`ChainIsContents`). The
  links of all other nodes are arbitrary, which is why `enqueue` must clear `next` and
  `dequeue` of the last node must clear `tail`: `EnqueueAppends` and
  `DequeueTakesHead` use both.
* Boot information: `BootIInv` says that the code looks for the next tag where the
  loader has put it (`tag = placed`, both multiples of 8, by `Aligned`), and that the
  counters, the sums and the extremes are those of the entries passed so far
  (`Exact`), as long as they fit `memory_map`. `TotalGrows` is the sum with one entry
  more; `Words` puts 64-bit values together from their halves.
* Strings: one lemma for each function, `<Function>Is`, from lemmas about the two
  copying directions (`CopyUpMoves`, `CopyDownMoves`: an overlapping range arrives
  whole in the direction that memmove chooses), about the first byte that ends a
  scan (`FirstStop`) and about the reversal in place (`TurnsAll`).
* Formatted output: `PowerIs` and `DividedTwice` lead to `LowIs`, that the loop over
  `num / 10` gives the digits from the lowest, and with `TurnedDigits` to `DecimalIs`;
  ten rounds are enough for an int (`TenDigits`). `HexIs` and `UpperIs` are the two
  hexadecimal conversions. `PrintInv` says that the line has exactly what is meant
  (`Sent`) and the buffer a prefix of it, all of it unless the buffer is full
  (`Buffered`, `Fitted`); once a directive has misprinted, that the line is longer and
  what the buffer was given shorter than what is meant, so they never agree again.

### Only model-checked

Every safety property, action property and refinement that a run checks is a theorem.
What is left to TLC is liveness, which is out of the prover's reach like ENABLED:
`NoStarvation` and `IdleInterruptible` (`Process`), `CallsReturn` (`Spinlock`),
`OpenLineServed` (`Interrupts`) and `IoCompletes` (`Disk`); and the disagreements
with comments and documents that the failing runs show.

## 6. Not modelled, and the plan

`PROJECT.json` lists every component with its status and every hazard of the code,
those without a property too.

Not modelled, because it is only output or constants: the addresses and sizes of
kernel sections that `mulitiboot2.c` collects for printing,
`print_memory_summary`, the screen and the echo of `keyboard.c`, `gdt.c` but for
the selectors in `Trap`, `sysconf`, the 16-bit boot sectors that the GRUB build does
not use. `init_serial` and the wait for the serial line are port I/O without state
in the kernel.

Not modelled, inside components that are:

* `Process`: pids and names; `lk == 0` in `sleep`.
* `Disk`: `yield` (the processes of the driver give the CPU up by sleeping); the
  numbers that `ide_start` writes to the ports; the fields `name` and `pid` of a
  sleep lock, which nothing reads; `holding_sleep`, which is declared and has no
  body.
* `Mkfs`: what is overwritten behind the inode table, and how `rsect` fails behind the
  image (`beyond`).
* `Queue`: calls with a null pointer for the queue.
* `Format`: `-INT_MIN`, which is undefined, and the attribute bytes of the screen.
* `Multiboot`: what lies behind the counters after `memory_map`: only the first
  entry too many is followed.

Noticed while modelling, not shown by a run: `sleeplock.h` announces that
`release_sleep` wakes the waiters, and its body is empty; `mkfs.c:277` counts an
extra block for the root directory when its entries fill a block exactly;
`isr_ata1_handler` does not call `ide_handler`; `ide_handler` marks a buffer valid
also after a read error; `last_usable_addr` is cut to 32 bits; `init.asm` passes
numbers of system calls that `syscall.h` no longer uses; the handlers of vectors 11,
17, 21, 29 and 30, for which the CPU pushes an error code, return, and `trap_ret` skips two
words where there are three (`Trap` has these vectors only where a cfg asks for
them).

Of the plan every safety property, action property and refinement is now a theorem;
what is left are the liveness properties of "Only model-checked" above.
