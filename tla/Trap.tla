-------------------------------- MODULE Trap --------------------------------
(***************************************************************************)
(* Traps and context switches word by word: the gates of the IDT, the      *)
(* stubs of trap/isr.c, asm/trap.asm, asm/switch.asm, and what the         *)
(* handlers of trap/interrupts.c and syscall.c do to the frame.  One CPU,  *)
(* the stack of the scheduler and the kernel stack of one process, which   *)
(* is new or in a system call whenever the scheduler runs.                 *)
(*                                                                         *)
(* A word of a stack is a pair: what it is and which.  Words that are      *)
(* always moved together are one: the segment registers, the registers of  *)
(* pusha other than eax, and ss with the user's esp; the registers of      *)
(* switch_to are those of pusha that C code expects to survive a call.     *)
(***************************************************************************)
EXTENDS Integers, Sequences, SequencesExt

CONSTANTS UserFaults,   \* exceptions a user program can cause
          UserInts,     \* operands of its INT instructions
          KernelFaults, \* exceptions in the kernel
          OpenVectors,  \* vectors of the lines that are open
          MaxDepth      \* bound: traps and switches in progress on a stack

UserCS    == <<"cs", 3>>
KernelCS  == <<"cs", 0>>
UserDS    == <<"ds", 3>>
KernelDS  == <<"ds", 0>>
UserEsp   == <<"esp", 3>>
Flags(if) == <<"eflags", if>>
Zero      == <<"zero", 0>>
Regs(k)   == <<"regs", k>>      \* what the code at level k computed, -1: the user's
No(n)     == <<"no", n>>
Err(n)    == <<"err", n>>       \* the error code the CPU pushes

(* eax of a program that makes a system call, and of the results: the      *)
(* count the caller gave, and -1.                                          *)
SYS_EXIT  == 2
SYS_READ  == 5
SYS_OPEN  == 15
SYS_WRITE == 16
SYS_FORK  == 1
Call(n)   == <<"call", n>>
Count     == <<"count", 0>>
MinusOne  == <<"count", -1>>

Sched  == <<"sched", 0>>     \* the loop of launch_first_proc
User   == <<"user", 0>>      \* the instruction the program has come to
ForkRet == <<"fork_ret", 0>>
TrapRetCode == <<"trap_ret", 0>>
Stacks == {"sched", "proc"}

VARIABLES
    cpu,    \* registers
    on,     \* the stack esp points into, or esp0 of the TSS in user mode
    stack,  \* each kernel stack, from its bottom, the highest address, to its top
    saved,  \* history: the registers each trap or switch in progress put away
    pc      \* "code", "halt", or "lost" at no code at all

vars == <<cpu, on, stack, saved, pc>>

Code(eip) == eip[1] \in {"user", "sched", "fork_ret", "trap_ret", "handler"}

-----------------------------------------------------------------------------
(* A new process *)

Start == [eip |-> User, cs |-> UserCS, eflags |-> Flags(1), esp |-> UserEsp,
          segs |-> UserDS, eax |-> Zero, gp |-> Zero]

(* Seeded fault: the frame lies one word too deep. *)
FirstFrameTooDeep ==
    <<Zero, UserEsp, Flags(1), UserCS, User, Zero, Zero, UserDS, Zero, Zero>>

(* config_proc_kstack puts it at the top of the stack; init_user fills in  *)
(* the fields that are not zero.                                           *)
FirstFrame == <<UserEsp, Flags(1), UserCS, User, Zero, Zero, UserDS, Zero, Zero>>

(* struct context, as switch_to leaves it. *)
Context(eip, regs) == <<eip, regs>>
NewStack == FirstFrame \o <<TrapRetCode>> \o Context(ForkRet, Zero)

InKernel(eip) == [eip |-> eip, cs |-> KernelCS, eflags |-> Flags(0), esp |-> Zero,
                  segs |-> KernelDS, eax |-> Regs(eip[2]), gp |-> Regs(eip[2])]

Init ==
    /\ cpu = InKernel(Sched)
    /\ on = "sched"
    /\ stack = [sched |-> <<>>, proc |-> NewStack]
    /\ saved = [sched |-> <<>>, proc |-> <<Start, [InKernel(ForkRet) EXCEPT !.gp = Zero]>>]
    /\ pc = "code"

Top(s)     == stack[s][Len(stack[s])]
Pop(s, n)  == SubSeq(stack[s], 1, Len(stack[s]) - n)
Goes(eip)  == pc' = IF Code(eip) THEN "code" ELSE "lost"

-----------------------------------------------------------------------------
(* Entry *)

(* Vectors for which the CPU pushes an error code. *)
WithError == {8, 10, 11, 12, 13, 14, 17, 21, 29, 30}

(* From user mode the stack starts at esp0 of the TSS, with ss and esp. *)
HardwareFrame(n) ==
    (IF cpu.cs = UserCS THEN <<cpu.esp>> ELSE stack[on])
    \o <<cpu.eflags, cpu.cs, cpu.eip>>
    \o (IF n \in WithError THEN <<Err(n)>> ELSE <<>>)

(* isr_*_stub pushes a zero and the vector. *)
Stub(n) == <<Zero, No(n)>>

(* All gates are interrupt gates, so IF is off from here to the iret.      *)
Enter(n) ==
    /\ Len(saved[on]) < MaxDepth
    /\ stack' = [stack EXCEPT
          ![on] = HardwareFrame(n) \o Stub(n) \o <<cpu.segs, cpu.eax, cpu.gp>>]
    /\ cpu' = InKernel(<<"handler", Len(saved[on]) + 1>>)
    /\ saved' = [saved EXCEPT ![on] = Append(@, cpu)]
    /\ UNCHANGED <<on, pc>>

UserFault(n) == pc = "code" /\ cpu.eip = User /\ Enter(n)

(* INT n from user mode: the gate must have DPL 3, or it is a general      *)
(* protection fault.  Only the gate of the system call has.                *)
GateDPL(n) == IF n = 128 THEN 3 ELSE 0
UserInt(n) ==
    /\ pc = "code"
    /\ cpu.cs = UserCS
    /\ Enter(IF GateDPL(n) = 3 THEN n ELSE 13)

KernelFault(n) == pc = "code" /\ cpu.cs = KernelCS /\ Enter(n)

Interrupt(n) == pc = "code" /\ cpu.eflags = Flags(1) /\ Enter(n)

(* The user program goes on and changes its registers. *)
UserRuns ==
    /\ pc = "code"
    /\ cpu.cs = UserCS
    /\ \E a \in {Regs(-1), Call(SYS_FORK), Call(SYS_EXIT), Call(SYS_READ), Call(SYS_OPEN), Call(SYS_WRITE)} :
          cpu' = [cpu EXCEPT !.eip = User, !.eax = a, !.gp = Regs(-1)]
    /\ UNCHANGED <<on, stack, saved, pc>>

-----------------------------------------------------------------------------
(* The handlers, with struct trap_frame at the top of the stack *)

(* Seeded fault: struct trap_frame has no err_code behind int_no. *)
DepthNoError(field) == CHOOSE k \in 1..8 :
    <<"gp", "eax", "segs", "int_no", "eip", "cs", "eflags", "err_code">>[k] = field
Depth(field) == CHOOSE k \in 1..8 :
    <<"gp", "eax", "segs", "int_no", "err_code", "eip", "cs", "eflags">>[k] = field
Field(s, field) == s[Len(s) + 1 - Depth(field)]
Set(s, field, w) == [s EXCEPT ![Len(s) + 1 - Depth(field)] = w]

Frame     == stack[on]
InHandler == pc = "code" /\ cpu.eip[1] = "handler"
IntNo     == Field(Frame, "int_no")[2]
Return(frame) ==
    /\ stack' = [stack EXCEPT ![on] = frame]
    /\ cpu' = [cpu EXCEPT !.eip = TrapRetCode]
    /\ UNCHANGED <<on, saved, pc>>

HaltVectors == {1, 2, 6, 8, 10, 12, 13, 14, 18}

HandlerHalts ==
    /\ InHandler
    /\ IntNo \in HaltVectors
    /\ pc' = "halt"
    /\ UNCHANGED <<cpu, on, stack, saved>>

(* isr_divide_error_handler: frame->eip += 2 *)
Skip(eip)    == <<eip[1], eip[2] + 2>>

DivideError ==
    /\ InHandler
    /\ IntNo = 0
    /\ Return(Set(Set(Frame, "eax", Zero), "eip", Skip(Field(Frame, "eip"))))

(* sys_write finds no file in ofile[fd] and takes the word at address 0,   *)
(* which the program may have written, for its ref.                        *)
sys_write == {MinusOne, Count}
sys_open  == {MinusOne}
sys_read  == {MinusOne}
Results(num) ==
    CASE num = Call(SYS_WRITE) -> sys_write
      [] num = Call(SYS_OPEN)  -> sys_open
      [] num = Call(SYS_READ)  -> sys_read
      [] OTHER                 -> {MinusOne}

(* syscall_handlers puts the result into frame->eax. *)
SyscallResult ==
    /\ InHandler
    /\ IntNo = 128
    /\ Field(Frame, "eax") # Call(SYS_EXIT)
    /\ \E r \in Results(Field(Frame, "eax")) : Return(Set(Frame, "eax", r))

(* SYS_EXIT does not hold ptable.lock, so sched panics. *)
SyscallExit ==
    /\ InHandler
    /\ IntNo = 128
    /\ Field(Frame, "eax") = Call(SYS_EXIT)
    /\ pc' = "halt"
    /\ UNCHANGED <<cpu, on, stack, saved>>

(* The other handlers leave the frame as it is. *)
HandlerReturns ==
    /\ InHandler
    /\ IntNo \notin HaltVectors \cup {0, 128}
    /\ Return(Frame)

-----------------------------------------------------------------------------
(* Threads of the kernel *)

(* The scheduler's sti, acquire and release. *)
SchedSetIF ==
    /\ pc = "code"
    /\ cpu.eip = Sched
    /\ \E if \in {0, 1} : cpu' = [cpu EXCEPT !.eflags = Flags(if)]
    /\ UNCHANGED <<on, stack, saved, pc>>

(* Seeded fault: switch_to does not restore the registers of next. *)
SwitchToKeepsRegs(next) ==
    /\ pc = "code" /\ cpu.eflags = Flags(0)
    /\ stack' = [stack EXCEPT ![on] = @ \o Context(cpu.eip, cpu.gp), ![next] = Pop(next, 2)]
    /\ cpu' = [cpu EXCEPT !.eip = stack[next][Len(stack[next]) - 1]]
    /\ saved' = [saved EXCEPT ![on] = Append(@, cpu), ![next] = Front(@)]
    /\ on' = next
    /\ Goes(cpu'.eip)

(* switch_to, called with interrupts off: the return address and the       *)
(* registers C code relies on go to one stack and come from the other.     *)
SwitchTo(next) ==
    /\ pc = "code" /\ cpu.eflags = Flags(0)
    /\ stack' = [stack EXCEPT ![on] = @ \o Context(cpu.eip, cpu.gp), ![next] = Pop(next, 2)]
    /\ cpu' = [cpu EXCEPT !.eip = stack[next][Len(stack[next]) - 1], !.gp = Top(next)]
    /\ saved' = [saved EXCEPT ![on] = Append(@, cpu), ![next] = Front(@)]
    /\ on' = next
    /\ Goes(cpu'.eip)

SchedSwitch == cpu.eip = Sched /\ on = "sched" /\ SwitchTo("proc")

(* A process gives the CPU back from inside a system call. *)
SyscallSwitch ==
    /\ on = "proc"
    /\ InHandler
    /\ IntNo = 128
    /\ Len(saved.proc) < MaxDepth
    /\ SwitchTo("sched")

(* fork_ret: release(&ptable.lock) leaves IF as intena says, the           *)
(* scheduler's or that of the process which the scheduler last left ...    *)
ForkRetRelease ==
    /\ pc = "code"
    /\ cpu.eip = ForkRet
    /\ \E if \in {0, 1} : cpu' = [cpu EXCEPT !.eip = <<"fork_ret", 1>>, !.eflags = Flags(if)]
    /\ UNCHANGED <<on, stack, saved, pc>>

(* ... and its return takes the address behind the context. *)
ForkRetReturn ==
    /\ pc = "code"
    /\ cpu.eip = <<"fork_ret", 1>>
    /\ cpu' = [cpu EXCEPT !.eip = Top(on)]
    /\ stack' = [stack EXCEPT ![on] = Pop(on, 1)]
    /\ Goes(Top(on))
    /\ UNCHANGED <<on, saved>>

-----------------------------------------------------------------------------
(* trap_ret: pop the registers, skip two words, and iret *)

AtTrapRet == pc = "code" /\ cpu.eip = TrapRetCode

TrapRet ==
    /\ AtTrapRet
    /\ LET rest == Pop(on, 5)
           top  == Len(rest)
           cs   == rest[top - 1]
       IN /\ cpu' = [gp     |-> Field(Frame, "gp"),
                     eax    |-> Field(Frame, "eax"),
                     segs   |-> Field(Frame, "segs"),
                     eip    |-> rest[top],
                     cs     |-> cs,
                     eflags |-> rest[top - 2],
                     esp    |-> IF cs = UserCS THEN rest[top - 3] ELSE Zero]
          /\ stack' = [stack EXCEPT ![on] = SubSeq(rest, 1, top - (IF cs = UserCS THEN 4 ELSE 3))]
          /\ Goes(rest[top])
    /\ saved' = [saved EXCEPT ![on] = Front(@)]
    /\ UNCHANGED on

Stopped == pc \in {"halt", "lost"} /\ UNCHANGED vars

Next ==
    \/ \E n \in UserFaults : UserFault(n)
    \/ \E n \in UserInts : UserInt(n)
    \/ \E n \in KernelFaults : KernelFault(n)
    \/ \E n \in OpenVectors : Interrupt(n)
    \/ UserRuns
    \/ HandlerHalts \/ DivideError \/ SyscallResult \/ SyscallExit \/ HandlerReturns
    \/ SchedSetIF \/ SchedSwitch \/ SyscallSwitch \/ ForkRetRelease \/ ForkRetReturn
    \/ TrapRet
    \/ Stopped

Spec == Init /\ [][Next]_vars

-----------------------------------------------------------------------------
(* Properties *)

Eips  == {User, Skip(User), Sched, ForkRet, <<"fork_ret", 1>>, TrapRetCode}
         \cup {<<"handler", k>> : k \in 1..MaxDepth}
Vectors == UserFaults \cup UserInts \cup KernelFaults \cup OpenVectors \cup {13}
Data  == {Zero, Count, MinusOne} \cup {Regs(k) : k \in -1..MaxDepth}
         \cup {Call(n) : n \in {SYS_FORK, SYS_EXIT, SYS_READ, SYS_OPEN, SYS_WRITE}}
Words == {UserCS, KernelCS, UserDS, KernelDS, UserEsp, Flags(0), Flags(1)} \cup Data
         \cup {No(n) : n \in Vectors} \cup {Err(n) : n \in WithError} \cup Eips
Registers == [eip : Eips, cs : {UserCS, KernelCS}, eflags : {Flags(0), Flags(1)},
              esp : {UserEsp, Zero}, segs : {UserDS, KernelDS}, eax : Data, gp : Data]

(* Types of the variables. *)
TypeOK ==
    /\ cpu \in Registers
    /\ on \in Stacks
    /\ stack \in [Stacks -> Seq(Words)]
    /\ saved \in [Stacks -> Seq(Registers)]
    /\ \A s \in Stacks : Len(saved[s]) <= MaxDepth
    /\ pc \in {"code", "halt", "lost"}

(* What a return may leave in the registers: what was put away, but for    *)
(* the result of a system call, what the divide error makes of them, and   *)
(* eax, which a called function need not preserve.                         *)
Resumed ==
    LET c == Last(saved[on'])
        n == Field(Frame, "int_no")
    IN IF on' # on THEN {[c EXCEPT !.eax = cpu.eax]}
       ELSE CASE n = No(128) -> {[c EXCEPT !.eax = r] : r \in Results(c.eax)}
              [] n = No(0)   -> {[c EXCEPT !.eax = Zero, !.eip = Skip(@)]}
              [] OTHER       -> {c}

(* Every return, of any trap from user mode or from the kernel, of a       *)
(* switch, and the first one of a process, continues exactly what was      *)
(* interrupted or put away.                                                *)
ResumesInterrupted ==
    [][Len(saved'[on']) < Len(saved[on']) => cpu' \in Resumed /\ pc' = "code"]_vars

(* No word is left behind on a kernel stack: it is empty in user mode and  *)
(* in the scheduler's code, however many traps and switches there were.    *)
StackUnwound == \A s \in Stacks : saved[s] = <<>> => stack[s] = <<>>

(* Whoever gets to see the frame and go on, the system call in particular, *)
(* finds the interrupted registers in the fields of struct trap_frame.     *)
FrameNamesInterrupted ==
    InHandler /\ IntNo \notin HaltVectors =>
        \A field \in {"gp", "eax", "segs", "eip", "cs", "eflags"} :
            Field(Frame, field) = Last(saved[on])[field]

(* interrupts.c:147 decodes frame->err_code as the error code of the page  *)
(* fault, as the other exceptions print theirs.  The field always holds    *)
(* the zero of the stub.                                                   *)
FrameHoldsErrorCode ==
    InHandler /\ IntNo \in WithError => Field(Frame, "err_code") = Err(IntNo)
=============================================================================
