-------------------------- MODULE InterruptsProofs --------------------------
(***************************************************************************)
(* Theorems about Interrupts for every choice of lines whose handlers send *)
(* an EOI and of vectors whose handlers can return: the machine implements *)
(* Trap, and the controllers and the stacks stay in step.                  *)
(***************************************************************************)
EXTENDS Interrupts, TLAPS

(* Every handler that returns can: those of vectors with an error code     *)
(* halt, and so do all exceptions of the kernel.  Every line that has a    *)
(* device has a handler that sends an EOI.                                 *)
HandlersComeBack ==
    /\ UserFaults \cap T!WithError \subseteq T!HaltVectors
    /\ KernelFaults \subseteq T!HaltVectors
    /\ Lines \subseteq P!EoiHandlers

(* The theorems about Trap. *)
Proved == INSTANCE TrapProofs WITH OpenVectors <- {32 + irq : irq \in Lines}

-----------------------------------------------------------------------------
(* What the theorems call Proved!X is what Interrupts calls T!X *)

(* Registers and words, ...                                                *)
LEMMA SameRegisters ==
    /\ T!Registers = Proved!Registers /\ T!Words = Proved!Words /\ T!Stacks = Proved!Stacks
    /\ T!User = Proved!User /\ T!Sched = Proved!Sched /\ T!ForkRet = Proved!ForkRet
    /\ T!TrapRetCode = Proved!TrapRetCode
    /\ T!UserCS = Proved!UserCS /\ T!KernelCS = Proved!KernelCS
    /\ \A n : T!Flags(n) = Proved!Flags(n) /\ T!No(n) = Proved!No(n)
    /\ T!HaltVectors = Proved!HaltVectors /\ T!WithError = Proved!WithError
  BY DEF T!Registers, Proved!Registers, T!Words, Proved!Words, T!Stacks, Proved!Stacks,
     T!User, Proved!User, T!Sched, Proved!Sched, T!ForkRet, Proved!ForkRet,
     T!TrapRetCode, Proved!TrapRetCode, T!UserCS, Proved!UserCS, T!KernelCS, Proved!KernelCS,
     T!Flags, Proved!Flags, T!No, Proved!No, T!HaltVectors, Proved!HaltVectors,
     T!WithError, Proved!WithError, T!Eips, Proved!Eips, T!Data, Proved!Data,
     T!Skip, Proved!Skip,
     T!UserDS, Proved!UserDS, T!KernelDS, Proved!KernelDS, T!UserEsp, Proved!UserEsp,
     T!Zero, Proved!Zero, T!Count, Proved!Count, T!MinusOne, Proved!MinusOne,
     T!Regs, Proved!Regs, T!Call, Proved!Call, T!SYS_FORK, Proved!SYS_FORK, T!SYS_EXIT, Proved!SYS_EXIT,
     T!SYS_READ, Proved!SYS_READ, T!SYS_OPEN, Proved!SYS_OPEN, T!SYS_WRITE, Proved!SYS_WRITE,
     T!Vectors, Proved!Vectors, T!Err, Proved!Err

(* ... the entries, ...                                                    *)
LEMMA SameEntries ==
    \A n : /\ T!UserFault(n) <=> Proved!UserFault(n)
           /\ T!UserInt(n) <=> Proved!UserInt(n)
           /\ T!KernelFault(n) <=> Proved!KernelFault(n)
           /\ T!Interrupt(n) <=> Proved!Interrupt(n)
  BY DEF T!Enter, Proved!Enter, T!HardwareFrame, Proved!HardwareFrame, T!Stub,
         Proved!Stub, T!UserFault, Proved!UserFault, T!UserInt, Proved!UserInt,
         T!GateDPL, Proved!GateDPL, T!KernelFault, Proved!KernelFault, T!Interrupt,
         Proved!Interrupt, T!Code, Proved!Code, T!InKernel, Proved!InKernel, T!UserDS,
         Proved!UserDS, T!KernelDS, Proved!KernelDS, T!UserEsp, Proved!UserEsp, T!Zero,
         Proved!Zero, T!Regs, Proved!Regs, T!Sched, Proved!Sched, T!User, Proved!User,
         T!ForkRet, Proved!ForkRet, T!TrapRetCode, Proved!TrapRetCode, T!UserCS,
         Proved!UserCS, T!KernelCS, Proved!KernelCS, T!Flags, Proved!Flags, T!No,
         Proved!No, T!Err, Proved!Err, T!WithError, Proved!WithError, T!HaltVectors,
         Proved!HaltVectors

(* ... the handlers, ...                                                   *)
LEMMA SameHandlers ==
    /\ T!InHandler <=> Proved!InHandler
    /\ T!IntNo = Proved!IntNo
    /\ T!HandlerHalts <=> Proved!HandlerHalts
    /\ T!DivideError <=> Proved!DivideError
    /\ T!SyscallResult <=> Proved!SyscallResult
    /\ T!SyscallExit <=> Proved!SyscallExit
    /\ T!HandlerReturns <=> Proved!HandlerReturns
  BY DEF T!Frame, Proved!Frame, T!InHandler, Proved!InHandler, T!IntNo, Proved!IntNo,
         T!Field, Proved!Field, T!Depth, Proved!Depth, T!Set, Proved!Set, T!Return,
         Proved!Return, T!HandlerHalts, Proved!HandlerHalts, T!Skip, Proved!Skip,
         T!DivideError, Proved!DivideError, T!sys_write, Proved!sys_write, T!sys_open,
         Proved!sys_open, T!sys_read, Proved!sys_read, T!Results, Proved!Results,
         T!SyscallResult, Proved!SyscallResult, T!SyscallExit, Proved!SyscallExit,
         T!HandlerReturns, Proved!HandlerReturns, T!MinusOne, Proved!MinusOne, T!Count,
         Proved!Count, T!Call, Proved!Call, T!SYS_FORK, Proved!SYS_FORK, T!SYS_EXIT,
         Proved!SYS_EXIT, T!SYS_READ, Proved!SYS_READ, T!SYS_OPEN, Proved!SYS_OPEN,
         T!SYS_WRITE, Proved!SYS_WRITE, T!Code, Proved!Code, T!InKernel,
         Proved!InKernel, T!UserDS, Proved!UserDS, T!KernelDS, Proved!KernelDS,
         T!UserEsp, Proved!UserEsp, T!Zero, Proved!Zero, T!Regs, Proved!Regs, T!Sched,
         Proved!Sched, T!User, Proved!User, T!ForkRet, Proved!ForkRet, T!TrapRetCode,
         Proved!TrapRetCode, T!UserCS, Proved!UserCS, T!KernelCS, Proved!KernelCS,
         T!Flags, Proved!Flags, T!No, Proved!No, T!Err, Proved!Err, T!WithError,
         Proved!WithError, T!HaltVectors, Proved!HaltVectors

(* ... the threads, ...                                                    *)
LEMMA SameThreads ==
    /\ T!UserRuns <=> Proved!UserRuns
    /\ T!SchedSetIF <=> Proved!SchedSetIF
    /\ T!ForkRetRelease <=> Proved!ForkRetRelease
    /\ T!ForkRetReturn <=> Proved!ForkRetReturn
  BY DEF T!UserRuns, Proved!UserRuns, T!SchedSetIF, Proved!SchedSetIF, T!ForkRetRelease,
         Proved!ForkRetRelease, T!ForkRetReturn, Proved!ForkRetReturn, T!Top,
         Proved!Top, T!Pop, Proved!Pop, T!Goes, Proved!Goes, T!Call, Proved!Call,
         T!SYS_FORK, Proved!SYS_FORK, T!SYS_EXIT, Proved!SYS_EXIT, T!SYS_READ,
         Proved!SYS_READ, T!SYS_OPEN, Proved!SYS_OPEN, T!SYS_WRITE, Proved!SYS_WRITE,
         T!Code, Proved!Code, T!InKernel, Proved!InKernel, T!UserDS, Proved!UserDS,
         T!KernelDS, Proved!KernelDS, T!UserEsp, Proved!UserEsp, T!Zero, Proved!Zero,
         T!Regs, Proved!Regs, T!Sched, Proved!Sched, T!User, Proved!User, T!ForkRet,
         Proved!ForkRet, T!TrapRetCode, Proved!TrapRetCode, T!UserCS, Proved!UserCS,
         T!KernelCS, Proved!KernelCS, T!Flags, Proved!Flags, T!No, Proved!No, T!Err,
         Proved!Err, T!WithError, Proved!WithError, T!HaltVectors, Proved!HaltVectors

(* ... the switches, ...                                                   *)
LEMMA SameSwitches ==
    /\ T!SchedSwitch <=> Proved!SchedSwitch
    /\ T!SyscallSwitch <=> Proved!SyscallSwitch
  BY DEF T!Front, Proved!Front, T!SchedSwitch, Proved!SchedSwitch, T!SyscallSwitch,
         Proved!SyscallSwitch,
         T!SwitchTo, Proved!SwitchTo, T!Context, Proved!Context, T!Top, Proved!Top,
         T!Pop, Proved!Pop, T!Goes, Proved!Goes, T!Frame, Proved!Frame, T!InHandler,
         Proved!InHandler, T!IntNo, Proved!IntNo, T!Field, Proved!Field, T!Depth,
         Proved!Depth, T!Code, Proved!Code, T!InKernel, Proved!InKernel, T!UserDS,
         Proved!UserDS, T!KernelDS, Proved!KernelDS, T!UserEsp, Proved!UserEsp, T!Zero,
         Proved!Zero, T!Regs, Proved!Regs, T!Sched, Proved!Sched, T!User, Proved!User,
         T!ForkRet, Proved!ForkRet, T!TrapRetCode, Proved!TrapRetCode, T!UserCS,
         Proved!UserCS, T!KernelCS, Proved!KernelCS, T!Flags, Proved!Flags, T!No,
         Proved!No, T!Err, Proved!Err, T!WithError, Proved!WithError, T!HaltVectors,
         Proved!HaltVectors

(* ... the return from a trap, ...                                         *)
LEMMA SameReturn == T!TrapRet <=> Proved!TrapRet
  BY DEF T!Front, Proved!Front, T!TrapRet, Proved!TrapRet, T!AtTrapRet, Proved!AtTrapRet,
         T!Pop, Proved!Pop,
         T!Field, Proved!Field, T!Depth, Proved!Depth, T!Frame, Proved!Frame, T!Goes,
         Proved!Goes, T!Code, Proved!Code, T!InKernel, Proved!InKernel, T!UserDS,
         Proved!UserDS, T!KernelDS, Proved!KernelDS, T!UserEsp, Proved!UserEsp, T!Zero,
         Proved!Zero, T!Regs, Proved!Regs, T!Sched, Proved!Sched, T!User, Proved!User,
         T!ForkRet, Proved!ForkRet, T!TrapRetCode, Proved!TrapRetCode, T!UserCS,
         Proved!UserCS, T!KernelCS, Proved!KernelCS, T!Flags, Proved!Flags, T!No,
         Proved!No, T!Err, Proved!Err, T!WithError, Proved!WithError, T!HaltVectors,
         Proved!HaltVectors

(* ... the initial state, ...                                              *)
LEMMA SameInit == T!Init <=> Proved!Init
  BY DEF T!Init, Proved!Init, T!Start, Proved!Start, T!FirstFrame, Proved!FirstFrame,
         T!Context, Proved!Context, T!NewStack, Proved!NewStack, T!Code, Proved!Code,
         T!InKernel, Proved!InKernel, T!UserDS, Proved!UserDS, T!KernelDS,
         Proved!KernelDS, T!UserEsp, Proved!UserEsp, T!Zero, Proved!Zero, T!Regs,
         Proved!Regs, T!Sched, Proved!Sched, T!User, Proved!User, T!ForkRet,
         Proved!ForkRet, T!TrapRetCode, Proved!TrapRetCode, T!UserCS, Proved!UserCS,
         T!KernelCS, Proved!KernelCS, T!Flags, Proved!Flags, T!No, Proved!No, T!Err,
         Proved!Err, T!WithError, Proved!WithError, T!HaltVectors, Proved!HaltVectors

(* ... and the properties.                                                 *)
LEMMA SameProperties ==
    /\ T!TypeOK <=> Proved!TypeOK
    /\ T!StackUnwound <=> Proved!StackUnwound
    /\ T!FrameNamesInterrupted <=> Proved!FrameNamesInterrupted
    /\ T!Resumed = Proved!Resumed
  BY SameRegisters, SameHandlers
     DEF T!TypeOK, Proved!TypeOK, T!StackUnwound, Proved!StackUnwound,
         T!FrameNamesInterrupted, Proved!FrameNamesInterrupted, T!Resumed,
         Proved!Resumed, T!Field, Proved!Field, T!Depth, Proved!Depth, T!Frame,
         Proved!Frame, T!Last, Proved!Last, T!Skip, Proved!Skip, T!No, Proved!No,
         T!Zero, Proved!Zero, T!Results, Proved!Results, T!sys_write, Proved!sys_write,
         T!sys_open, Proved!sys_open, T!sys_read, Proved!sys_read, T!MinusOne,
         Proved!MinusOne, T!Count, Proved!Count, T!Call, Proved!Call, T!SYS_READ,
         Proved!SYS_READ, T!SYS_OPEN, Proved!SYS_OPEN, T!SYS_WRITE, Proved!SYS_WRITE

-----------------------------------------------------------------------------
(* The inductive invariant *)

IrqVectors == 32..47
Frames(s)  == Proved!Frames(s, IrqVectors)

(* kernel_main is the code of the scheduler's stack until its sti.         *)
Booting == boot # "run" => cpu.eip = Proved!Sched /\ pc = "code" /\ handler = P!None

(* Above the frame of the interrupt in progress, at word p, is its handler *)
(* or, after it, trap_ret, unless the kernel failed in there for good.     *)
Serving(p) ==
    LET b == Len(stack[on]) IN
    \/ p = b - 3 /\ cpu.eip[1] = "handler" /\ ~done
    \/ p = b - 3 /\ cpu.eip = Proved!TrapRetCode /\ done
    \/ p # b - 3 /\ cpu.eip[1] = "handler" /\ Proved!IntNo \in Proved!HaltVectors

(* Only the interrupt in progress has a frame. *)
ServiceFrame ==
    \A s \in Proved!Stacks :
        IF handler # P!None /\ s = on
        THEN \E p \in 1..Len(stack[s]) :
                /\ Frames(s) = {p}
                /\ stack[s][p] = Proved!No(32 + handler)
                /\ Serving(p)
        ELSE Frames(s) = {}

Service ==
    /\ P!TypeOK
    /\ P!InServiceIsHandled
    /\ done => handler # P!None

IInv == Proved!IInv /\ Booting /\ Service /\ ServiceFrame

-----------------------------------------------------------------------------
(* What the assumptions say of Trap *)

(* What HandlersCanReturn asks, and which lines are left.                  *)
LEMMA CanReturn ==
    ASSUME HandlersComeBack
    PROVE  /\ Proved!HandlersCanReturn
           /\ Lines \subseteq {0, 1, 14}
           /\ KernelFaults \subseteq Proved!HaltVectors
           /\ \A irq \in Lines : 32 + irq \in IrqVectors /\ 32 + irq \in Proved!Vectors
  <1>1. Lines \subseteq {0, 1, 14}
    BY DEF HandlersComeBack, P!EoiHandlers, P!IRQ_TIMER, P!IRQ_KEYBOARD, P!IRQ_ATA1
  <1>2. /\ KernelFaults \subseteq Proved!HaltVectors
        /\ UserFaults \cap Proved!WithError \subseteq Proved!HaltVectors
    BY SameRegisters DEF HandlersComeBack
  <1>3. /\ {32 + irq : irq \in Lines} \cap Proved!WithError = {}
        /\ 0 \notin {32 + irq : irq \in Lines}
    <2>1. \A irq \in Lines : 32 + irq > 31
      BY <1>1
    <2>2. \A n \in Proved!WithError : n \in Int /\ n <= 31
      BY DEF Proved!WithError
    <2> QED
      BY <2>1, <2>2
  <1>4. 0 \notin KernelFaults
    BY <1>2 DEF Proved!HaltVectors
  <1>5. MaxDepth \in Nat /\ MaxDepth >= 2
    BY VectorsAssumption
  <1>6. Proved!HandlersCanReturn
    BY <1>2, <1>3, <1>4, <1>5 DEF Proved!HandlersCanReturn
  <1> QED
    BY <1>1, <1>2, <1>6 DEF IrqVectors, Proved!Vectors

(* No exception has the vector of a line.                                  *)
LEMMA ExceptionVectors ==
    ASSUME HandlersComeBack
    PROVE  /\ UserFaults \cap IrqVectors = {} /\ KernelFaults \cap IrqVectors = {}
           /\ Proved!HaltVectors \cap IrqVectors = {}
  BY CanReturn, VectorsAssumption DEF IrqVectors, Proved!HaltVectors

-----------------------------------------------------------------------------
(* What each step of Trap leaves of the service *)

(* The invariant of Trap goes on.                                          *)
LEMMA TrapGoesOn ==
    ASSUME HandlersComeBack, Proved!IInv, [Proved!Next]_trapVars
    PROVE  Proved!IInv' /\ Proved!Resumes
  <1>1. [Proved!Next]_Proved!vars
    BY DEF trapVars, Proved!vars
  <1> QED
    BY <1>1, CanReturn, Proved!NextIInv

(* With an interrupt in progress the CPU is in the kernel.                 *)
LEMMA InService ==
    ASSUME IInv, handler # P!None
    PROVE  /\ on \in Proved!Stacks
           /\ \E p \in 1..Len(stack[on]) :
                /\ Frames(on) = {p}
                /\ stack[on][p] = Proved!No(32 + handler)
                /\ Serving(p)
           /\ \A s \in Proved!Stacks : s # on => Frames(s) = {}
           /\ cpu.eip[1] = "handler" \/ cpu.eip = Proved!TrapRetCode
           /\ cpu.cs # Proved!UserCS
           /\ cpu.eip \notin {Proved!Sched, Proved!User, Proved!ForkRet, <<"fork_ret", 1>>}
  <1>1. on \in Proved!Stacks /\ cpu \in Proved!Registers
    BY DEF IInv, Proved!IInv, Proved!TypeOK
  <1>2. PICK p \in 1..Len(stack[on]) :
                /\ Frames(on) = {p}
                /\ stack[on][p] = Proved!No(32 + handler)
                /\ Serving(p)
    BY <1>1 DEF IInv, ServiceFrame
  <1>3. cpu.eip[1] = "handler" \/ cpu.eip = Proved!TrapRetCode
    BY <1>2 DEF Serving
  <1>4. \A s \in Proved!Stacks : s # on => Frames(s) = {}
    BY DEF IInv, ServiceFrame
  <1>5. Proved!Sane(cpu)
    <2>1. Proved!Thread(on, Proved!Execs(on)) /\ Proved!Execs(on) = Append(saved[on], cpu)
      BY <1>1 DEF IInv, Proved!IInv, Proved!Execs
    <2>2. saved[on] \in Seq(Proved!Registers)
      BY <1>1 DEF IInv, Proved!IInv, Proved!TypeOK
    <2>3. Len(Append(saved[on], cpu)) \in 1..Len(Append(saved[on], cpu))
          /\ Append(saved[on], cpu)[Len(Append(saved[on], cpu))] = cpu
      BY <1>1, <2>2
    <2> QED
      BY <2>1, <2>3 DEF Proved!Thread
  <1>6. cpu.cs = Proved!UserCS => cpu.eip \in {Proved!User, Proved!Skip(Proved!User)}
    BY <1>5, Proved!Different DEF Proved!Sane
  <1>7. cpu.eip \notin {Proved!Sched, Proved!User, Proved!ForkRet, <<"fork_ret", 1>>,
                        Proved!Skip(Proved!User)}
    BY <1>3 DEF Proved!Sched, Proved!User, Proved!ForkRet, Proved!Skip, Proved!TrapRetCode
  <1> QED
    BY <1>1, <1>2, <1>3, <1>4, <1>6, <1>7

(* Nothing moves: devices, masks, the boot.                                *)
LEMMA StacksStay ==
    ASSUME IInv, UNCHANGED <<on, stack>>,
           UNCHANGED <<handler, done, cpu>> \/ (handler = P!None /\ UNCHANGED handler)
    PROVE  ServiceFrame'
  <1>1. \A s : Frames(s)' = Frames(s)
    BY DEF Frames, Proved!Frames, IrqVectors, Proved!No
  <1>2. CASE handler = P!None
    BY <1>1, <1>2 DEF IInv, ServiceFrame, P!None, Proved!Stacks
  <1>3. CASE UNCHANGED <<handler, done, cpu>>
    <2>1. \A p : Serving(p)' <=> Serving(p)
      BY <1>3 DEF Serving, Proved!IntNo, Proved!Field, Proved!Frame, Proved!Depth,
         Proved!TrapRetCode, Proved!HaltVectors
    <2> QED
      BY <1>1, <1>3, <2>1 DEF IInv, ServiceFrame, P!None, Proved!Stacks, Proved!No
  <1> QED
    BY <1>2, <1>3

(* A handler of another trap, and threads and switches, with no interrupt  *)
(* in progress.                                                            *)
LEMMA NothingToServe ==
    ASSUME IInv, handler = P!None, UNCHANGED handler,
           \A s \in Proved!Stacks : Frames(s)' \subseteq Frames(s)
    PROVE  ServiceFrame'
  <1>1. \A s \in Proved!Stacks : Frames(s) = {}
    BY DEF IInv, ServiceFrame
  <1> QED
    BY <1>1 DEF ServiceFrame, P!None, Proved!Stacks

-----------------------------------------------------------------------------
(* Entries *)

(* The vector of an exception is none of a line, and with an interrupt in  *)
(* progress it is one whose handler halts.                                 *)
LEMMA ExceptionEnters ==
    ASSUME HandlersComeBack, IInv, Exceptions
    PROVE  \E n \in Proved!Vectors \ IrqVectors :
              /\ Proved!Enter(n)
              /\ handler # P!None => n \in Proved!HaltVectors
  <1>1. CASE \E n \in UserFaults : T!UserFault(n)
    <2>1. PICK n \in UserFaults : Proved!UserFault(n)
      BY <1>1, SameEntries
    <2>2. cpu.eip = Proved!User /\ Proved!Enter(n)
      BY <2>1 DEF Proved!UserFault
    <2> QED
      BY <2>2, InService, ExceptionVectors DEF Proved!Vectors
  <1>2. CASE \E n \in UserInts : T!UserInt(n)
    <2>1. PICK n \in UserInts : Proved!UserInt(n)
      BY <1>2, SameEntries
    <2>2. cpu.cs = Proved!UserCS /\ Proved!Enter(IF Proved!GateDPL(n) = 3 THEN n ELSE 13)
      BY <2>1 DEF Proved!UserInt
    <2>3. Proved!GateDPL(n) = 3 => n = 128
      BY DEF Proved!GateDPL
    <2>4. handler = P!None
      BY <2>2, InService
    <2>5. 128 \notin IrqVectors /\ 13 \notin IrqVectors
      BY DEF IrqVectors
    <2>6. n \in Proved!Vectors /\ 13 \in Proved!Vectors
      BY DEF Proved!Vectors
    <2>7. PICK m \in {n, 13} : Proved!Enter(m) /\ (m = n => n = 128 \/ m = 13)
      BY <2>2, <2>3
    <2> QED
      BY <2>4, <2>5, <2>6, <2>7
  <1>3. CASE \E n \in KernelFaults : T!KernelFault(n)
    <2>1. PICK n \in KernelFaults : Proved!KernelFault(n)
      BY <1>3, SameEntries
    <2>2. Proved!Enter(n)
      BY <2>1 DEF Proved!KernelFault
    <2> QED
      BY <2>2, CanReturn, ExceptionVectors DEF Proved!Vectors
  <1> QED
    BY <1>1, <1>2, <1>3 DEF Exceptions

(* What a handler finds at the place of the vector.                        *)
LEMMA NumberOfFrame ==
    ASSUME NEW n, Len(stack[on]) \in Nat, stack[on][Len(stack[on]) - 3] = Proved!No(n)
    PROVE  Proved!IntNo = n
  <1>1. Len(stack[on]) + 1 - 4 = Len(stack[on]) - 3
    OBVIOUS
  <1> QED
    BY <1>1, Proved!Depths, Proved!Different DEF Proved!IntNo, Proved!Field, Proved!Frame

(* An exception puts its frame above that of the interrupt.                *)
LEMMA ExceptionServed ==
    ASSUME HandlersComeBack, IInv, Exceptions, UNCHANGED picVars
    PROVE  ServiceFrame'
  <1>1. PICK n \in Proved!Vectors \ IrqVectors :
              /\ Proved!Enter(n)
              /\ handler # P!None => n \in Proved!HaltVectors
    BY ExceptionEnters
  <1>2. Proved!IInv /\ on' = on /\ on \in Proved!Stacks
    BY <1>1 DEF IInv, Proved!IInv, Proved!TypeOK, Proved!Enter
  <1>3. \A s \in Proved!Stacks : Frames(s)' = Frames(s)
    <2>1. ASSUME NEW s \in Proved!Stacks
          PROVE  Proved!Frames(s, IrqVectors)' = Proved!Frames(s, IrqVectors)
      <3> DEFINE V == 32..47
      <3>1. V = IrqVectors /\ n \notin V
        BY <1>1 DEF IrqVectors
      <3> HIDE DEF V
      <3>2. Proved!Frames(s, V)' = Proved!Frames(s, V)
              \cup (IF s = on /\ n \in V THEN {Len(stack'[on]) - 3} ELSE {})
        BY <1>1, <1>2, Proved!EnterFrames
      <3> QED
        BY <3>1, <3>2
    <2> QED
      BY <2>1 DEF Frames, IrqVectors
  <1>4. CASE handler = P!None
    BY <1>3, <1>4, NothingToServe DEF picVars
  <1>5. CASE handler # P!None
    <2>1. PICK p \in 1..Len(stack[on]) :
                /\ Frames(on) = {p}
                /\ stack[on][p] = Proved!No(32 + handler)
      BY <1>5, InService
    <2>2. /\ Len(stack'[on]) \in Nat /\ Len(stack'[on]) >= Len(stack[on]) + 8
          /\ \A i \in 1..Len(stack[on]) : stack'[on][i] = stack[on][i]
          /\ stack'[on][Len(stack'[on]) - 3] = Proved!No(n)
      BY <1>1, <1>2, Proved!EnterFrames
    <2>3. Len(stack[on]) \in Nat
      BY <1>2 DEF Proved!IInv, Proved!TypeOK
    <2>4. p \in 1..Len(stack'[on]) /\ p # Len(stack'[on]) - 3
          /\ stack'[on][p] = Proved!No(32 + handler)
      BY <2>1, <2>2, <2>3
    <2>5. Proved!IntNo' = n
      <3>1. Len(stack'[on]) + 1 - 4 = Len(stack'[on]) - 3
        BY <2>2
      <3> QED
        BY <1>2, <2>2, <3>1, Proved!Depths, Proved!Different, SMTT(60)
           DEF Proved!IntNo, Proved!Field, Proved!Frame
    <2>6. cpu'.eip[1] = "handler"
      BY <1>1, Proved!Different DEF Proved!Enter, Proved!InKernel
    <2>7. Serving(p)'
      BY <1>1, <1>2, <1>5, <2>4, <2>5, <2>6 DEF Serving, Proved!HaltVectors
    <2>8. Frames(on)' = {p} /\ \A s \in Proved!Stacks : s # on => Frames(s)' = {}
      BY <1>2, <1>3, <1>5, <2>1, InService DEF Frames
    <2>9. handler' = handler
      BY DEF picVars
    <2>10. ASSUME NEW s \in Proved!Stacks
           PROVE  IF handler # P!None /\ s = on'
                  THEN \E q \in 1..Len(stack'[s]) :
                          /\ Frames(s)' = {q}
                          /\ stack'[s][q] = Proved!No(32 + handler)
                          /\ Serving(q)'
                  ELSE Frames(s)' = {}
      BY <1>2, <1>5, <2>4, <2>7, <2>8
    <2> QED
      BY <2>9, <2>10 DEF ServiceFrame, P!None, Proved!Stacks, Proved!No
  <1> QED
    BY <1>4, <1>5

(* An interrupt: the controllers and the stack are brought in step.        *)
LEMMA DeliverServed ==
    ASSUME HandlersComeBack, IInv, NEW irq \in Lines, Deliver(irq)
    PROVE  Service' /\ ServiceFrame' /\ Booting'
  <1>1. /\ boot = "run" /\ handler = P!None /\ isr' = isr \cup P!Path(irq) /\ handler' = irq
        /\ irr' = irr \ {irq} /\ UNCHANGED <<imr, done, boot>>
    BY DEF Deliver, P!Deliver
  <1>2. Proved!Enter(32 + irq)
    BY SameEntries DEF Deliver, Proved!Interrupt, P!Vector
  <1>3. 32 + irq \in IrqVectors /\ 32 + irq \in Proved!Vectors /\ irq \in {0, 1, 14}
    BY CanReturn
  <1>4. Proved!IInv /\ on' = on /\ on \in Proved!Stacks
    BY <1>2 DEF IInv, Proved!IInv, Proved!TypeOK, Proved!Enter
  <1>5. irq # P!None /\ ~done /\ isr = {}
    BY <1>1, <1>3 DEF IInv, Service, P!None, P!InServiceIsHandled
  <1>6. Service'
    <2>1. P!TypeOK'
      BY <1>1, <1>3 DEF IInv, Service, P!TypeOK, P!Path, P!Irqs, P!Slave, P!IRQ_CASCADE, P!None
    <2>2. P!InServiceIsHandled'
      BY <1>1, <1>5 DEF P!InServiceIsHandled, P!None, P!Path, P!Slave, P!IRQ_CASCADE
    <2> QED
      BY <1>1, <1>5, <2>1, <2>2 DEF Service, P!None
  <1>7. ASSUME NEW s \in Proved!Stacks
        PROVE  Frames(s)' = IF s = on THEN {Len(stack'[on]) - 3} ELSE {}
    <2> DEFINE V == 32..47
    <2>1. V = IrqVectors /\ 32 + irq \in V
      BY <1>3 DEF IrqVectors
    <2> HIDE DEF V
    <2>2. Proved!Frames(s, V)' = Proved!Frames(s, V)
            \cup (IF s = on /\ 32 + irq \in V THEN {Len(stack'[on]) - 3} ELSE {})
      BY <1>2, <1>3, <1>4, Proved!EnterFrames
    <2>3. Proved!Frames(s, V) = {}
      BY <1>1, <2>1 DEF IInv, ServiceFrame, Frames
    <2>4. Proved!Frames(s, IrqVectors)' = IF s = on THEN {Len(stack'[on]) - 3} ELSE {}
      BY <2>1, <2>2, <2>3
    <2> QED
      BY <2>4 DEF Frames, IrqVectors
  <1>8. ServiceFrame'
    <2> DEFINE b == Len(stack'[on])
    <2>1. Len(stack[on]) \in Nat
      BY <1>4 DEF Proved!IInv, Proved!TypeOK
    <2>2. /\ b \in Nat /\ b >= Len(stack[on]) + 8
          /\ stack'[on][b - 3] = Proved!No(32 + irq)
      BY <1>2, <1>3, <1>4, Proved!EnterFrames
    <2>3. b - 3 \in 1..b
      BY <2>1, <2>2, SMTT(60)
    <2>4. cpu'.eip[1] = "handler" /\ ~done'
      BY <1>1, <1>2, <1>5, Proved!Different DEF Proved!Enter, Proved!InKernel
    <2>5. PICK p \in 1..b : p = b - 3
      BY <2>3
    <2>6. Serving(p)'
      BY <1>4, <2>4, <2>5 DEF Serving
    <2>7. ASSUME NEW s \in Proved!Stacks
          PROVE  IF irq # P!None /\ s = on'
                 THEN \E q \in 1..Len(stack'[s]) :
                         /\ Frames(s)' = {q}
                         /\ stack'[s][q] = Proved!No(32 + irq)
                         /\ Serving(q)'
                 ELSE Frames(s)' = {}
      BY <1>4, <1>5, <1>7, <2>2, <2>5, <2>6
    <2> QED
      BY <1>1, <2>7 DEF ServiceFrame, P!None, Proved!Stacks, Proved!No
  <1> QED
    BY <1>1, <1>6, <1>8 DEF Booting

-----------------------------------------------------------------------------
(* Handlers *)

(* The C handler of an interrupt finds its own vector.                     *)
LEMMA BodyFindsVector ==
    ASSUME HandlersComeBack, IInv, IrqBody
    PROVE  /\ Proved!HandlerReturns /\ handler \in Lines /\ ~done
           /\ Proved!IntNo = 32 + handler /\ T!IntNo = 32 + handler
           /\ Frames(on) = {Len(stack[on]) - 3}
           /\ Len(stack[on]) - 3 \in 1..Len(stack[on])
           /\ stack[on][Len(stack[on]) - 3] = Proved!No(32 + handler)
  <1>1. Proved!HandlerReturns /\ T!IntNo = Proved!IntNo
    BY SameHandlers DEF IrqBody
  <1>2. handler # P!None /\ ~done
    BY DEF IrqBody, P!HandlerBody
  <1>3. handler \in Lines
    BY <1>2 DEF IInv, Service, P!TypeOK
  <1>4. PICK p \in 1..Len(stack[on]) :
                /\ Frames(on) = {p}
                /\ stack[on][p] = Proved!No(32 + handler)
                /\ Serving(p)
    BY <1>2, InService
  <1>5. Proved!IntNo \notin Proved!HaltVectors
    BY <1>1 DEF Proved!HandlerReturns
  <1>6. p = Len(stack[on]) - 3
    BY <1>2, <1>4, <1>5 DEF Serving
  <1>7. Len(stack[on]) \in Nat
    BY InService, <1>2 DEF IInv, Proved!IInv, Proved!TypeOK
  <1>8. Proved!IntNo = 32 + handler
    BY <1>4, <1>6, <1>7, NumberOfFrame
  <1> QED
    BY <1>1, <1>2, <1>3, <1>4, <1>6, <1>8

(* Its EOI ends what is in service on both controllers.                    *)
LEMMA EoiEndsService ==
    ASSUME HandlersComeBack, IInv, IrqBody
    PROVE  isr' = {}
  <1>1. handler \in {0, 1, 14} /\ handler \in P!EoiHandlers /\ T!IntNo = 32 + handler /\ ~done
    BY BodyFindsVector, CanReturn DEF HandlersComeBack
  <1>2. isr = P!Path(handler)
    BY <1>1 DEF IInv, Service, P!InServiceIsHandled, P!None
  <1>3. (32 + handler) - 32 = handler
    BY <1>1
  <1>4. P!HandlerBody(32 + handler)
    BY <1>1 DEF IrqBody
  <1>5. P!SendEoi(32 + handler)
    BY <1>1, <1>3, <1>4 DEF P!HandlerBody
  <1>6. isr' = isr \ (P!Ended(isr \ P!Slave) \cup P!Ended(isr \cap P!Slave))
    BY <1>1, <1>5 DEF P!SendEoi
  <1>7. \A l \in Int : P!Ended({l}) = {l}
    <2>1. ASSUME NEW l \in Int
          PROVE  P!Min({l}) = l
      BY DEF P!Min
    <2> QED
      BY <2>1 DEF P!Ended
  <1>8. P!Ended({}) = {}
    BY DEF P!Ended
  <1>9. CASE handler \in {0, 1}
    <2>1. isr \ P!Slave = {handler} /\ isr \cap P!Slave = {}
      BY <1>2, <1>9 DEF P!Path, P!Slave
    <2> QED
      BY <1>6, <1>7, <1>8, <1>9, <2>1
  <1>10. CASE handler = 14
    <2>1. isr \ P!Slave = {2} /\ isr \cap P!Slave = {14} /\ isr = {2, 14}
      BY <1>2, <1>10 DEF P!Path, P!Slave, P!IRQ_CASCADE
    <2> QED
      BY <1>6, <1>7, <2>1
  <1> QED
    BY <1>1, <1>9, <1>10

(* After the EOI trap_ret is to run, on the frame of the interrupt.        *)
LEMMA BodyServed ==
    ASSUME HandlersComeBack, IInv, IrqBody
    PROVE  Service' /\ ServiceFrame' /\ Booting'
  <1>1. /\ Proved!HandlerReturns /\ handler \in Lines /\ ~done
        /\ Frames(on) = {Len(stack[on]) - 3}
        /\ Len(stack[on]) - 3 \in 1..Len(stack[on])
        /\ stack[on][Len(stack[on]) - 3] = Proved!No(32 + handler)
    BY BodyFindsVector
  <1>2. /\ isr' = {} /\ done' = TRUE /\ UNCHANGED <<imr, irr, handler, boot>>
    BY EoiEndsService DEF IrqBody, P!HandlerBody
  <1>3. handler # P!None
    BY <1>1, CanReturn DEF P!None
  <1>4. /\ cpu' = [cpu EXCEPT !.eip = Proved!TrapRetCode] /\ on' = on /\ pc' = pc
        /\ cpu \in Proved!Registers /\ on \in Proved!Stacks /\ Proved!IInv
    BY <1>1 DEF Proved!HandlerReturns, Proved!Return, IInv, Proved!IInv, Proved!TypeOK
  <1>5. cpu'.eip = Proved!TrapRetCode
    BY <1>4 DEF Proved!Registers
  <1>6. Service'
    BY <1>2, <1>3 DEF IInv, Service, P!TypeOK, P!InServiceIsHandled, P!None
  <1>7. Booting'
    BY <1>2, <1>3 DEF IInv, Booting
  <1>8. ASSUME NEW s \in Proved!Stacks
        PROVE  /\ Frames(s)' = Frames(s) /\ Len(stack'[s]) = Len(stack[s])
               /\ \A i \in 1..Len(stack[s]) : \A k : stack'[s][i] = Proved!No(k)
                                                     <=> stack[s][i] = Proved!No(k)
    <2> DEFINE V == 32..47
    <2>1. V = IrqVectors
      BY DEF IrqVectors
    <2> HIDE DEF V
    <2>2. /\ Proved!Frames(s, V)' = Proved!Frames(s, V) /\ Len(stack'[s]) = Len(stack[s])
          /\ \A i \in 1..Len(stack[s]) : \A k : stack'[s][i] = Proved!No(k)
                                                <=> stack[s][i] = Proved!No(k)
      BY <1>1, <1>4, Proved!FramesOfReturn
    <2>3. Proved!Frames(s, IrqVectors)' = Proved!Frames(s, IrqVectors)
      BY <2>1, <2>2
    <2> QED
      BY <2>2, <2>3 DEF Frames, IrqVectors
  <1>9. PICK p \in 1..Len(stack'[on]) :
           p = Len(stack[on]) - 3 /\ p = Len(stack'[on]) - 3
           /\ stack'[on][p] = Proved!No(32 + handler)
    BY <1>1, <1>4, <1>8
  <1>10. Serving(p)'
    BY <1>2, <1>4, <1>5, <1>9 DEF Serving, Proved!TrapRetCode
  <1>11. Frames(on)' = {p}
    BY <1>1, <1>4, <1>8, <1>9 DEF Frames
  <1>12. \A s \in Proved!Stacks : s # on => Frames(s)' = {}
    BY <1>3, <1>8, InService
  <1>13. ASSUME NEW s \in Proved!Stacks
         PROVE  IF handler # P!None /\ s = on'
                THEN \E q \in 1..Len(stack'[s]) :
                        /\ Frames(s)' = {q}
                        /\ stack'[s][q] = Proved!No(32 + handler)
                        /\ Serving(q)'
                ELSE Frames(s)' = {}
    BY <1>3, <1>4, <1>9, <1>10, <1>11, <1>12
  <1> QED
    BY <1>2, <1>6, <1>7, <1>13 DEF ServiceFrame, P!None, Proved!Stacks, Proved!No

(* trap_ret removes it.                                                    *)
LEMMA IrqReturnServed ==
    ASSUME HandlersComeBack, IInv, IrqReturn
    PROVE  Service' /\ ServiceFrame' /\ Booting'
  <1>1. /\ Proved!TrapRet /\ done /\ done' = FALSE /\ handler' = P!None
        /\ UNCHANGED <<imr, irr, isr, boot>>
    BY SameReturn DEF IrqReturn, P!HandlerIret
  <1>2. handler # P!None
    BY <1>1 DEF IInv, Service
  <1>3. cpu.eip = Proved!TrapRetCode /\ Proved!IInv /\ on \in Proved!Stacks /\ on' = on
    BY <1>1 DEF IInv, Proved!IInv, Proved!TypeOK, Proved!TrapRet, Proved!AtTrapRet
  <1>4. boot = "run"
    BY <1>2 DEF IInv, Booting
  <1>5. Service'
    BY <1>1 DEF IInv, Service, P!TypeOK, P!InServiceIsHandled, P!None
  <1>6. PICK p \in 1..Len(stack[on]) : Frames(on) = {p} /\ Serving(p)
    BY <1>2, InService
  <1>7. p = Len(stack[on]) - 3
    BY <1>3, <1>6, Proved!Different DEF Serving
  <1>8. ASSUME NEW s \in Proved!Stacks
        PROVE  Frames(s)' = {}
    <2> DEFINE V == 32..47
    <2>1. V = IrqVectors
      BY DEF IrqVectors
    <2> HIDE DEF V
    <2>2. /\ Proved!Frames(s, V)' \subseteq Proved!Frames(s, V)
          /\ s = on => Len(stack[s]) - 3 \notin Proved!Frames(s, V)'
      BY <1>1, <1>3, CanReturn, Proved!FramesOfTrapRet
    <2>3. s # on => Proved!Frames(s, V) = {}
      BY <1>2, <2>1, InService DEF Frames
    <2>4. s = on => Proved!Frames(s, V) = {p}
      BY <1>6, <2>1 DEF Frames
    <2>5. Proved!Frames(s, V)' = {}
      BY <1>7, <2>2, <2>3, <2>4
    <2>6. Proved!Frames(s, IrqVectors)' = {}
      BY <2>1, <2>5
    <2> QED
      BY <2>6 DEF Frames, IrqVectors
  <1> QED
    BY <1>1, <1>4, <1>5, <1>8 DEF ServiceFrame, Booting, P!None, Proved!Stacks

(* trap_ret after any other handler: no interrupt is in progress.          *)
LEMMA OtherReturnServed ==
    ASSUME HandlersComeBack, IInv, OtherReturn
    PROVE  Service' /\ ServiceFrame' /\ Booting'
  <1>1. Proved!TrapRet /\ ~done /\ UNCHANGED picVars
    BY SameReturn DEF OtherReturn
  <1>2. cpu.eip = Proved!TrapRetCode /\ Proved!IInv
    BY <1>1 DEF IInv, Proved!TrapRet, Proved!AtTrapRet
  <1>3. handler = P!None
    <2>1. \A p : ~Serving(p)
      BY <1>1, <1>2, Proved!Different DEF Serving
    <2> QED
      BY <2>1, InService
  <1>4. ASSUME NEW s \in Proved!Stacks
        PROVE  Frames(s)' \subseteq Frames(s)
    <2> DEFINE V == 32..47
    <2>1. V = IrqVectors
      BY DEF IrqVectors
    <2> HIDE DEF V
    <2>2. Proved!Frames(s, V)' \subseteq Proved!Frames(s, V)
      BY <1>1, <1>2, CanReturn, Proved!FramesOfTrapRet
    <2>3. Proved!Frames(s, IrqVectors)' \subseteq Proved!Frames(s, IrqVectors)
      BY <2>1, <2>2
    <2> QED
      BY <2>3 DEF Frames, IrqVectors
  <1>5. ServiceFrame'
    BY <1>1, <1>3, <1>4, NothingToServe DEF picVars
  <1>6. Service'
    BY <1>1 DEF IInv, Service, picVars, P!TypeOK, P!InServiceIsHandled, P!Path, P!None
  <1>7. Booting'
    <2>1. boot # "run" => cpu.eip = Proved!Sched
      BY DEF IInv, Booting
    <2>2. boot = "run"
      BY <1>2, <2>1, Proved!Different
    <2> QED
      BY <1>1, <2>2 DEF Booting, picVars
  <1> QED
    BY <1>5, <1>6, <1>7

(* The other handlers: none of them runs on top of an interrupt, but for   *)
(* those that halt.                                                        *)
LEMMA HandlersServed ==
    ASSUME HandlersComeBack, IInv, Handlers, UNCHANGED picVars
    PROVE  ServiceFrame'
  <1>1. CASE T!HandlerHalts \/ T!SyscallExit
    <2>1. UNCHANGED <<cpu, on, stack, saved>>
      BY <1>1, SameHandlers DEF Proved!HandlerHalts, Proved!SyscallExit
    <2> QED
      BY <2>1, StacksStay DEF picVars
  <1>2. CASE \/ T!DivideError \/ T!SyscallResult
             \/ (T!HandlerReturns /\ T!IntNo \notin IrqVectors)
    <2>1. /\ Proved!DivideError \/ Proved!SyscallResult \/ Proved!HandlerReturns
          /\ Proved!IntNo \notin IrqVectors /\ Proved!IntNo \notin Proved!HaltVectors
          /\ Proved!InHandler
      BY <1>2, SameHandlers DEF Proved!DivideError, Proved!SyscallResult,
         Proved!HandlerReturns, Proved!HaltVectors, IrqVectors
    <2>2. handler = P!None
      <3>1. SUFFICES ASSUME handler # P!None
                     PROVE  FALSE
        OBVIOUS
      <3>2. PICK p \in 1..Len(stack[on]) :
                /\ stack[on][p] = Proved!No(32 + handler)
                /\ Serving(p)
        BY <3>1, InService
      <3>3. Len(stack[on]) \in Nat /\ handler \in Lines
        BY <3>1, InService DEF IInv, Service, P!TypeOK, Proved!IInv, Proved!TypeOK
      <3>4. cpu.eip # Proved!TrapRetCode
        BY <2>1, Proved!Different DEF Proved!InHandler
      <3>5. p = Len(stack[on]) - 3
        BY <2>1, <3>2, <3>4 DEF Serving
      <3>6. Proved!IntNo = 32 + handler
        BY <3>2, <3>3, <3>5, NumberOfFrame
      <3> QED
        BY <2>1, <3>3, <3>6, CanReturn
    <2>3. ASSUME NEW s \in Proved!Stacks
          PROVE  Frames(s)' \subseteq Frames(s)
      <3> DEFINE V == 32..47
      <3>1. V = IrqVectors
        BY DEF IrqVectors
      <3> HIDE DEF V
      <3>2. Proved!Frames(s, V)' = Proved!Frames(s, V)
        BY <2>1, Proved!FramesOfReturn DEF IInv
      <3>3. Proved!Frames(s, IrqVectors)' = Proved!Frames(s, IrqVectors)
        BY <3>1, <3>2
      <3> QED
        BY <3>3 DEF Frames, IrqVectors
    <2> QED
      BY <2>2, <2>3, NothingToServe DEF picVars
  <1> QED
    BY <1>1, <1>2 DEF Handlers, IrqVectors

(* Threads and switches: none of them runs while an interrupt is handled,  *)
(* so none leaves its frame on another stack.                              *)
LEMMA ThreadsServed ==
    ASSUME HandlersComeBack, IInv, Threads \/ Switches, UNCHANGED picVars
    PROVE  ServiceFrame'
  <1>1. \/ Proved!UserRuns \/ Proved!SchedSetIF \/ Proved!ForkRetRelease
        \/ Proved!ForkRetReturn \/ Proved!SchedSwitch \/ Proved!SyscallSwitch
    BY SameThreads, SameSwitches DEF Threads, Switches
  <1>2. CASE Proved!UserRuns \/ Proved!SchedSetIF \/ Proved!ForkRetRelease
    <2>1. \/ cpu.cs = Proved!UserCS
          \/ cpu.eip \in {Proved!Sched, Proved!ForkRet}
      BY <1>2 DEF Proved!UserRuns, Proved!SchedSetIF, Proved!ForkRetRelease
    <2>2. UNCHANGED <<on, stack>>
      BY <1>2 DEF Proved!UserRuns, Proved!SchedSetIF, Proved!ForkRetRelease
    <2> QED
      BY <2>1, <2>2, InService, StacksStay DEF picVars
  <1>3. CASE Proved!ForkRetReturn
    <2>1. cpu.eip = <<"fork_ret", 1>>
      BY <1>3 DEF Proved!ForkRetReturn
    <2>2. ASSUME NEW s \in Proved!Stacks
          PROVE  Frames(s)' \subseteq Frames(s)
      <3> DEFINE V == 32..47
      <3>1. V = IrqVectors
        BY DEF IrqVectors
      <3> HIDE DEF V
      <3>2. Proved!Frames(s, V)' \subseteq Proved!Frames(s, V)
        BY <1>3, Proved!FramesOfForkRet DEF IInv
      <3>3. Proved!Frames(s, IrqVectors)' \subseteq Proved!Frames(s, IrqVectors)
        BY <3>1, <3>2
      <3> QED
        BY <3>3 DEF Frames, IrqVectors
    <2> QED
      BY <2>1, <2>2, InService, NothingToServe DEF picVars
  <1>4. CASE Proved!SchedSwitch \/ Proved!SyscallSwitch
    <2>1. cpu.eip = Proved!Sched \/ (Proved!InHandler /\ Proved!IntNo = 128)
      BY <1>4 DEF Proved!SchedSwitch, Proved!SyscallSwitch
    <2>2. handler = P!None
      <3>1. SUFFICES ASSUME handler # P!None
                     PROVE  FALSE
        OBVIOUS
      <3>2. PICK p \in 1..Len(stack[on]) :
                /\ stack[on][p] = Proved!No(32 + handler)
                /\ Serving(p)
        BY <3>1, InService
      <3>3. Len(stack[on]) \in Nat /\ handler \in Lines
        BY <3>1, InService DEF IInv, Service, P!TypeOK, Proved!IInv, Proved!TypeOK
      <3>4. Proved!InHandler /\ Proved!IntNo = 128
        BY <2>1, <3>1, InService
      <3>5. cpu.eip # Proved!TrapRetCode /\ 128 \notin Proved!HaltVectors
        BY <3>4, Proved!Different DEF Proved!InHandler, Proved!HaltVectors
      <3>6. p = Len(stack[on]) - 3
        BY <3>2, <3>4, <3>5 DEF Serving
      <3>7. Proved!IntNo = 32 + handler
        BY <3>2, <3>3, <3>6, NumberOfFrame
      <3> QED
        BY <3>3, <3>4, <3>7, CanReturn
    <2>3. ASSUME NEW s \in Proved!Stacks
          PROVE  Frames(s)' \subseteq Frames(s)
      <3> DEFINE V == 32..47
      <3>1. V = IrqVectors
        BY DEF IrqVectors
      <3> HIDE DEF V
      <3>2. Proved!Frames(s, V)' \subseteq Proved!Frames(s, V)
        BY <1>4, CanReturn, Proved!FramesOfSwitch DEF IInv
      <3>3. Proved!Frames(s, IrqVectors)' \subseteq Proved!Frames(s, IrqVectors)
        BY <3>1, <3>2
      <3> QED
        BY <3>3 DEF Frames, IrqVectors
    <2> QED
      BY <2>2, <2>3, NothingToServe DEF picVars
  <1> QED
    BY <1>1, <1>2, <1>3, <1>4

-----------------------------------------------------------------------------
(* The boot, and devices and drivers *)

(* No frame is pushed, and no interrupt is in progress before the sti.     *)
LEMMA BootServed ==
    ASSUME HandlersComeBack, IInv, Boot \/ MainSti \/ Devices
    PROVE  Service' /\ ServiceFrame' /\ Booting'
  <1>1. UNCHANGED <<on, stack, pc>>
    BY DEF Boot, MainSti, Devices, trapVars
  <1>2. CASE Boot
    <2>1. /\ UNCHANGED trapVars /\ boot # "run" /\ boot' # "run" /\ UNCHANGED <<handler, done>>
          /\ isr' = isr \/ isr' = {}
          /\ imr' \subseteq P!Irqs /\ (irr' = irr \/ irr' = {})
          /\ boot' \in {"keyboard", "ide", "sti", "panic"}
      BY <1>2 DEF Boot, P!InitPic, P!InitKeyboard, P!InitIde, P!InitIdeFails, P!EnableIrq,
         IInv, Service, P!TypeOK
    <2>2. handler = P!None /\ Booting'
      BY <2>1 DEF IInv, Booting, trapVars, P!None, Proved!Sched
    <2>3. Service'
      BY <2>1, <2>2 DEF IInv, Service, P!TypeOK, P!InServiceIsHandled, P!Irqs, P!None, P!Path
    <2> QED
      BY <1>1, <2>1, <2>2, <2>3, StacksStay
  <1>3. CASE MainSti
    <2>1. /\ boot = "sti" /\ boot' = "run" /\ UNCHANGED <<imr, irr, isr, handler, done>>
      BY <1>3 DEF MainSti, P!MainSti
    <2>2. handler = P!None /\ Booting'
      BY <2>1 DEF IInv, Booting
    <2>3. Service'
      BY <2>1, <2>2 DEF IInv, Service, P!TypeOK, P!InServiceIsHandled, P!Irqs, P!None, P!Path
    <2> QED
      BY <1>1, <2>1, <2>2, <2>3, StacksStay
  <1>4. CASE Devices
    <2>1. /\ UNCHANGED trapVars /\ UNCHANGED <<isr, handler, done, boot>>
          /\ imr' \subseteq P!Irqs /\ irr' \subseteq Lines
      BY <1>4, LinesAssumption DEF Devices, P!Raise, P!ClientEnables, P!ClientDisables,
         P!EnableIrq, P!DisableIrq, IInv, Service, P!TypeOK
    <2>2. Service'
      BY <2>1 DEF IInv, Service, P!TypeOK, P!InServiceIsHandled, P!None, P!Path
    <2>3. Booting'
      BY <2>1 DEF IInv, Booting, trapVars, P!None, Proved!Sched
    <2> QED
      BY <1>1, <2>1, <2>2, <2>3, StacksStay DEF trapVars
  <1> QED
    BY <1>2, <1>3, <1>4

-----------------------------------------------------------------------------
(* Every step *)

(* What the machine does is, seen without the controllers, what Trap does. *)
LEMMA StepOfTrap ==
    ASSUME IInv, [Next]_vars
    PROVE  [Proved!Next]_trapVars
  <1>1. CASE Boot \/ Devices \/ UNCHANGED vars
    BY <1>1 DEF Boot, Devices, vars, trapVars
  <1>2. CASE MainSti
    <2>1. cpu.eip = Proved!Sched /\ pc = "code"
      BY <1>2 DEF IInv, Booting, MainSti
    <2>2. cpu' = [cpu EXCEPT !.eflags = Proved!Flags(1)] /\ UNCHANGED <<on, stack, saved, pc>>
      BY <1>2, SameRegisters DEF MainSti
    <2> QED
      BY <2>1, <2>2 DEF Proved!Next, Proved!SchedSetIF
  <1>3. CASE \E irq \in Lines : Deliver(irq)
    BY <1>3, SameEntries DEF Deliver, P!Vector, Proved!Next
  <1>4. CASE IrqBody
    BY <1>4, SameHandlers DEF IrqBody, Proved!Next
  <1>5. CASE IrqReturn \/ OtherReturn
    BY <1>5, SameReturn DEF IrqReturn, OtherReturn, Proved!Next
  <1>6. CASE Rest
    <2>1. CASE Exceptions
      BY <2>1, SameEntries DEF Exceptions, Proved!Next
    <2>2. CASE Handlers
      BY <2>2, SameHandlers DEF Handlers, Proved!Next
    <2>3. CASE Threads
      BY <2>3, SameThreads DEF Threads, Proved!Next
    <2>4. CASE Switches
      BY <2>4, SameSwitches DEF Switches, Proved!Next
    <2> QED
      BY <1>6, <2>1, <2>2, <2>3, <2>4 DEF Rest
  <1> QED
    BY <1>1, <1>2, <1>3, <1>4, <1>5, <1>6 DEF Next

(* No step breaks the invariant, and each return is one of Trap.           *)
LEMMA NextIInv ==
    ASSUME HandlersComeBack, IInv, [Next]_vars
    PROVE  IInv' /\ Proved!Resumes
  <1>1. Proved!IInv' /\ Proved!Resumes
    BY StepOfTrap, TrapGoesOn DEF IInv
  <1>2. CASE Boot \/ MainSti \/ Devices
    BY <1>1, <1>2, BootServed DEF IInv
  <1>3. CASE \E irq \in Lines : Deliver(irq)
    BY <1>1, <1>3, DeliverServed DEF IInv
  <1>4. CASE IrqBody
    BY <1>1, <1>4, BodyServed DEF IInv
  <1>5. CASE IrqReturn
    BY <1>1, <1>5, IrqReturnServed DEF IInv
  <1>6. CASE OtherReturn
    BY <1>1, <1>6, OtherReturnServed DEF IInv
  <1>7. CASE Rest
    <2>1. boot = "run" /\ UNCHANGED picVars
      BY <1>7 DEF Rest
    <2>2. Booting'
      BY <2>1 DEF Booting, picVars
    <2>3. Service'
      BY <2>1 DEF IInv, Service, picVars, P!TypeOK, P!InServiceIsHandled, P!Path, P!None
    <2>4. ServiceFrame'
      BY <1>7, <2>1, ExceptionServed, HandlersServed, ThreadsServed DEF Rest
    <2> QED
      BY <1>1, <2>2, <2>3, <2>4 DEF IInv
  <1>8. CASE UNCHANGED vars
    <2>1. UNCHANGED <<on, stack, handler, done, cpu, pc, imr, irr, isr, boot>>
      BY <1>8 DEF vars
    <2>2. Booting'
      BY <2>1 DEF IInv, Booting, Proved!Sched, P!None
    <2>3. Service'
      BY <2>1 DEF IInv, Service, P!TypeOK, P!InServiceIsHandled, P!Path, P!None
    <2> QED
      BY <1>1, <2>1, <2>2, <2>3, StacksStay DEF IInv
  <1> QED
    BY <1>2, <1>3, <1>4, <1>5, <1>6, <1>7, <1>8 DEF Next

(* The machine starts with nothing in service and empty stacks of frames.  *)
LEMMA InitIInv ==
    ASSUME HandlersComeBack, Init
    PROVE  IInv
  <1>1. Proved!Init
    BY SameInit DEF Init
  <1>2. Proved!IInv
    BY <1>1, CanReturn, Proved!InitIInv
  <1>3. cpu.eip = Proved!Sched /\ pc = "code" /\ handler = P!None
    BY <1>1 DEF Proved!Init, Proved!InKernel, Init, P!Init
  <1>4. Service
    BY LinesAssumption DEF Init, P!Init, Service, P!TypeOK, P!InServiceIsHandled
  <1>5. \A s \in Proved!Stacks : Frames(s) = {}
    BY <1>1, Proved!FramesAtFirst DEF Frames
  <1> QED
    BY <1>2, <1>3, <1>4, <1>5 DEF IInv, Booting, ServiceFrame

-----------------------------------------------------------------------------
(* Theorems *)

(* The controllers and the stacks stay in step, however interrupts, traps, *)
(* system calls and switches are interleaved.                              *)
THEOREM InStep ==
    ASSUME HandlersComeBack
    PROVE  Spec => []IInv
  <1>1. Init => IInv
    BY InitIInv
  <1>2. IInv /\ [Next]_vars => IInv'
    BY NextIInv
  <1> QED
    BY <1>1, <1>2, PTL DEF Spec

(* The machine implements Trap: the controllers only decide when an        *)
(* interrupt of an open line comes.                                        *)
THEOREM MachineIsTrap ==
    ASSUME HandlersComeBack
    PROVE  Spec => T!Spec
  <1>1. Init => T!Init
    BY DEF Init
  <1>2. IInv /\ [Next]_vars => [T!Next]_(T!vars)
    <2>1. IInv /\ [Next]_vars => [Proved!Next]_trapVars
      BY StepOfTrap
    <2>2. T!Next <=> Proved!Next
      BY SameEntries, SameHandlers, SameThreads, SameSwitches, SameReturn
         DEF T!Next, Proved!Next, T!Stopped, Proved!Stopped, T!vars, Proved!vars
    <2> QED
      BY <2>1, <2>2 DEF trapVars, T!vars
  <1> QED
    BY <1>1, <1>2, InStep, PTL DEF Spec, T!Spec

(* The variables of both keep their types.                                 *)
THEOREM TypesCorrect ==
    ASSUME HandlersComeBack
    PROVE  Spec => []TypesOK
  <1>1. IInv => TypesOK
    BY SameProperties DEF IInv, Proved!IInv, Service, TypesOK
  <1> QED
    BY <1>1, InStep, PTL

(* Each EOI ends its own interrupt on both controllers, and nothing else,  *)
(* and no switch leaves an interrupt behind on another stack.              *)
THEOREM ServiceIsOnStack ==
    ASSUME HandlersComeBack
    PROVE  Spec => []ServiceMatchesStack
  <1>1. ASSUME IInv, NEW s \in T!Stacks
        PROVE  {w \in Range(stack[s]) : w[1] = "no" /\ w[2] \in 32..47}
               = IF handler # P!None /\ s = on THEN {T!No(P!Vector(handler))} ELSE {}
    <2>1. s \in Proved!Stacks /\ stack[s] \in Seq(Proved!Words)
      BY <1>1, SameRegisters DEF IInv, Proved!IInv, Proved!TypeOK
    <2> DEFINE words == {w \in Range(stack[s]) : w[1] = "no" /\ w[2] \in 32..47}
    <2>2. \A i \in 1..Len(stack[s]) : (stack[s][i][1] = "no" /\ stack[s][i][2] \in 32..47)
                                      <=> i \in Frames(s)
      <3>1. ASSUME NEW w \in Proved!Words, w[1] = "no"
            PROVE  w = Proved!No(w[2])
        BY <3>1 DEF Proved!Words, Proved!UserCS, Proved!KernelCS, Proved!UserDS,
           Proved!KernelDS, Proved!UserEsp, Proved!Flags, Proved!Data, Proved!Zero,
           Proved!Count, Proved!MinusOne, Proved!Regs, Proved!Call, Proved!No, Proved!Err,
           Proved!Eips, Proved!User, Proved!Skip, Proved!Sched, Proved!ForkRet,
           Proved!TrapRetCode
      <3>2. \A n : Proved!No(n)[1] = "no" /\ Proved!No(n)[2] = n
        BY DEF Proved!No
      <3>3. \A i : i \in Frames(s) <=> i \in 1..Len(stack[s])
                                     /\ \E n \in 32..47 : stack[s][i] = Proved!No(n)
        BY DEF Frames, Proved!Frames, IrqVectors
      <3>4. ASSUME NEW i \in 1..Len(stack[s])
            PROVE  (stack[s][i][1] = "no" /\ stack[s][i][2] \in 32..47) <=> i \in Frames(s)
        <4>1. PICK w \in Proved!Words : w = stack[s][i]
          BY <2>1
        <4>2. ASSUME w[1] = "no", w[2] \in 32..47
              PROVE  i \in Frames(s)
          BY <3>1, <3>3, <4>1, <4>2
        <4>3. ASSUME i \in Frames(s)
              PROVE  w[1] = "no" /\ w[2] \in 32..47
          <5>1. PICK n \in 32..47 : w = Proved!No(n)
            BY <3>3, <4>1, <4>3
          <5> QED
            BY <3>2, <5>1
        <4> QED
          BY <4>1, <4>2, <4>3
      <3> QED
        BY <3>4
    <2>3. words = {stack[s][i] : i \in Frames(s)}
      <3>1. Frames(s) \subseteq 1..Len(stack[s])
        BY DEF Frames, Proved!Frames
      <3> QED
        BY <2>2, <3>1 DEF Range
    <2>4. CASE handler # P!None /\ s = on
      <3>1. PICK p \in 1..Len(stack[on]) :
                /\ Frames(on) = {p}
                /\ stack[on][p] = Proved!No(32 + handler)
        BY <1>1, <2>4, InService
      <3>2. words = {Proved!No(32 + handler)}
        BY <2>3, <2>4, <3>1
      <3> QED
        BY <2>4, <3>2, SameRegisters DEF P!Vector
    <2>5. CASE ~(handler # P!None /\ s = on)
      <3>1. Frames(s) = {}
        BY <1>1, <2>1, <2>5 DEF IInv, ServiceFrame
      <3> QED
        BY <2>3, <2>5, <3>1
    <2> QED
      BY <2>4, <2>5
  <1>2. IInv => ServiceMatchesStack
    BY <1>1 DEF IInv, Service, ServiceMatchesStack
  <1> QED
    BY <1>2, InStep, PTL

(* Whatever interrupts whatever, no word is left behind on a stack.        *)
THEOREM StacksUnwound ==
    ASSUME HandlersComeBack
    PROVE  Spec => []StackUnwound
  <1>1. IInv => StackUnwound
    BY Proved!NoWordLeft, SameProperties DEF IInv, StackUnwound
  <1> QED
    BY <1>1, InStep, PTL

(* The handlers see the registers of who was interrupted in the frame.     *)
THEOREM FramesNameInterrupted ==
    ASSUME HandlersComeBack
    PROVE  Spec => []FrameNamesInterrupted
  <1>1. IInv => FrameNamesInterrupted
    BY Proved!FieldsNameInterrupted, SameProperties DEF IInv, FrameNamesInterrupted
  <1> QED
    BY <1>1, InStep, PTL

(* Every return continues what was interrupted or switched away from.      *)
THEOREM ResumesWhatWasInterrupted ==
    ASSUME HandlersComeBack
    PROVE  Spec => ResumesInterrupted
  <1>1. IInv /\ [Next]_vars =>
          [Len(saved'[on']) < Len(saved[on']) => cpu' \in T!Resumed /\ pc' = "code"]_(T!vars)
    <2>1. SUFFICES ASSUME IInv, [Next]_vars, Len(saved'[on']) < Len(saved[on'])
                   PROVE  cpu' \in T!Resumed /\ pc' = "code"
      OBVIOUS
    <2>2. cpu' \in Proved!Resumed /\ pc' = "code"
      BY <2>1, NextIInv DEF Proved!Resumes
    <2> QED
      BY <2>2, SameProperties
  <1> QED
    BY <1>1, InStep, PTL DEF Spec, ResumesInterrupted, T!ResumesInterrupted
=============================================================================
