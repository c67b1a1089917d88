----------------------------- MODULE Interrupts -----------------------------
(***************************************************************************)
(* The controllers of Pic and the stacks of Trap on one machine: a line    *)
(* that the controllers offer is taken between two instructions if IF is   *)
(* on, its handler finds the vector in the frame and sends the EOI, and    *)
(* IF comes back with the eflags that trap_ret pops.  IF is not a variable *)
(* of its own here: Pic is instantiated with that of the CPU's eflags.     *)
(*                                                                         *)
(* kernel_main programs the controllers on the stack that becomes that of  *)
(* the scheduler; until its sti it is code with interrupts off.            *)
(***************************************************************************)
EXTENDS Integers, Sequences

CONSTANTS Lines,        \* as in Pic
          Clients,
          UserFaults,   \* as in Trap
          UserInts,
          KernelFaults,
          MaxDepth

VARIABLES imr, irr, isr, handler, done, boot,   \* of Pic
          cpu, on, stack, saved, pc             \* of Trap

picVars  == <<imr, irr, isr, handler, done, boot>>
trapVars == <<cpu, on, stack, saved, pc>>
vars     == <<imr, irr, isr, handler, done, boot, cpu, on, stack, saved, pc>>

T == INSTANCE Trap WITH OpenVectors <- {32 + irq : irq \in Lines}
P == INSTANCE Pic WITH iflag <- (cpu.eflags = T!Flags(1))

ASSUME LinesAssumption ==
    /\ Lines \cup Clients \subseteq P!Irqs
    /\ P!IRQ_CASCADE \notin Lines

ASSUME VectorsAssumption ==
    /\ UserFaults \cup KernelFaults \subseteq 0..31
    /\ UserInts \subseteq 0..255
    /\ MaxDepth \in Nat /\ MaxDepth >= 3

Init == T!Init /\ P!Init

-----------------------------------------------------------------------------
(* kernel_main *)

Boot ==
    /\ UNCHANGED trapVars
    /\ P!InitPic \/ P!InitKeyboard \/ P!InitIde \/ P!InitIdeFails

(* sti *)
MainSti ==
    /\ boot = "sti"
    /\ cpu' = [cpu EXCEPT !.eflags = T!Flags(1)]
    /\ UNCHANGED <<on, stack, saved, pc>>
    /\ P!MainSti

-----------------------------------------------------------------------------
(* Devices, and drivers that switch lines on and off *)

Devices ==
    /\ UNCHANGED trapVars
    /\ (\E irq \in Lines : P!Raise(irq)) \/ P!ClientEnables \/ P!ClientDisables

-----------------------------------------------------------------------------
(* Interrupts *)

Deliver(irq) ==
    /\ boot = "run"
    /\ T!Interrupt(P!Vector(irq))
    /\ P!Deliver(irq)

(* The C handler, which isr_handler calls with the frame. *)
IrqBody ==
    /\ T!HandlerReturns
    /\ T!IntNo \in 32..47
    /\ P!HandlerBody(T!IntNo)

(* trap_ret pops the frame of an interrupt, after its handler ... *)
IrqReturn ==
    /\ T!TrapRet
    /\ P!HandlerIret

(* ... or another one; IF is then whatever that frame says. *)
OtherReturn ==
    /\ T!TrapRet
    /\ ~done
    /\ UNCHANGED picVars

-----------------------------------------------------------------------------
(* Everything else the CPU does *)

Exceptions ==
    \/ \E n \in UserFaults : T!UserFault(n)
    \/ \E n \in UserInts : T!UserInt(n)
    \/ \E n \in KernelFaults : T!KernelFault(n)

Handlers ==
    \/ T!HandlerHalts \/ T!DivideError \/ T!SyscallResult \/ T!SyscallExit
    \/ T!HandlerReturns /\ T!IntNo \notin 32..47

Threads == T!UserRuns \/ T!SchedSetIF \/ T!ForkRetRelease \/ T!ForkRetReturn

Switches == T!SchedSwitch \/ T!SyscallSwitch

Rest ==
    /\ boot = "run"
    /\ Exceptions \/ Handlers \/ Threads \/ Switches
    /\ UNCHANGED picVars

Next ==
    \/ Boot \/ MainSti
    \/ Devices
    \/ \E irq \in Lines : Deliver(irq)
    \/ IrqBody \/ IrqReturn \/ OtherReturn
    \/ Rest

Spec == Init /\ [][Next]_vars

(* Boot and handlers are straight-line code, and the CPU takes an interrupt *)
(* that it is offered again and again.  Devices, masks, programs and the    *)
(* scheduler are free.                                                      *)
FairSpec ==
    /\ Spec
    /\ WF_vars(Boot) /\ WF_vars(MainSti)
    /\ WF_vars(IrqBody) /\ WF_vars(IrqReturn)
    /\ \A irq \in Lines : SF_vars(Deliver(irq))

-----------------------------------------------------------------------------
(* Properties *)

(* Types of the variables of both. *)
TypesOK == T!TypeOK /\ P!TypeOK

Range(s) == {s[k] : k \in 1..Len(s)}

(* The controllers hold as in service exactly what the CPU is handling, on *)
(* both of them, and that interrupt is the only one with a frame on a      *)
(* stack: each EOI ends its own interrupt and nothing else, though it      *)
(* names the vector and not the line, and no switch leaves an interrupt    *)
(* behind on the stack of another thread.                                  *)
ServiceMatchesStack ==
    /\ P!InServiceIsHandled
    /\ \A s \in T!Stacks :
          {w \in Range(stack[s]) : w[1] = "no" /\ w[2] \in 32..47}
          = IF handler # P!None /\ s = on THEN {T!No(P!Vector(handler))} ELSE {}

(* A request on an open line is handled, if there are times again and      *)
(* again at which interrupts are on and nothing of a higher priority       *)
(* waits: no handler leaves the controllers blocked for the lines after    *)
(* it, and every handler comes back with interrupts on.                    *)
OpenLineServed == P!OpenLineServed

(* As in Trap. *)
StackUnwound          == T!StackUnwound
FrameNamesInterrupted == T!FrameNamesInterrupted
ResumesInterrupted    == T!ResumesInterrupted
=============================================================================
