------------------------------ MODULE LockSpec ------------------------------
(***************************************************************************)
(* What spinlock.c promises on one CPU: acquire and release happen at one  *)
(* instant, nobody meets a lock that is taken, and an interrupt handler    *)
(* comes only when interrupts are on.  Process.tla is written against this *)
(* specification; Spinlock.tla implements it.                              *)
(***************************************************************************)
EXTENDS Cpu, FiniteSets

CONSTANTS Locks,
          Base, Irq     \* the interrupted thread and the handler on its stack

VARIABLES
    cpu,        \* IF, ncli, intena
    held,       \* locks each of the two has acquired
    handler     \* TRUE while a handler runs

specVars == <<cpu, held, handler>>

Threads == {Base, Irq}
Runs(t) == (t = Irq) <=> handler

Init ==
    /\ cpu \in {[CpuInit EXCEPT !.if = b] : b \in BOOLEAN}
    /\ held = [t \in Threads |-> {}]
    /\ handler = FALSE

Acquire(t, l) ==
    /\ Runs(t)
    /\ l \notin held[Base] \cup held[Irq]
    /\ cpu' = PushCli(cpu)
    /\ held' = [held EXCEPT ![t] = @ \cup {l}]
    /\ UNCHANGED handler

Release(t, l) ==
    /\ Runs(t)
    /\ l \in held[t]
    /\ PopCliFault(cpu) = ""
    /\ cpu' = PopCli(cpu)
    /\ held' = [held EXCEPT ![t] = @ \ {l}]
    /\ UNCHANGED handler

(* sti, cli, iret or a system call: only where no lock is held. *)
SetIF ==
    /\ ~handler
    /\ held[Base] = {}
    /\ cpu' \in {Sti(cpu), Cli(cpu)}
    /\ UNCHANGED <<held, handler>>

Interrupt ==
    /\ ~handler
    /\ cpu.if
    /\ handler' = TRUE
    /\ cpu' = Cli(cpu)
    /\ UNCHANGED held

InterruptReturn ==
    /\ handler
    /\ held[Irq] = {}
    /\ handler' = FALSE
    /\ cpu' = Sti(cpu)
    /\ UNCHANGED held

Next ==
    \/ \E t \in Threads, l \in Locks : Acquire(t, l) \/ Release(t, l)
    \/ SetIF \/ Interrupt \/ InterruptReturn

Spec == Init /\ [][Next]_specVars
=============================================================================
