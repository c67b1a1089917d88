-------------------------------- MODULE Cpu --------------------------------
(***************************************************************************)
(* The interrupt bookkeeping of one CPU: the fields ncli and intena of     *)
(* struct cpu together with the IF bit of EFLAGS, and what pushcli and     *)
(* popcli do to them when nothing can run in between.  Spinlock.tla shows  *)
(* that treating the two calls as one step each is justified.              *)
(***************************************************************************)
EXTENDS Integers

(* c.if: EFLAGS.IF; c.ncli: depth of pushcli; c.intena: IF before the first. *)
CpuState == [if : BOOLEAN, ncli : Int, intena : BOOLEAN]

(* After a reset: interrupts off, both fields zero (cpus[] is in .bss). *)
CpuInit == [if |-> FALSE, ncli |-> 0, intena |-> FALSE]

Cli(c) == [c EXCEPT !.if = FALSE]
Sti(c) == [c EXCEPT !.if = TRUE]

(* Seeded fault: pushcli counts but does not disable interrupts. *)
PushCliNoCli(c) == [if     |-> c.if,
                    ncli   |-> c.ncli + 1,
                    intena |-> IF c.ncli = 0 THEN c.if ELSE c.intena]

PushCli(c) == [if     |-> FALSE,
               ncli   |-> c.ncli + 1,
               intena |-> IF c.ncli = 0 THEN c.if ELSE c.intena]

(* What popcli refuses: IF already set, or no pushcli left to undo. *)
PopCliFault(c) ==
    IF c.if THEN "popcli - interruptible"
    ELSE IF c.ncli - 1 < 0 THEN "popcli" ELSE ""

(* Seeded fault: the last popcli enables interrupts, whatever intena says. *)
PopCliAlwaysSti(c) == [if     |-> c.if \/ c.ncli = 1,
                       ncli   |-> c.ncli - 1,
                       intena |-> c.intena]

PopCli(c) == [if     |-> c.if \/ (c.ncli = 1 /\ c.intena),
              ncli   |-> c.ncli - 1,
              intena |-> c.intena]
=============================================================================
