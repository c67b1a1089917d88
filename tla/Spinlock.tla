------------------------------ MODULE Spinlock ------------------------------
(***************************************************************************)
(* kernel/sys/spinlock.c statement by statement on the one CPU: pushcli,   *)
(* popcli, holding, acquire and release, run by a thread (Base) that an    *)
(* interrupt handler (Irq), calling the same functions, may interrupt      *)
(* between any two statements while IF is set.                             *)
(*                                                                         *)
(* The callers keep the locking rules: they acquire what they do not hold, *)
(* release what they hold, and touch IF themselves only without a lock.    *)
(***************************************************************************)
EXTENDS Integers, Sequences, FiniteSets

CONSTANTS Locks, Base, Irq

ASSUME SpinAssumption == IsFiniteSet(Locks) /\ Base # Irq

Threads == {Base, Irq}

VARIABLES
    iflag,      \* EFLAGS.IF
    ncli,       \* cpu.ncli
    intena,     \* cpu.intena
    locked,     \* spinlock.locked
    lkcpu,      \* spinlock.cpu is the CPU (TRUE) or 0 (FALSE)
    pc,         \* next statement of each thread; "off": no handler runs
    ret,        \* where the calls in progress of each thread return to
    lk,         \* argument of acquire or release
    eflags,     \* local of pushcli
    res,        \* result of holding
    own,        \* locks each thread has acquired
    halt        \* "" or the message of the panic that stopped the machine
\* When cli takes effect in a call, the state the caller left, for the
\* refinement mapping only: [cpu |-> ..., held |-> ...], or NoCall.
VARIABLE entry

vars == <<iflag, ncli, intena, locked, lkcpu, pc, ret, lk, eflags, res, own,
          halt, entry>>

NoCall == [none |-> TRUE]
Snapshot == [cpu  |-> [if |-> iflag, ncli |-> ncli, intena |-> intena],
             held |-> own]

Labels == {"off", "idle", "push_read", "push_cli", "push_save", "push_inc",
           "pop_check", "pop_dec", "pop_sti", "hold_read", "acq_hold",
           "acq_held", "acq_xchg", "acq_cpu", "rel_held", "rel_cpu", "rel_free"}

Init ==
    /\ iflag \in BOOLEAN
    /\ ncli = 0
    /\ intena = FALSE
    /\ locked = [l \in Locks |-> FALSE]
    /\ lkcpu = [l \in Locks |-> FALSE]
    /\ pc = [t \in Threads |-> IF t = Base THEN "idle" ELSE "off"]
    /\ ret = [t \in Threads |-> <<>>]
    /\ lk \in [Threads -> Locks]
    /\ eflags = [t \in Threads |-> FALSE]
    /\ res = [t \in Threads |-> FALSE]
    /\ own = [t \in Threads |-> {}]
    /\ halt = ""
    /\ entry = NoCall

-----------------------------------------------------------------------------
(* Control *)

Running(t)     == halt = "" /\ IF t = Irq THEN pc[Irq] # "off" ELSE pc[Irq] = "off"
At(t, label)   == Running(t) /\ pc[t] = label
Goto(t, label) == pc' = [pc EXCEPT ![t] = label] /\ UNCHANGED ret
Return(t)      == /\ pc' = [pc EXCEPT ![t] = Head(ret[t])]
                  /\ ret' = [ret EXCEPT ![t] = Tail(@)]
(* Call a function at label; it returns to the labels in back, in turn. *)
Call(t, label, back) == /\ pc' = [pc EXCEPT ![t] = label]
                        /\ ret' = [ret EXCEPT ![t] = back \o @]

Panic(msg) ==
    /\ halt' = msg
    /\ UNCHANGED <<iflag, ncli, intena, locked, lkcpu, pc, ret, lk, eflags, res,
                   own, entry>>

-----------------------------------------------------------------------------
(* pushcli *)

(* Seeded fault: intena is saved before cli. *)
PushReadSaves(t) ==
    /\ At(t, "push_read")
    /\ eflags' = [eflags EXCEPT ![t] = iflag]
    /\ intena' = IF ncli = 0 THEN iflag ELSE intena
    /\ pc' = [pc EXCEPT ![t] = "push_cli"]
    /\ UNCHANGED <<iflag, ncli, locked, lkcpu, ret, lk, res, own, halt, entry>>

PushRead(t) ==
    /\ At(t, "push_read")
    /\ eflags' = [eflags EXCEPT ![t] = iflag]
    /\ Goto(t, "push_cli")
    /\ UNCHANGED <<iflag, ncli, intena, locked, lkcpu, lk, res, own, halt, entry>>

(* Seeded fault: interrupts stay as they are. *)
PushNoCli(t) ==
    /\ At(t, "push_cli")
    /\ entry' = IF entry = NoCall THEN Snapshot ELSE entry
    /\ Goto(t, "push_save")
    /\ UNCHANGED <<iflag, ncli, intena, locked, lkcpu, lk, eflags, res, own, halt>>

PushCli(t) ==
    /\ At(t, "push_cli")
    /\ iflag' = FALSE
    /\ entry' = IF entry = NoCall THEN Snapshot ELSE entry
    /\ Goto(t, "push_save")
    /\ UNCHANGED <<ncli, intena, locked, lkcpu, lk, eflags, res, own, halt>>

PushSave(t) ==
    /\ At(t, "push_save")
    /\ intena' = IF ncli = 0 THEN eflags[t] ELSE intena
    /\ Goto(t, "push_inc")
    /\ UNCHANGED <<iflag, ncli, locked, lkcpu, lk, eflags, res, own, halt, entry>>

PushInc(t) ==
    /\ At(t, "push_inc")
    /\ ncli' = ncli + 1
    /\ Return(t)
    /\ UNCHANGED <<iflag, intena, locked, lkcpu, lk, eflags, res, own, halt, entry>>

-----------------------------------------------------------------------------
(* popcli *)

PopCheck(t) ==
    /\ At(t, "pop_check")
    /\ IF iflag THEN Panic("popcli - interruptible")
       ELSE /\ Goto(t, "pop_dec")
            /\ UNCHANGED <<iflag, ncli, intena, locked, lkcpu, lk, eflags, res,
                           own, halt, entry>>

PopDec(t) ==
    /\ At(t, "pop_dec")
    /\ ncli' = ncli - 1
    /\ IF ncli - 1 < 0
       THEN halt' = "popcli" /\ UNCHANGED <<pc, ret>>
       ELSE Goto(t, "pop_sti") /\ UNCHANGED halt
    /\ UNCHANGED <<iflag, intena, locked, lkcpu, lk, eflags, res, own, entry>>

(* The last statement of release, too, when that is the caller. *)
PopSti(t) ==
    /\ At(t, "pop_sti")
    /\ iflag' = (iflag \/ (ncli = 0 /\ intena))
    /\ Return(t)
    /\ IF ret[t] = <<"idle">>
       THEN /\ own' = [own EXCEPT ![t] = @ \ {lk[t]}]
            /\ entry' = NoCall
       ELSE UNCHANGED <<own, entry>>
    /\ UNCHANGED <<ncli, intena, locked, lkcpu, lk, eflags, res, halt>>

-----------------------------------------------------------------------------
(* holding, between its pushcli and its popcli *)

(* Seeded fault: holding returns without popcli. *)
HoldReadNoPop(t) ==
    /\ At(t, "hold_read")
    /\ res' = [res EXCEPT ![t] = locked[lk[t]] /\ lkcpu[lk[t]]]
    /\ Return(t)
    /\ UNCHANGED <<iflag, ncli, intena, locked, lkcpu, lk, eflags, own, halt, entry>>

HoldRead(t) ==
    /\ At(t, "hold_read")
    /\ res' = [res EXCEPT ![t] = locked[lk[t]] /\ lkcpu[lk[t]]]
    /\ Goto(t, "pop_check")
    /\ UNCHANGED <<iflag, ncli, intena, locked, lkcpu, lk, eflags, own, halt, entry>>

-----------------------------------------------------------------------------
(* acquire *)

CallAcquire(t, l) ==
    /\ At(t, "idle")
    /\ l \notin own[t]
    /\ lk' = [lk EXCEPT ![t] = l]
    /\ Call(t, "push_read", <<"acq_hold">>)
    /\ UNCHANGED <<iflag, ncli, intena, locked, lkcpu, eflags, res, own, halt, entry>>

AcqHold(t) ==
    /\ At(t, "acq_hold")
    /\ Call(t, "push_read", <<"hold_read", "acq_held">>)
    /\ UNCHANGED <<iflag, ncli, intena, locked, lkcpu, lk, eflags, res, own, halt,
                   entry>>

AcqHeld(t) ==
    /\ At(t, "acq_held")
    /\ IF res[t] THEN Panic("acquire")
       ELSE /\ Goto(t, "acq_xchg")
            /\ UNCHANGED <<iflag, ncli, intena, locked, lkcpu, lk, eflags, res,
                           own, halt, entry>>

(* One round of the spin loop. *)
AcqXchg(t) ==
    /\ At(t, "acq_xchg")
    /\ locked' = [locked EXCEPT ![lk[t]] = TRUE]
    /\ Goto(t, IF locked[lk[t]] THEN "acq_xchg" ELSE "acq_cpu")
    /\ UNCHANGED <<iflag, ncli, intena, lkcpu, lk, eflags, res, own, halt, entry>>

AcqCpu(t) ==
    /\ At(t, "acq_cpu")
    /\ lkcpu' = [lkcpu EXCEPT ![lk[t]] = TRUE]
    /\ own' = [own EXCEPT ![t] = @ \cup {lk[t]}]
    /\ entry' = NoCall
    /\ Goto(t, "idle")
    /\ UNCHANGED <<iflag, ncli, intena, locked, lk, eflags, res, halt>>

-----------------------------------------------------------------------------
(* release *)

CallRelease(t, l) ==
    /\ At(t, "idle")
    /\ l \in own[t]
    /\ lk' = [lk EXCEPT ![t] = l]
    /\ Call(t, "push_read", <<"hold_read", "rel_held">>)
    /\ UNCHANGED <<iflag, ncli, intena, locked, lkcpu, eflags, res, own, halt, entry>>

RelHeld(t) ==
    /\ At(t, "rel_held")
    /\ IF ~res[t] THEN Panic("release")
       ELSE /\ Goto(t, "rel_cpu")
            /\ UNCHANGED <<iflag, ncli, intena, locked, lkcpu, lk, eflags, res,
                           own, halt, entry>>

RelCpu(t) ==
    /\ At(t, "rel_cpu")
    /\ lkcpu' = [lkcpu EXCEPT ![lk[t]] = FALSE]
    /\ Goto(t, "rel_free")
    /\ UNCHANGED <<iflag, ncli, intena, locked, lk, eflags, res, own, halt, entry>>

(* Seeded fault: locked is not cleared. *)
RelNotFreed(t) ==
    /\ At(t, "rel_free")
    /\ Call(t, "pop_check", <<"idle">>)
    /\ UNCHANGED <<iflag, ncli, intena, locked, lkcpu, lk, eflags, res, own, halt,
                   entry>>

RelFree(t) ==
    /\ At(t, "rel_free")
    /\ locked' = [locked EXCEPT ![lk[t]] = FALSE]
    /\ Call(t, "pop_check", <<"idle">>)
    /\ UNCHANGED <<iflag, ncli, intena, lkcpu, lk, eflags, res, own, halt, entry>>

-----------------------------------------------------------------------------
(* The callers and the hardware *)

SetIF ==
    /\ At(Base, "idle")
    /\ own[Base] = {}
    /\ iflag' \in BOOLEAN
    /\ UNCHANGED <<ncli, intena, locked, lkcpu, pc, ret, lk, eflags, res, own,
                   halt, entry>>

Interrupt ==
    /\ halt = ""
    /\ pc[Irq] = "off"
    /\ iflag
    /\ iflag' = FALSE
    /\ Goto(Irq, "idle")
    /\ UNCHANGED <<ncli, intena, locked, lkcpu, lk, eflags, res, own, halt, entry>>

InterruptReturn ==
    /\ At(Irq, "idle")
    /\ own[Irq] = {}
    /\ iflag' = TRUE
    /\ Goto(Irq, "off")
    /\ UNCHANGED <<ncli, intena, locked, lkcpu, lk, eflags, res, own, halt, entry>>

Step(t) ==
    \/ PushRead(t) \/ PushCli(t) \/ PushSave(t) \/ PushInc(t)
    \/ PopCheck(t) \/ PopDec(t) \/ PopSti(t) \/ HoldRead(t)
    \/ AcqHold(t) \/ AcqHeld(t) \/ AcqXchg(t) \/ AcqCpu(t)
    \/ RelHeld(t) \/ RelCpu(t) \/ RelFree(t)

Next ==
    \/ \E t \in Threads : Step(t)
    \/ \E t \in Threads, l \in Locks : CallAcquire(t, l) \/ CallRelease(t, l)
    \/ SetIF \/ Interrupt \/ InterruptReturn

Spec == Init /\ [][Next]_vars

(* The CPU executes the handler, and between interrupts the thread.        *)
FairSpec ==
    /\ Spec
    /\ SF_vars(Step(Base))
    /\ WF_vars(Step(Irq))

-----------------------------------------------------------------------------
(* Properties *)

(* Types; ncli never exceeds the held locks by more than the two pushcli   *)
(* of a call in progress, so the counter cannot creep up.                  *)
TypeOK ==
    /\ {iflag, intena} \subseteq BOOLEAN
    /\ ncli \in 0..(Cardinality(Locks) + 1)
    /\ {locked, lkcpu} \subseteq [Locks -> BOOLEAN]
    /\ pc \in [Threads -> Labels]
    /\ ret \in [Threads -> Seq(Labels)]
    /\ lk \in [Threads -> Locks]
    /\ {eflags, res} \subseteq [Threads -> BOOLEAN]
    /\ own \in [Threads -> SUBSET Locks]
    /\ halt \in {"", "acquire", "release", "popcli", "popcli - interruptible"}

(* On one CPU a thread that spins waits for itself: acquire never meets a  *)
(* taken lock, and callers that keep the rules never panic, wherever an    *)
(* interrupt hits them.                                                    *)
NeverStuck ==
    /\ halt = ""
    /\ \A t \in Threads : pc[t] = "acq_xchg" => ~locked[lk[t]]

(* As long as handlers return, every call of acquire and release returns.  *)
CallsReturn ==
    []<>(pc[Irq] = "off") =>
        \A t \in Threads : pc[t] \notin {"idle", "off"} ~> pc[t] = "idle"

(* Although pushcli reads EFLAGS before it disables interrupts, acquire    *)
(* and release take effect at one instant: a call in progress is seen as   *)
(* not begun.                                                              *)
Abstract == INSTANCE LockSpec WITH
    cpu     <- IF entry = NoCall THEN Snapshot.cpu ELSE entry.cpu,
    held    <- IF entry = NoCall THEN Snapshot.held ELSE entry.held,
    handler <- pc[Irq] # "off"
ActsAtOneInstant == Abstract!Spec
=============================================================================
