--------------------------- MODULE SpinlockProofs ---------------------------
(***************************************************************************)
(* Theorems about Spinlock for every number of locks: acquire and release, *)
(* statement by statement and with a handler anywhere between them, are    *)
(* the operations of LockSpec at one instant; nobody spins or panics.      *)
(***************************************************************************)
EXTENDS Spinlock, FiniteSetTheorems, TLAPS

-----------------------------------------------------------------------------
(* The inductive invariant *)

(* Whose statement comes next; the other thread is outside of any call, or *)
(* has not disabled interrupts yet.                                        *)
Runner == IF pc[Irq] = "off" THEN Base ELSE Irq
Other  == IF pc[Irq] = "off" THEN Irq ELSE Base

Push == {"push_read", "push_cli", "push_save", "push_inc"}

(* What is left of the calls in progress when one of them returns.         *)
NoReturn       == <<>>
ToAcquire      == <<"acq_hold">>
HoldingAcquire == <<"hold_read", "acq_held">>
ToHeld         == <<"acq_held">>
HoldingRelease == <<"hold_read", "rel_held">>
ToRelHeld      == <<"rel_held">>
ToCaller       == <<"idle">>

(* The places of the calls of acquire and release, and how many pushcli    *)
(* are in effect there beyond one for each lock in own.                    *)
AcquirePlace(t, n) ==
    \/ pc[t] \in Push /\ ret[t] = ToAcquire /\ n = 0
    \/ pc[t] = "acq_hold" /\ ret[t] = NoReturn /\ n = 1
    \/ pc[t] \in Push /\ ret[t] = HoldingAcquire /\ n = 1
    \/ pc[t] \in {"hold_read", "pop_check", "pop_dec"} /\ ret[t] = ToHeld /\ n = 2
    \/ pc[t] = "pop_sti" /\ ret[t] = ToHeld /\ n = 1
    \/ pc[t] \in {"acq_held", "acq_xchg", "acq_cpu"} /\ ret[t] = NoReturn /\ n = 1

ReleasePlace(t, n) ==
    \/ pc[t] \in Push /\ ret[t] = HoldingRelease /\ n = 0
    \/ pc[t] \in {"hold_read", "pop_check", "pop_dec"} /\ ret[t] = ToRelHeld /\ n = 1
    \/ pc[t] = "pop_sti" /\ ret[t] = ToRelHeld /\ n = 0
    \/ pc[t] \in {"rel_held", "rel_cpu", "rel_free"} /\ ret[t] = NoReturn /\ n = 0
    \/ pc[t] \in {"pop_check", "pop_dec"} /\ ret[t] = ToCaller /\ n = 0
    \/ pc[t] = "pop_sti" /\ ret[t] = ToCaller /\ n = -1

PlaceAt(t, n) ==
    /\ ncli = Cardinality(own[t]) + n
    /\ \/ pc[t] = "idle" /\ ret[t] = NoReturn /\ n = 0
       \/ AcquirePlace(t, n) /\ lk[t] \notin own[t]
       \/ ReleasePlace(t, n) /\ lk[t] \in own[t]

Place(t) == \E n \in -1..2 : PlaceAt(t, n)

Entries == [cpu  : [if : BOOLEAN, ncli : Int, intena : BOOLEAN],
            held : [Threads -> SUBSET Locks]]

Types ==
    /\ iflag \in BOOLEAN /\ intena \in BOOLEAN
    /\ ncli \in Int
    /\ locked \in [Locks -> BOOLEAN] /\ lkcpu \in [Locks -> BOOLEAN]
    /\ pc \in [Threads -> Labels]
    /\ ret \in [Threads -> Seq(Labels)]
    /\ lk \in [Threads -> Locks]
    /\ eflags \in [Threads -> BOOLEAN] /\ res \in [Threads -> BOOLEAN]
    /\ own \in [Threads -> SUBSET Locks]
    /\ halt = ""
    /\ entry \in Entries \cup {NoCall}

(* A thread that may be interrupted holds nothing and is at most at the    *)
(* cli of the first pushcli of acquire.                                    *)
Interruptible(t) ==
    /\ own[t] = {}
    /\ \/ pc[t] = "idle" /\ ret[t] = NoReturn
       \/ pc[t] \in {"push_read", "push_cli"} /\ ret[t] = ToAcquire

Windows ==
    /\ iflag => pc[Irq] = "off" /\ Interruptible(Base)
    /\ pc[Irq] = "off" => ret[Irq] = NoReturn /\ own[Irq] = {}
    /\ pc[Irq] # "off" =>
          /\ Interruptible(Base)
          /\ pc[Base] = "push_cli" => eflags[Base]
          /\ pc[Irq] \in {"push_cli", "push_save"} => ~eflags[Irq]
          /\ own[Irq] # {} \/ ncli > 0 \/ pc[Irq] = "push_inc" => ~intena
    /\ pc[Runner] = "push_cli" => eflags[Runner] = iflag
    /\ pc[Base] # "off"

(* locked and cpu of the locks, and what holding says of them. *)
LocksOf(t) ==
    /\ \A l \in Locks : locked[l] =
          \/ l \in own[t] /\ ~(ret[t] = ToCaller /\ lk[t] = l)
          \/ pc[t] = "acq_cpu" /\ lk[t] = l
    /\ \A l \in Locks : lkcpu[l] =
          (l \in own[t] /\ ~(lk[t] = l /\ (ret[t] = ToCaller \/ pc[t] = "rel_free")))
    /\ pc[t] \in {"pop_check", "pop_dec", "pop_sti"} /\ ret[t] = ToHeld
          => ~res[t]
    /\ pc[t] \in {"pop_check", "pop_dec", "pop_sti"} /\ ret[t] = ToRelHeld
          => res[t]
    /\ pc[t] = "acq_held" => ~res[t]
    /\ pc[t] = "rel_held" => res[t]

(* What has become of the state that the caller left, since the first cli. *)
Begun(t) ==
    /\ pc[t] \notin {"idle", "off"}
    /\ ~(pc[t] \in {"push_read", "push_cli"}
           /\ ret[t] \in {ToAcquire, HoldingRelease})

EntryOf(t) ==
    /\ entry # NoCall <=> Begun(t)
    /\ Begun(t) =>
          /\ entry.held = own
          /\ entry.cpu.ncli = Cardinality(own[t])
          /\ entry.cpu.if => own[t] = {}
          /\ IF pc[t] = "push_save" /\ ret[t] = ToAcquire
             THEN intena = entry.cpu.intena /\ eflags[t] = entry.cpu.if
             ELSE intena = IF entry.cpu.ncli = 0 THEN entry.cpu.if ELSE entry.cpu.intena

IInv ==
    /\ Types
    /\ Windows
    /\ Place(Runner)
    /\ LocksOf(Runner)
    /\ EntryOf(Runner)

-----------------------------------------------------------------------------
(* Lemmas *)

(* The six places to return to are different, and how they follow from     *)
(* each other.                                                             *)
LEMMA Returns ==
    /\ {NoReturn, ToAcquire, HoldingAcquire, ToHeld, HoldingRelease, ToRelHeld,
         ToCaller} \subseteq Seq(Labels)
    /\ NoReturn \notin {ToAcquire, HoldingAcquire, ToHeld, HoldingRelease, ToRelHeld, ToCaller}
    /\ ToAcquire \notin {HoldingAcquire, ToHeld, HoldingRelease, ToRelHeld, ToCaller}
    /\ HoldingAcquire \notin {ToHeld, HoldingRelease, ToRelHeld, ToCaller}
    /\ ToHeld \notin {HoldingRelease, ToRelHeld, ToCaller}
    /\ HoldingRelease \notin {ToRelHeld, ToCaller}
    /\ ToRelHeld # ToCaller
    /\ Head(ToAcquire) = "acq_hold" /\ Tail(ToAcquire) = NoReturn
    /\ Head(HoldingAcquire) = "hold_read" /\ Tail(HoldingAcquire) = ToHeld
    /\ Head(ToHeld) = "acq_held" /\ Tail(ToHeld) = NoReturn
    /\ Head(HoldingRelease) = "hold_read" /\ Tail(HoldingRelease) = ToRelHeld
    /\ Head(ToRelHeld) = "rel_held" /\ Tail(ToRelHeld) = NoReturn
    /\ Head(ToCaller) = "idle" /\ Tail(ToCaller) = NoReturn
    /\ ToAcquire \o NoReturn = ToAcquire /\ HoldingAcquire \o NoReturn = HoldingAcquire
    /\ HoldingRelease \o NoReturn = HoldingRelease /\ ToCaller \o NoReturn = ToCaller
  <1> USE DEF NoReturn, ToAcquire, HoldingAcquire, ToHeld, HoldingRelease, ToRelHeld, ToCaller
  <1>1. {NoReturn, ToAcquire, HoldingAcquire, ToHeld, HoldingRelease, ToRelHeld,
         ToCaller} \subseteq Seq(Labels)
    BY DEF Labels
  <1>2. /\ NoReturn \notin {ToAcquire, HoldingAcquire, ToHeld, HoldingRelease, ToRelHeld, ToCaller}
        /\ ToAcquire \notin {HoldingAcquire, ToHeld, HoldingRelease, ToRelHeld, ToCaller}
        /\ HoldingAcquire \notin {ToHeld, HoldingRelease, ToRelHeld, ToCaller}
        /\ ToHeld \notin {HoldingRelease, ToRelHeld, ToCaller}
        /\ HoldingRelease \notin {ToRelHeld, ToCaller}
        /\ ToRelHeld # ToCaller
    OBVIOUS
  <1>3. /\ Head(ToAcquire) = "acq_hold" /\ Tail(ToAcquire) = NoReturn
        /\ Head(HoldingAcquire) = "hold_read" /\ Tail(HoldingAcquire) = ToHeld
        /\ Head(ToHeld) = "acq_held" /\ Tail(ToHeld) = NoReturn
        /\ Head(HoldingRelease) = "hold_read" /\ Tail(HoldingRelease) = ToRelHeld
        /\ Head(ToRelHeld) = "rel_held" /\ Tail(ToRelHeld) = NoReturn
        /\ Head(ToCaller) = "idle" /\ Tail(ToCaller) = NoReturn
    OBVIOUS
  <1>4. /\ ToAcquire \o NoReturn = ToAcquire /\ HoldingAcquire \o NoReturn = HoldingAcquire
        /\ HoldingRelease \o NoReturn = HoldingRelease /\ ToCaller \o NoReturn = ToCaller
    OBVIOUS
  <1> QED BY <1>1, <1>2, <1>3, <1>4

(* A statement of a thread leaves the other where it is.                   *)
LEMMA Moves ==
    ASSUME IInv, NEW t \in Threads, Running(t), pc[t] # "off",
           NEW label \in Labels \ {"off"}, NEW back \in Seq(Labels),
           pc' = [pc EXCEPT ![t] = label], ret' = [ret EXCEPT ![t] = back]
    PROVE  /\ t = Runner /\ Runner' = t
           /\ pc'[t] = label /\ ret'[t] = back
           /\ \A u \in Threads \ {t} : pc'[u] = pc[u] /\ ret'[u] = ret[u]
           /\ pc' \in [Threads -> Labels] /\ ret' \in [Threads -> Seq(Labels)]
  BY SpinAssumption DEF IInv, Types, Windows, Running, Runner, Threads

(* The locks of a thread, counted.                                         *)
LEMMA Counting ==
    ASSUME IInv, NEW t \in Threads, NEW l \in Locks
    PROVE  /\ Cardinality(own[t]) \in Nat
           /\ Cardinality(own[t]) = 0 <=> own[t] = {}
           /\ l \in own[t] => Cardinality(own[t] \ {l}) = Cardinality(own[t]) - 1
           /\ l \notin own[t] => Cardinality(own[t] \cup {l}) = Cardinality(own[t]) + 1
           /\ Cardinality(own[t]) <= Cardinality(Locks)
           /\ l \notin own[t] => Cardinality(own[t]) + 1 <= Cardinality(Locks)
  <1>1. own[t] \subseteq Locks /\ IsFiniteSet(Locks) /\ own[t] \cup {l} \subseteq Locks
    BY SpinAssumption DEF IInv, Types
  <1>2. IsFiniteSet(own[t])
    BY <1>1, FS_Subset
  <1>3. Cardinality(own[t]) \in Nat /\ (Cardinality(own[t]) = 0 <=> own[t] = {})
    BY <1>2, FS_CardinalityType, FS_EmptySet
  <1>4. l \in own[t] => Cardinality(own[t] \ {l}) = Cardinality(own[t]) - 1
    BY <1>2, FS_RemoveElement
  <1>5. l \notin own[t] => Cardinality(own[t] \cup {l}) = Cardinality(own[t]) + 1
    BY <1>2, FS_AddElement
  <1>6. /\ Cardinality(own[t]) <= Cardinality(Locks)
        /\ Cardinality(own[t] \cup {l}) <= Cardinality(Locks)
    BY <1>1, FS_Subset
  <1> QED BY <1>3, <1>4, <1>5, <1>6

(* What is known where a statement of thread t is next.                    *)
Here(t, n) ==
    /\ t = Runner /\ t \in {Base, Irq}
    /\ t = Base => pc[Irq] = "off"
    /\ PlaceAt(t, n)
    /\ LocksOf(t) /\ EntryOf(t)
    /\ iflag => t = Base /\ Interruptible(t)
    /\ lk[t] \in Locks
    /\ Cardinality(own[t]) \in Nat
    /\ Cardinality(own[t]) = 0 <=> own[t] = {}
    /\ lk[t] \in own[t] => Cardinality(own[t] \ {lk[t]}) = Cardinality(own[t]) - 1
    /\ lk[t] \notin own[t] => Cardinality(own[t] \cup {lk[t]}) = Cardinality(own[t]) + 1

(* The conjunction of it all follows from the invariant.                   *)
LEMMA Located ==
    ASSUME IInv, NEW t \in Threads, Running(t), pc[t] # "off"
    PROVE  \E n \in -1..2 : Here(t, n)
  <1>1. t = Runner /\ t \in {Base, Irq} /\ (t = Base => pc[Irq] = "off")
    BY SpinAssumption DEF Running, Runner, Threads
  <1>2. PICK n \in -1..2 : PlaceAt(t, n)
    BY <1>1 DEF IInv, Place
  <1>3. LocksOf(t) /\ EntryOf(t) /\ lk[t] \in Locks
    BY <1>1 DEF IInv, Types
  <1>4. iflag => t = Base /\ Interruptible(t)
    BY <1>1, SpinAssumption DEF IInv, Windows, Runner
  <1> QED BY <1>1, <1>2, <1>3, <1>4, Counting DEF Here

(* pushcli reads EFLAGS; until its cli a handler may still come between.   *)
LEMMA PushReadStep == ASSUME IInv, NEW t \in Threads, PushRead(t) PROVE IInv'
  <1>1. Running(t) /\ pc[t] = "push_read"
    BY DEF PushRead, At
  <1>2. PICK n \in -1..2 : Here(t, n)
    BY <1>1, Located
  <1>3. /\ pc' = [pc EXCEPT ![t] = "push_cli"] /\ ret' = [ret EXCEPT ![t] = ret[t]]
        /\ "push_cli" \in Labels \ {"off"} /\ ret[t] \in Seq(Labels)
    BY <1>1, <1>2, Returns
       DEF PushRead, Goto, Call, Return, Here, PlaceAt, AcquirePlace,
           ReleasePlace, Push, IInv, Types, Labels
  <1>4. /\ t = Runner /\ Runner' = t
        /\ pc'[t] = "push_cli" /\ ret'[t] = ret[t]
        /\ \A u \in Threads \ {t} : pc'[u] = pc[u] /\ ret'[u] = ret[u]
        /\ pc' \in [Threads -> Labels] /\ ret' \in [Threads -> Seq(Labels)]
    BY <1>1, <1>3, Moves
  <1>5. Types'
    BY <1>1, <1>2, <1>4 DEF PushRead, IInv, Types
  <1>6. Windows'
    <2>1. CASE t = Base
      BY <1>1, <1>2, <1>4, <2>1, SpinAssumption, Returns
         DEF PushRead, IInv, Types, Windows, Interruptible, Runner, Threads,
             Here, PlaceAt, AcquirePlace, ReleasePlace, Push
    <2>2. CASE t = Irq
      BY <1>1, <1>2, <1>4, <2>2, SpinAssumption, Returns
         DEF PushRead, IInv, Types, Windows, Interruptible, Runner, Threads,
             Here, PlaceAt, AcquirePlace, ReleasePlace, Push
    <2> QED BY <1>2, <2>1, <2>2 DEF Here
  <1>7. Place(t)'
    BY <1>1, <1>2, <1>4, Returns
       DEF PushRead, Place, Here, PlaceAt, AcquirePlace, ReleasePlace, Push,
           IInv, Types
  <1>8. LocksOf(t)'
    BY <1>1, <1>2, <1>4, Returns
       DEF PushRead, LocksOf, Here, PlaceAt, AcquirePlace, ReleasePlace, Push,
           IInv, Types
  <1>9. EntryOf(t)'
    BY <1>1, <1>2, <1>4, Returns
       DEF PushRead, EntryOf, Begun, Here, PlaceAt, AcquirePlace, ReleasePlace,
           Push, IInv, Types
  <1> QED BY <1>4, <1>5, <1>6, <1>7, <1>8, <1>9 DEF IInv

(* From the cli on nobody else runs; the state is what the caller left.    *)
LEMMA PushCliStep == ASSUME IInv, NEW t \in Threads, PushCli(t) PROVE IInv'
  <1>1. Running(t) /\ pc[t] = "push_cli"
    BY DEF PushCli, At
  <1>2. PICK n \in -1..2 : Here(t, n)
    BY <1>1, Located
  <1>3. /\ pc' = [pc EXCEPT ![t] = "push_save"] /\ ret' = [ret EXCEPT ![t] = ret[t]]
        /\ "push_save" \in Labels \ {"off"} /\ ret[t] \in Seq(Labels)
    BY <1>1, <1>2, Returns
       DEF PushCli, Goto, Call, Return, Here, PlaceAt, AcquirePlace,
           ReleasePlace, Push, IInv, Types, Labels
  <1>4. /\ t = Runner /\ Runner' = t
        /\ pc'[t] = "push_save" /\ ret'[t] = ret[t]
        /\ \A u \in Threads \ {t} : pc'[u] = pc[u] /\ ret'[u] = ret[u]
        /\ pc' \in [Threads -> Labels] /\ ret' \in [Threads -> Seq(Labels)]
    BY <1>1, <1>3, Moves
  <1>5. Types'
    BY <1>1, <1>2, <1>4 DEF PushCli, IInv, Types, Snapshot, Entries, NoCall
  <1>6. Windows'
    <2>1. CASE t = Base
      BY <1>1, <1>2, <1>4, <2>1, SpinAssumption, Returns
         DEF PushCli, IInv, Types, Windows, Interruptible, Runner, Threads,
             Here, PlaceAt, AcquirePlace, ReleasePlace, Push
    <2>2. CASE t = Irq
      BY <1>1, <1>2, <1>4, <2>2, SpinAssumption, Returns
         DEF PushCli, IInv, Types, Windows, Interruptible, Runner, Threads,
             Here, PlaceAt, AcquirePlace, ReleasePlace, Push
    <2> QED BY <1>2, <2>1, <2>2 DEF Here
  <1>7. Place(t)'
    BY <1>1, <1>2, <1>4, Returns
       DEF PushCli, Place, Here, PlaceAt, AcquirePlace, ReleasePlace, Push,
           IInv, Types
  <1>8. LocksOf(t)'
    BY <1>1, <1>2, <1>4, Returns
       DEF PushCli, LocksOf, Here, PlaceAt, AcquirePlace, ReleasePlace, Push,
           IInv, Types
  <1>9. EntryOf(t)'
    <2>1. CASE Begun(t)
      BY <1>1, <1>2, <1>4, <2>1, Returns DEF PushCli, EntryOf, Begun, Here
    <2>2. CASE ~Begun(t)
      <3>1. entry = NoCall /\ entry' = Snapshot /\ Snapshot # NoCall
        BY <1>1, <1>2, <2>2 DEF PushCli, EntryOf, Here, Snapshot, NoCall
      <3>2. /\ entry'.held = own /\ entry'.cpu.ncli = ncli /\ entry'.cpu.if = iflag
            /\ entry'.cpu.intena = intena
        BY <3>1 DEF Snapshot
      <3>3. eflags[t] = iflag /\ UNCHANGED <<own, eflags, intena>>
        BY <1>1, <1>2 DEF PushCli, Here, IInv, Windows
      <3>4. iflag => own[t] = {}
        BY <1>2 DEF Here, Interruptible
      <3>5. /\ ncli = Cardinality(own[t])
            /\ ret[t] # ToAcquire => Cardinality(own[t]) # 0
        <4>1. ret[t] \in {ToAcquire, HoldingRelease} /\ PlaceAt(t, n)
          BY <1>1, <1>2, <2>2 DEF Begun, Here
        <4>2. CASE ret[t] = ToAcquire
          <5>1. ncli = Cardinality(own[t]) + n /\ n = 0
            BY <1>1, <4>1, <4>2, Returns
               DEF PlaceAt, AcquirePlace, ReleasePlace
          <5> QED BY <1>2, <4>2, <5>1 DEF Here
        <4>3. CASE ret[t] = HoldingRelease
          <5>1. ncli = Cardinality(own[t]) + n /\ n = 0 /\ lk[t] \in own[t]
            BY <1>1, <4>1, <4>3, Returns
               DEF PlaceAt, AcquirePlace, ReleasePlace
          <5> QED BY <1>2, <5>1 DEF Here
        <4> QED BY <4>1, <4>2, <4>3
      <3>6. Begun(t)'
        BY <1>4 DEF Begun
      <3> QED BY <1>4, <3>1, <3>2, <3>3, <3>4, <3>5, <3>6 DEF EntryOf
    <2> QED BY <2>1, <2>2
  <1> QED BY <1>4, <1>5, <1>6, <1>7, <1>8, <1>9 DEF IInv

(* Only the first pushcli saves the IF it read; a handler reads FALSE.     *)
LEMMA PushSaveStep == ASSUME IInv, NEW t \in Threads, PushSave(t) PROVE IInv'
  <1>1. Running(t) /\ pc[t] = "push_save"
    BY DEF PushSave, At
  <1>2. PICK n \in -1..2 : Here(t, n)
    BY <1>1, Located
  <1>3. n \in {0, 1}
    BY <1>1, <1>2 DEF Here, PlaceAt, AcquirePlace, ReleasePlace, Push
  <1>4. /\ pc' = [pc EXCEPT ![t] = "push_inc"] /\ ret' = [ret EXCEPT ![t] = ret[t]]
        /\ "push_inc" \in Labels \ {"off"} /\ ret[t] \in Seq(Labels)
    BY <1>1, <1>2, <1>3, Returns
       DEF PushSave, Goto, Call, Return, Here, PlaceAt, AcquirePlace,
           ReleasePlace, Push, IInv, Types, Labels
  <1>5. /\ t = Runner /\ Runner' = t
        /\ pc'[t] = "push_inc" /\ ret'[t] = ret[t]
        /\ \A u \in Threads \ {t} : pc'[u] = pc[u] /\ ret'[u] = ret[u]
        /\ pc' \in [Threads -> Labels] /\ ret' \in [Threads -> Seq(Labels)]
    BY <1>1, <1>4, Moves
  <1>6. Types'
    BY <1>1, <1>2, <1>5, <1>3 DEF PushSave, IInv, Types
  <1>7. Windows'
    <2>1. ncli \in Int /\ ncli >= 0
      BY <1>2, <1>3 DEF Here, PlaceAt
    <2>2. CASE t = Base
      BY <1>1, <1>2, <1>5, <2>2, SpinAssumption
         DEF PushSave, IInv, Types, Windows, Interruptible, Runner, Threads,
             Here
    <2>3. CASE t = Irq
      <3>1. ~intena' /\ ~iflag
        BY <1>1, <1>2, <2>1, <2>3, SpinAssumption
           DEF PushSave, IInv, Windows, Here
      <3> QED BY <1>1, <1>2, <1>5, <2>3, <3>1, SpinAssumption
                 DEF PushSave, IInv, Types, Windows, Interruptible, Runner,
                     Threads
    <2> QED BY <1>2, <2>2, <2>3 DEF Here
  <1>8. Place(t)'
    BY <1>1, <1>2, <1>5, <1>3, Returns
       DEF PushSave, Place, Here, PlaceAt, AcquirePlace, ReleasePlace, Push,
           IInv, Types
  <1>9. LocksOf(t)'
    BY <1>1, <1>2, <1>5, <1>3, Returns
       DEF PushSave, LocksOf, Here, PlaceAt, AcquirePlace, ReleasePlace, Push,
           IInv, Types
  <1>10. EntryOf(t)'
    <2>1. Begun(t) /\ Begun(t)' /\ UNCHANGED <<entry, own>>
      BY <1>1, <1>5 DEF PushSave, Begun
    <2>2. CASE ret[t] = ToAcquire
      <3>1. ncli = Cardinality(own[t])
        BY <1>1, <1>2, <2>2, Returns
           DEF Here, PlaceAt, AcquirePlace, ReleasePlace, Push
      <3> QED BY <1>1, <1>2, <1>5, <2>1, <2>2, <3>1 DEF PushSave, EntryOf, Here
    <2>3. CASE ret[t] # ToAcquire
      <3>1. /\ ncli = Cardinality(own[t]) + n
            /\ n = 1 \/ (n = 0 /\ lk[t] \in own[t])
        BY <1>1, <1>2, <2>3 DEF Here, PlaceAt, AcquirePlace, ReleasePlace, Push
      <3>2. Cardinality(own[t]) \in Nat /\ (Cardinality(own[t]) = 0 <=> own[t] = {})
        BY <1>2, Counting DEF IInv, Types
      <3>3. ncli # 0
        BY <3>1, <3>2
      <3> QED BY <1>1, <1>2, <1>5, <2>1, <2>3, <3>3 DEF PushSave, EntryOf, Here
    <2> QED BY <2>2, <2>3
  <1> QED BY <1>5, <1>6, <1>7, <1>8, <1>9, <1>10 DEF IInv

(* One more pushcli is in effect than before.                              *)
LEMMA PushIncStep == ASSUME IInv, NEW t \in Threads, PushInc(t) PROVE IInv'
  <1>1. Running(t) /\ pc[t] = "push_inc"
    BY DEF PushInc, At
  <1>2. PICK n \in -1..2 : Here(t, n)
    BY <1>1, Located
  <1>3. /\ pc' = [pc EXCEPT ![t] = Head(ret[t])] /\ ret' = [ret EXCEPT ![t] = Tail(ret[t])]
        /\ Head(ret[t]) \in Labels \ {"off"} /\ Tail(ret[t]) \in Seq(Labels)
    BY <1>1, <1>2, Returns
       DEF PushInc, Goto, Call, Return, Here, PlaceAt, AcquirePlace,
           ReleasePlace, Push, IInv, Types, Labels
  <1>4. /\ t = Runner /\ Runner' = t
        /\ pc'[t] = Head(ret[t]) /\ ret'[t] = Tail(ret[t])
        /\ \A u \in Threads \ {t} : pc'[u] = pc[u] /\ ret'[u] = ret[u]
        /\ pc' \in [Threads -> Labels] /\ ret' \in [Threads -> Seq(Labels)]
    BY <1>1, <1>3, Moves
  <1>5. Types'
    <2>1. ncli \in Int /\ ncli' = ncli + 1
      BY DEF PushInc, IInv, Types
    <2>2. ncli' \in Int
      BY <2>1
    <2> QED BY <1>4, <2>2 DEF PushInc, IInv, Types
  <1>6. Windows'
    <2>1. CASE t = Base
      BY <1>1, <1>2, <1>4, <2>1, SpinAssumption, Returns
         DEF PushInc, IInv, Types, Windows, Interruptible, Runner, Threads,
             Here, PlaceAt, AcquirePlace, ReleasePlace, Push
    <2>2. CASE t = Irq
      BY <1>1, <1>2, <1>4, <2>2, SpinAssumption, Returns
         DEF PushInc, IInv, Types, Windows, Interruptible, Runner, Threads,
             Here, PlaceAt, AcquirePlace, ReleasePlace, Push
    <2> QED BY <1>2, <2>1, <2>2 DEF Here
  <1>7. Place(t)'
    <2>1. ncli' = Cardinality(own'[t]) + (n + 1) /\ UNCHANGED <<own, lk>>
      BY <1>2 DEF PushInc, Here, PlaceAt
    <2>2. \/ ret[t] = ToAcquire /\ n = 0 /\ lk[t] \notin own[t]
          \/ ret[t] = HoldingAcquire /\ n = 1 /\ lk[t] \notin own[t]
          \/ ret[t] = HoldingRelease /\ n = 0 /\ lk[t] \in own[t]
      BY <1>1, <1>2 DEF Here, PlaceAt, AcquirePlace, ReleasePlace
    <2>3. \/ AcquirePlace(t, n + 1)' /\ lk[t] \notin own[t]
          \/ ReleasePlace(t, n + 1)' /\ lk[t] \in own[t]
      <3>1. CASE ret[t] = ToAcquire /\ n = 0
        <4>1. pc'[t] = "acq_hold" /\ ret'[t] = NoReturn /\ n + 1 = 1
          BY <1>4, <3>1, Returns
        <4> QED BY <2>2, <3>1, <4>1, Returns DEF AcquirePlace
      <3>2. CASE ret[t] = HoldingAcquire /\ n = 1
        <4>1. pc'[t] = "hold_read" /\ ret'[t] = ToHeld /\ n + 1 = 2
          BY <1>4, <3>2, Returns
        <4> QED BY <2>2, <3>2, <4>1, Returns DEF AcquirePlace
      <3>3. CASE ret[t] = HoldingRelease /\ n = 0
        <4>1. pc'[t] = "hold_read" /\ ret'[t] = ToRelHeld /\ n + 1 = 1
          BY <1>4, <3>3, Returns
        <4> QED BY <2>2, <3>3, <4>1, Returns DEF ReleasePlace
      <3> QED BY <2>2, <3>1, <3>2, <3>3
    <2>4. n \in {0, 1}
      BY <2>2
    <2> QED BY <2>1, <2>3, <2>4 DEF Place, PlaceAt
  <1>8. LocksOf(t)'
    BY <1>1, <1>2, <1>4, Returns
       DEF PushInc, LocksOf, Here, PlaceAt, AcquirePlace, ReleasePlace, Push,
           IInv, Types
  <1>9. EntryOf(t)'
    BY <1>1, <1>2, <1>4, Returns
       DEF PushInc, EntryOf, Begun, Here, PlaceAt, AcquirePlace, ReleasePlace,
           Push, IInv, Types
  <1> QED BY <1>4, <1>5, <1>6, <1>7, <1>8, <1>9 DEF IInv

(* Interrupts are off wherever popcli is called.                           *)
LEMMA PopCheckStep == ASSUME IInv, NEW t \in Threads, PopCheck(t) PROVE IInv'
  <1>1. Running(t) /\ pc[t] = "pop_check"
    BY DEF PopCheck, At
  <1>2. PICK n \in -1..2 : Here(t, n)
    BY <1>1, Located
  <1>3. ~iflag
    BY <1>1, <1>2 DEF Here, Interruptible
  <1>4. /\ pc' = [pc EXCEPT ![t] = "pop_dec"] /\ ret' = [ret EXCEPT ![t] = ret[t]]
        /\ "pop_dec" \in Labels \ {"off"} /\ ret[t] \in Seq(Labels)
    BY <1>1, <1>2, <1>3, Returns
       DEF PopCheck, Goto, Call, Return, Here, PlaceAt, AcquirePlace,
           ReleasePlace, Push, IInv, Types, Labels
  <1>5. /\ t = Runner /\ Runner' = t
        /\ pc'[t] = "pop_dec" /\ ret'[t] = ret[t]
        /\ \A u \in Threads \ {t} : pc'[u] = pc[u] /\ ret'[u] = ret[u]
        /\ pc' \in [Threads -> Labels] /\ ret' \in [Threads -> Seq(Labels)]
    BY <1>1, <1>4, Moves
  <1>6. Types'
    BY <1>1, <1>2, <1>5, <1>3 DEF PopCheck, IInv, Types
  <1>7. Windows'
    <2>1. CASE t = Base
      BY <1>1, <1>2, <1>5, <1>3, <2>1, SpinAssumption, Returns
         DEF PopCheck, IInv, Types, Windows, Interruptible, Runner, Threads,
             Here, PlaceAt, AcquirePlace, ReleasePlace, Push
    <2>2. CASE t = Irq
      BY <1>1, <1>2, <1>5, <1>3, <2>2, SpinAssumption, Returns
         DEF PopCheck, IInv, Types, Windows, Interruptible, Runner, Threads,
             Here, PlaceAt, AcquirePlace, ReleasePlace, Push
    <2> QED BY <1>2, <2>1, <2>2 DEF Here
  <1>8. Place(t)'
    BY <1>1, <1>2, <1>5, <1>3, Returns
       DEF PopCheck, Place, Here, PlaceAt, AcquirePlace, ReleasePlace, Push,
           IInv, Types
  <1>9. LocksOf(t)'
    <2>1. UNCHANGED <<locked, lkcpu, own, lk, res>>
      BY <1>1, <1>2, <1>3 DEF PopCheck
    <2> QED BY <1>1, <1>2, <1>5, <2>1 DEF Here, LocksOf
  <1>10. EntryOf(t)'
    BY <1>1, <1>2, <1>5, <1>3, Returns
       DEF PopCheck, EntryOf, Begun, Here, PlaceAt, AcquirePlace, ReleasePlace,
           Push, IInv, Types
  <1> QED BY <1>5, <1>6, <1>7, <1>8, <1>9, <1>10 DEF IInv

(* There is a pushcli for popcli to undo.                                  *)
LEMMA PopDecStep == ASSUME IInv, NEW t \in Threads, PopDec(t) PROVE IInv'
  <1>1. Running(t) /\ pc[t] = "pop_dec"
    BY DEF PopDec, At
  <1>2. PICK n \in -1..2 : Here(t, n)
    BY <1>1, Located
  <1>3. ncli \in Int /\ ~(ncli - 1 < 0)
    BY <1>1, <1>2 DEF Here, PlaceAt, AcquirePlace, ReleasePlace, Push
  <1>4. /\ pc' = [pc EXCEPT ![t] = "pop_sti"] /\ ret' = [ret EXCEPT ![t] = ret[t]]
        /\ "pop_sti" \in Labels \ {"off"} /\ ret[t] \in Seq(Labels)
    BY <1>1, <1>2, <1>3, Returns
       DEF PopDec, Goto, Call, Return, Here, PlaceAt, AcquirePlace,
           ReleasePlace, Push, IInv, Types, Labels
  <1>5. /\ t = Runner /\ Runner' = t
        /\ pc'[t] = "pop_sti" /\ ret'[t] = ret[t]
        /\ \A u \in Threads \ {t} : pc'[u] = pc[u] /\ ret'[u] = ret[u]
        /\ pc' \in [Threads -> Labels] /\ ret' \in [Threads -> Seq(Labels)]
    BY <1>1, <1>4, Moves
  <1>6. Types'
    <2>1. ncli' \in Int
      BY <1>3 DEF PopDec
    <2>2. halt' = halt
      BY <1>3 DEF PopDec
    <2> QED BY <1>5, <2>1, <2>2 DEF PopDec, IInv, Types
  <1>7. Windows'
    <2>1. ~iflag /\ (ncli' > 0 => ncli > 0)
      BY <1>1, <1>2, <1>3 DEF PopDec, Here, Interruptible
    <2>2. UNCHANGED <<iflag, intena, own, eflags>>
      BY DEF PopDec
    <2> QED BY <1>1, <1>2, <1>5, <2>1, <2>2, SpinAssumption
               DEF IInv, Types, Windows, Interruptible, Runner, Threads, Here
  <1>8. Place(t)'
    <2>1. ncli' = Cardinality(own'[t]) + (n - 1) /\ UNCHANGED <<own, lk>>
      BY <1>2 DEF PopDec, Here, PlaceAt
    <2>2. /\ n \in {0, 1, 2}
          /\ \/ AcquirePlace(t, n - 1)' /\ lk[t] \notin own[t]
             \/ ReleasePlace(t, n - 1)' /\ lk[t] \in own[t]
      BY <1>1, <1>2, <1>5, Returns
         DEF Here, PlaceAt, AcquirePlace, ReleasePlace, Push
    <2> QED BY <2>1, <2>2 DEF Place, PlaceAt
  <1>9. LocksOf(t)'
    <2>1. /\ locked' = locked /\ lkcpu' = lkcpu /\ own' = own
          /\ lk' = lk /\ res' = res
      BY <1>3 DEF PopDec
    <2>2. LocksOf(t)
      BY <1>2 DEF Here
    <2> QED BY <1>1, <1>5, <2>1, <2>2 DEF LocksOf
  <1>10. EntryOf(t)'
    BY <1>1, <1>2, <1>5, <1>3, Returns
       DEF PopDec, EntryOf, Begun, Here, PlaceAt, AcquirePlace, ReleasePlace,
           Push, IInv, Types
  <1> QED BY <1>5, <1>6, <1>7, <1>8, <1>9, <1>10 DEF IInv

(* The popcli of holding never enables interrupts, that of release only with*)
(* the last lock gone.                                                     *)
LEMMA PopStiStep == ASSUME IInv, NEW t \in Threads, PopSti(t) PROVE IInv'
  <1>1. Running(t) /\ pc[t] = "pop_sti"
    BY DEF PopSti, At
  <1>2. PICK n \in -1..2 : Here(t, n)
    BY <1>1, Located
  <1>3. \/ ret[t] = ToHeld /\ n = 1 /\ lk[t] \notin own[t] /\ ncli # 0
        \/ ret[t] = ToRelHeld /\ n = 0 /\ lk[t] \in own[t] /\ ncli # 0
        \/ ret[t] = ToCaller /\ n = -1 /\ lk[t] \in own[t] /\ ncli >= 0
    BY <1>1, <1>2 DEF Here, PlaceAt, AcquirePlace, ReleasePlace, Push
  <1>4. /\ pc' = [pc EXCEPT ![t] = Head(ret[t])] /\ ret' = [ret EXCEPT ![t] = Tail(ret[t])]
        /\ Head(ret[t]) \in Labels \ {"off"} /\ Tail(ret[t]) \in Seq(Labels)
    BY <1>1, <1>2, <1>3, Returns
       DEF PopSti, Goto, Call, Return, Here, PlaceAt, AcquirePlace,
           ReleasePlace, Push, IInv, Types, Labels
  <1>5. /\ t = Runner /\ Runner' = t
        /\ pc'[t] = Head(ret[t]) /\ ret'[t] = Tail(ret[t])
        /\ \A u \in Threads \ {t} : pc'[u] = pc[u] /\ ret'[u] = ret[u]
        /\ pc' \in [Threads -> Labels] /\ ret' \in [Threads -> Seq(Labels)]
    BY <1>1, <1>4, Moves
  <1>6. Types'
    <2>1. own' \in [Threads -> SUBSET Locks] /\ entry' \in Entries \cup {NoCall}
      <3>1. entry \in Entries \cup {NoCall} /\ own \in [Threads -> SUBSET Locks]
        BY DEF IInv, Types
      <3>2. \/ entry' = entry /\ own' = own
            \/ entry' = NoCall /\ own' = [own EXCEPT ![t] = @ \ {lk[t]}]
        BY DEF PopSti
      <3> QED BY <3>1, <3>2
    <2>2. /\ iflag' = (iflag \/ (ncli = 0 /\ intena))
          /\ UNCHANGED <<ncli, intena, locked, lkcpu, lk, eflags, res, halt>>
      BY DEF PopSti
    <2> QED BY <1>5, <2>1, <2>2 DEF IInv, Types
  <1>7. Windows'
    <2>1. CASE ret[t] # ToCaller
      <3>1. UNCHANGED <<iflag, ncli, intena, own, eflags>>
        BY <1>3, <2>1 DEF PopSti, ToCaller, IInv, Types
      <3>2. pc'[t] \in {"acq_held", "rel_held"}
        BY <1>5, <1>3, <2>1, Returns
      <3> QED BY <1>1, <1>2, <1>5, <1>3, <3>1, <3>2, SpinAssumption
                 DEF IInv, Types, Windows, Interruptible, Runner, Threads, Here
    <2>2. CASE ret[t] = ToCaller
      <3>1. /\ own'[t] = own[t] \ {lk[t]} /\ UNCHANGED <<ncli, intena, eflags>>
            /\ \A u \in Threads \ {t} : own'[u] = own[u]
            /\ iflag' = (ncli = 0 /\ intena)
        BY <1>1, <1>2, <2>2
           DEF PopSti, ToCaller, IInv, Types, Here, Interruptible
      <3>2. pc'[t] = "idle" /\ ret'[t] = NoReturn
        BY <1>5, <2>2, Returns
      <3>3. ncli = Cardinality(own[t]) - 1 /\ own[t] # {}
        BY <1>2, <1>3, <2>2, Returns DEF Here, PlaceAt
      <3>4. ncli = 0 => own'[t] = {}
        <4> SUFFICES ASSUME ncli = 0 PROVE own'[t] = {}
          OBVIOUS
        <4>1. Cardinality(own[t] \ {lk[t]}) = 0
          BY <1>2, <1>3, <2>2, <3>3, Returns DEF Here
        <4>2. IsFiniteSet(own[t] \ {lk[t]})
          BY SpinAssumption, FS_Subset, FS_Difference DEF IInv, Types
        <4> QED BY <3>1, <4>1, <4>2, FS_EmptySet
      <3>5. t = Irq => ~iflag'
        BY <1>1, <1>2, <3>1, <3>3, SpinAssumption DEF IInv, Windows
      <3> QED BY <1>1, <1>2, <1>5, <3>1, <3>2, <3>3, <3>4, <3>5, SpinAssumption
                 DEF IInv, Types, Windows, Interruptible, Runner, Threads, Here
    <2> QED BY <2>1, <2>2
  <1>8. Place(t)'
    <2>1. CASE ret[t] # ToCaller
      <3>1. UNCHANGED <<ncli, own, lk>>
        BY <1>3, <2>1 DEF PopSti, ToCaller
      <3>2. \/ AcquirePlace(t, n)' /\ lk[t] \notin own[t]
            \/ ReleasePlace(t, n)' /\ lk[t] \in own[t]
        BY <1>5, <1>3, <2>1, Returns DEF AcquirePlace, ReleasePlace
      <3> QED BY <1>2, <3>1, <3>2 DEF Here, Place, PlaceAt
    <2>2. CASE ret[t] = ToCaller
      <3>1. own'[t] = own[t] \ {lk[t]} /\ ncli' = ncli
        BY <2>2 DEF PopSti, ToCaller, IInv, Types
      <3>2. ncli' = Cardinality(own'[t]) + 0
        BY <1>2, <1>3, <2>2, <3>1, Returns, SMTT(60) DEF Here, PlaceAt
      <3>3. pc'[t] = "idle" /\ ret'[t] = NoReturn
        BY <1>5, <2>2, Returns
      <3> QED BY <3>2, <3>3 DEF Place, PlaceAt
    <2> QED BY <2>1, <2>2
  <1>9. LocksOf(t)'
    <2>1. CASE ret[t] # ToCaller
      <3>1. UNCHANGED <<locked, lkcpu, own, lk, res>>
        BY <2>1 DEF PopSti, ToCaller
      <3>2. \/ ret[t] = ToHeld /\ pc'[t] = "acq_held" /\ ret'[t] = NoReturn
            \/ ret[t] = ToRelHeld /\ pc'[t] = "rel_held" /\ ret'[t] = NoReturn
        BY <1>5, <1>3, <2>1, Returns
      <3> QED BY <1>1, <1>2, <3>1, <3>2, Returns DEF Here, LocksOf
    <2>2. CASE ret[t] = ToCaller
      <3>1. own'[t] = own[t] \ {lk[t]} /\ UNCHANGED <<locked, lkcpu, lk, res>>
        BY <2>2 DEF PopSti, ToCaller, IInv, Types
      <3>2. pc'[t] = "idle" /\ ret'[t] = NoReturn
        BY <1>5, <2>2, Returns
      <3> QED BY <1>1, <1>2, <2>2, <3>1, <3>2, Returns DEF Here, LocksOf
    <2> QED BY <2>1, <2>2
  <1>10. EntryOf(t)'
    <2>1. CASE ret[t] # ToCaller
      <3>1. UNCHANGED <<intena, own, entry>>
        BY <2>1 DEF PopSti, ToCaller
      <3>2. pc'[t] \in {"acq_held", "rel_held"}
        BY <1>5, <1>3, <2>1, Returns
      <3> QED BY <1>1, <1>2, <3>1, <3>2 DEF Here, EntryOf, Begun
    <2>2. CASE ret[t] = ToCaller
      <3>1. entry' = NoCall /\ pc'[t] = "idle"
        BY <1>5, <2>2, Returns DEF PopSti, ToCaller
      <3> QED BY <3>1 DEF EntryOf, Begun
    <2> QED BY <2>1, <2>2
  <1> QED BY <1>5, <1>6, <1>7, <1>8, <1>9, <1>10 DEF IInv

(* What holding returns is whether the thread has acquired the lock.       *)
LEMMA HoldReadStep == ASSUME IInv, NEW t \in Threads, HoldRead(t) PROVE IInv'
  <1>1. Running(t) /\ pc[t] = "hold_read"
    BY DEF HoldRead, At
  <1>2. PICK n \in -1..2 : Here(t, n)
    BY <1>1, Located
  <1>3. /\ pc' = [pc EXCEPT ![t] = "pop_check"] /\ ret' = [ret EXCEPT ![t] = ret[t]]
        /\ "pop_check" \in Labels \ {"off"} /\ ret[t] \in Seq(Labels)
    BY <1>1, <1>2, Returns
       DEF HoldRead, Goto, Call, Return, Here, PlaceAt, AcquirePlace,
           ReleasePlace, Push, IInv, Types, Labels
  <1>4. /\ t = Runner /\ Runner' = t
        /\ pc'[t] = "pop_check" /\ ret'[t] = ret[t]
        /\ \A u \in Threads \ {t} : pc'[u] = pc[u] /\ ret'[u] = ret[u]
        /\ pc' \in [Threads -> Labels] /\ ret' \in [Threads -> Seq(Labels)]
    BY <1>1, <1>3, Moves
  <1>5. Types'
    BY <1>1, <1>2, <1>4 DEF HoldRead, IInv, Types
  <1>6. Windows'
    <2>1. CASE t = Base
      BY <1>1, <1>2, <1>4, <2>1, SpinAssumption, Returns
         DEF HoldRead, IInv, Types, Windows, Interruptible, Runner, Threads,
             Here, PlaceAt, AcquirePlace, ReleasePlace, Push
    <2>2. CASE t = Irq
      BY <1>1, <1>2, <1>4, <2>2, SpinAssumption, Returns
         DEF HoldRead, IInv, Types, Windows, Interruptible, Runner, Threads,
             Here, PlaceAt, AcquirePlace, ReleasePlace, Push
    <2> QED BY <1>2, <2>1, <2>2 DEF Here
  <1>7. Place(t)'
    BY <1>1, <1>2, <1>4, Returns
       DEF HoldRead, Place, Here, PlaceAt, AcquirePlace, ReleasePlace, Push,
           IInv, Types
  <1>8. LocksOf(t)'
    <2>1. /\ locked' = locked /\ lkcpu' = lkcpu /\ own' = own
          /\ lk' = lk /\ res' = [res EXCEPT ![t] = locked[lk[t]] /\ lkcpu[lk[t]]]
      BY DEF HoldRead
    <2>2. LocksOf(t) /\ lk[t] \in Locks
      BY <1>2 DEF Here, IInv, Types
    <2>3. \/ ret[t] = ToHeld /\ lk[t] \notin own[t]
          \/ ret[t] = ToRelHeld /\ lk[t] \in own[t]
      BY <1>1, <1>2, Returns DEF Here, PlaceAt, AcquirePlace, ReleasePlace, Push
    <2>4. lk[t] \in own[t] => locked[lk[t]] /\ lkcpu[lk[t]]
      BY <1>1, <2>2, <2>3, Returns DEF LocksOf
    <2>5. lk[t] \notin own[t] => ~lkcpu[lk[t]]
      BY <2>2 DEF LocksOf
    <2>6. res'[t] <=> lk[t] \in own[t]
      BY <2>1, <2>4, <2>5 DEF IInv, Types
    <2>7. ret[t] # ToCaller /\ (ret[t] = ToHeld => ret[t] # ToRelHeld)
      BY <2>3, Returns
    <2> QED BY <1>1, <1>4, <2>1, <2>2, <2>3, <2>6, <2>7 DEF LocksOf
  <1>9. EntryOf(t)'
    BY <1>1, <1>2, <1>4, Returns
       DEF HoldRead, EntryOf, Begun, Here, PlaceAt, AcquirePlace, ReleasePlace,
           Push, IInv, Types
  <1> QED BY <1>4, <1>5, <1>6, <1>7, <1>8, <1>9 DEF IInv

(* acquire calls holding.                                                  *)
LEMMA AcqHoldStep == ASSUME IInv, NEW t \in Threads, AcqHold(t) PROVE IInv'
  <1>1. Running(t) /\ pc[t] = "acq_hold"
    BY DEF AcqHold, At
  <1>2. PICK n \in -1..2 : Here(t, n)
    BY <1>1, Located
  <1>3. /\ pc' = [pc EXCEPT ![t] = "push_read"] /\ ret' = [ret EXCEPT ![t] = HoldingAcquire]
        /\ "push_read" \in Labels \ {"off"} /\ HoldingAcquire \in Seq(Labels)
    BY <1>1, <1>2, Returns
       DEF AcqHold, Goto, Call, Return, Here, PlaceAt, AcquirePlace,
           ReleasePlace, Push, IInv, Types, Labels, HoldingAcquire, NoReturn
  <1>4. /\ t = Runner /\ Runner' = t
        /\ pc'[t] = "push_read" /\ ret'[t] = HoldingAcquire
        /\ \A u \in Threads \ {t} : pc'[u] = pc[u] /\ ret'[u] = ret[u]
        /\ pc' \in [Threads -> Labels] /\ ret' \in [Threads -> Seq(Labels)]
    BY <1>1, <1>3, Moves
  <1>5. Types'
    BY <1>1, <1>2, <1>4 DEF AcqHold, IInv, Types
  <1>6. Windows'
    <2>1. CASE t = Base
      BY <1>1, <1>2, <1>4, <2>1, SpinAssumption, Returns
         DEF AcqHold, IInv, Types, Windows, Interruptible, Runner, Threads,
             Here, PlaceAt, AcquirePlace, ReleasePlace, Push
    <2>2. CASE t = Irq
      BY <1>1, <1>2, <1>4, <2>2, SpinAssumption, Returns
         DEF AcqHold, IInv, Types, Windows, Interruptible, Runner, Threads,
             Here, PlaceAt, AcquirePlace, ReleasePlace, Push
    <2> QED BY <1>2, <2>1, <2>2 DEF Here
  <1>7. Place(t)'
    BY <1>1, <1>2, <1>4, Returns
       DEF AcqHold, Place, Here, PlaceAt, AcquirePlace, ReleasePlace, Push,
           IInv, Types
  <1>8. LocksOf(t)'
    BY <1>1, <1>2, <1>4, Returns
       DEF AcqHold, LocksOf, Here, PlaceAt, AcquirePlace, ReleasePlace, Push,
           IInv, Types
  <1>9. EntryOf(t)'
    BY <1>1, <1>2, <1>4, Returns
       DEF AcqHold, EntryOf, Begun, Here, PlaceAt, AcquirePlace, ReleasePlace,
           Push, IInv, Types
  <1> QED BY <1>4, <1>5, <1>6, <1>7, <1>8, <1>9 DEF IInv

(* The lock is not one that the thread has acquired, so there is no panic. *)
LEMMA AcqHeldStep == ASSUME IInv, NEW t \in Threads, AcqHeld(t) PROVE IInv'
  <1>1. Running(t) /\ pc[t] = "acq_held"
    BY DEF AcqHeld, At
  <1>2. PICK n \in -1..2 : Here(t, n)
    BY <1>1, Located
  <1>3. ~res[t]
    BY <1>1, <1>2 DEF Here, LocksOf
  <1>4. /\ pc' = [pc EXCEPT ![t] = "acq_xchg"] /\ ret' = [ret EXCEPT ![t] = NoReturn]
        /\ "acq_xchg" \in Labels \ {"off"} /\ NoReturn \in Seq(Labels)
    BY <1>1, <1>2, <1>3, Returns, ZenonT(60)
       DEF AcqHeld, Goto, Call, Return, Here, PlaceAt, AcquirePlace,
           ReleasePlace, Push, IInv, Types, Labels
  <1>5. /\ t = Runner /\ Runner' = t
        /\ pc'[t] = "acq_xchg" /\ ret'[t] = NoReturn
        /\ \A u \in Threads \ {t} : pc'[u] = pc[u] /\ ret'[u] = ret[u]
        /\ pc' \in [Threads -> Labels] /\ ret' \in [Threads -> Seq(Labels)]
    BY <1>1, <1>4, Moves
  <1>6. Types'
    BY <1>1, <1>2, <1>5, <1>3 DEF AcqHeld, IInv, Types
  <1>7. Windows'
    <2>1. CASE t = Base
      BY <1>1, <1>2, <1>5, <1>3, <2>1, SpinAssumption, Returns
         DEF AcqHeld, IInv, Types, Windows, Interruptible, Runner, Threads,
             Here, PlaceAt, AcquirePlace, ReleasePlace, Push
    <2>2. CASE t = Irq
      BY <1>1, <1>2, <1>5, <1>3, <2>2, SpinAssumption, Returns
         DEF AcqHeld, IInv, Types, Windows, Interruptible, Runner, Threads,
             Here, PlaceAt, AcquirePlace, ReleasePlace, Push
    <2> QED BY <1>2, <2>1, <2>2 DEF Here
  <1>8. Place(t)'
    BY <1>1, <1>2, <1>5, <1>3, Returns
       DEF AcqHeld, Place, Here, PlaceAt, AcquirePlace, ReleasePlace, Push,
           IInv, Types
  <1>9. LocksOf(t)'
    <2>1. /\ locked' = locked /\ lkcpu' = lkcpu /\ own' = own
          /\ lk' = lk /\ res' = res
      BY <1>3 DEF AcqHeld
    <2>2. ret[t] = NoReturn /\ LocksOf(t)
      BY <1>1, <1>2 DEF Here, PlaceAt, AcquirePlace, ReleasePlace, Push
    <2>3. ret[t] # ToCaller /\ ret[t] # ToHeld /\ ret[t] # ToRelHeld
      BY <2>2, Returns
    <2> QED BY <1>1, <1>5, <2>1, <2>2, <2>3 DEF LocksOf
  <1>10. EntryOf(t)'
    BY <1>1, <1>2, <1>5, <1>3, Returns
       DEF AcqHeld, EntryOf, Begun, Here, PlaceAt, AcquirePlace, ReleasePlace,
           Push, IInv, Types
  <1> QED BY <1>5, <1>6, <1>7, <1>8, <1>9, <1>10 DEF IInv

(* Nobody else has it either, so the first xchg takes it.                  *)
LEMMA AcqXchgStep == ASSUME IInv, NEW t \in Threads, AcqXchg(t) PROVE IInv'
  <1>1. Running(t) /\ pc[t] = "acq_xchg"
    BY DEF AcqXchg, At
  <1>2. PICK n \in -1..2 : Here(t, n)
    BY <1>1, Located
  <1>3. ~locked[lk[t]] /\ ret[t] = NoReturn
    BY <1>1, <1>2, Returns
       DEF Here, PlaceAt, AcquirePlace, ReleasePlace, Push, LocksOf, IInv, Types
  <1>4. /\ pc' = [pc EXCEPT ![t] = "acq_cpu"] /\ ret' = [ret EXCEPT ![t] = NoReturn]
        /\ "acq_cpu" \in Labels \ {"off"} /\ NoReturn \in Seq(Labels)
    BY <1>1, <1>2, <1>3, Returns
       DEF AcqXchg, Goto, Call, Return, Here, PlaceAt, AcquirePlace,
           ReleasePlace, Push, IInv, Types, Labels
  <1>5. /\ t = Runner /\ Runner' = t
        /\ pc'[t] = "acq_cpu" /\ ret'[t] = NoReturn
        /\ \A u \in Threads \ {t} : pc'[u] = pc[u] /\ ret'[u] = ret[u]
        /\ pc' \in [Threads -> Labels] /\ ret' \in [Threads -> Seq(Labels)]
    BY <1>1, <1>4, Moves
  <1>6. Types'
    BY <1>1, <1>2, <1>5, <1>3 DEF AcqXchg, IInv, Types
  <1>7. Windows'
    <2>1. CASE t = Base
      BY <1>1, <1>2, <1>5, <1>3, <2>1, SpinAssumption, Returns
         DEF AcqXchg, IInv, Types, Windows, Interruptible, Runner, Threads,
             Here, PlaceAt, AcquirePlace, ReleasePlace, Push
    <2>2. CASE t = Irq
      BY <1>1, <1>2, <1>5, <1>3, <2>2, SpinAssumption, Returns
         DEF AcqXchg, IInv, Types, Windows, Interruptible, Runner, Threads,
             Here, PlaceAt, AcquirePlace, ReleasePlace, Push
    <2> QED BY <1>2, <2>1, <2>2 DEF Here
  <1>8. Place(t)'
    BY <1>1, <1>2, <1>5, <1>3, Returns
       DEF AcqXchg, Place, Here, PlaceAt, AcquirePlace, ReleasePlace, Push,
           IInv, Types
  <1>9. LocksOf(t)'
    BY <1>1, <1>2, <1>5, <1>3, Returns
       DEF AcqXchg, LocksOf, Here, PlaceAt, AcquirePlace, ReleasePlace, Push,
           IInv, Types
  <1>10. EntryOf(t)'
    BY <1>1, <1>2, <1>5, <1>3, Returns
       DEF AcqXchg, EntryOf, Begun, Here, PlaceAt, AcquirePlace, ReleasePlace,
           Push, IInv, Types
  <1> QED BY <1>5, <1>6, <1>7, <1>8, <1>9, <1>10 DEF IInv

(* The lock is in own from here, and the pushcli counts for it.            *)
LEMMA AcqCpuStep == ASSUME IInv, NEW t \in Threads, AcqCpu(t) PROVE IInv'
  <1>1. Running(t) /\ pc[t] = "acq_cpu"
    BY DEF AcqCpu, At
  <1>2. PICK n \in -1..2 : Here(t, n)
    BY <1>1, Located
  <1>3. ncli > 0 /\ n = 1 /\ lk[t] \notin own[t] /\ ret[t] = NoReturn
    BY <1>1, <1>2, Returns DEF Here, PlaceAt, AcquirePlace, ReleasePlace, Push
  <1>4. /\ pc' = [pc EXCEPT ![t] = "idle"] /\ ret' = [ret EXCEPT ![t] = NoReturn]
        /\ "idle" \in Labels \ {"off"} /\ NoReturn \in Seq(Labels)
    BY <1>1, <1>2, <1>3, Returns
       DEF AcqCpu, Goto, Call, Return, Here, PlaceAt, AcquirePlace,
           ReleasePlace, Push, IInv, Types, Labels
  <1>5. /\ t = Runner /\ Runner' = t
        /\ pc'[t] = "idle" /\ ret'[t] = NoReturn
        /\ \A u \in Threads \ {t} : pc'[u] = pc[u] /\ ret'[u] = ret[u]
        /\ pc' \in [Threads -> Labels] /\ ret' \in [Threads -> Seq(Labels)]
    BY <1>1, <1>4, Moves
  <1>6. Types'
    <2>1. /\ lkcpu' \in [Locks -> BOOLEAN] /\ own' \in [Threads -> SUBSET Locks]
          /\ entry' = NoCall
      BY DEF AcqCpu, IInv, Types
    <2>2. UNCHANGED <<iflag, ncli, intena, locked, lk, eflags, res, halt>>
      BY DEF AcqCpu
    <2> QED BY <1>5, <2>1, <2>2 DEF IInv, Types
  <1>7. Windows'
    <2>1. CASE t = Base
      BY <1>1, <1>2, <1>5, <1>3, <2>1, SpinAssumption, Returns
         DEF AcqCpu, IInv, Types, Windows, Interruptible, Runner, Threads, Here,
             PlaceAt, AcquirePlace, ReleasePlace, Push
    <2>2. CASE t = Irq
      BY <1>1, <1>2, <1>5, <1>3, <2>2, SpinAssumption, Returns
         DEF AcqCpu, IInv, Types, Windows, Interruptible, Runner, Threads, Here,
             PlaceAt, AcquirePlace, ReleasePlace, Push
    <2> QED BY <1>2, <2>1, <2>2 DEF Here
  <1>8. Place(t)'
    <2>1. own'[t] = own[t] \cup {lk[t]} /\ ncli' = ncli
      BY DEF AcqCpu, IInv, Types
    <2>2. ncli' = Cardinality(own'[t]) + 0
      BY <1>2, <1>3, <2>1 DEF Here, PlaceAt
    <2> QED BY <1>5, <2>2 DEF Place, PlaceAt
  <1>9. LocksOf(t)'
    BY <1>1, <1>2, <1>5, <1>3, Returns, ZenonT(60)
       DEF AcqCpu, LocksOf, Here, PlaceAt, AcquirePlace, ReleasePlace, Push,
           IInv, Types
  <1>10. EntryOf(t)'
    BY <1>1, <1>2, <1>5, <1>3, Returns
       DEF AcqCpu, EntryOf, Begun, Here, PlaceAt, AcquirePlace, ReleasePlace,
           Push, IInv, Types
  <1> QED BY <1>5, <1>6, <1>7, <1>8, <1>9, <1>10 DEF IInv

(* The thread has acquired the lock it releases.                           *)
LEMMA RelHeldStep == ASSUME IInv, NEW t \in Threads, RelHeld(t) PROVE IInv'
  <1>1. Running(t) /\ pc[t] = "rel_held"
    BY DEF RelHeld, At
  <1>2. PICK n \in -1..2 : Here(t, n)
    BY <1>1, Located
  <1>3. res[t]
    BY <1>1, <1>2 DEF Here, LocksOf
  <1>4. /\ pc' = [pc EXCEPT ![t] = "rel_cpu"] /\ ret' = [ret EXCEPT ![t] = NoReturn]
        /\ "rel_cpu" \in Labels \ {"off"} /\ NoReturn \in Seq(Labels)
    <2>1. ret[t] = NoReturn
      BY <1>1, <1>2, Returns DEF Here, PlaceAt, AcquirePlace, ReleasePlace, Push
    <2> QED BY <1>3, <2>1, Returns DEF RelHeld, Goto, IInv, Types, Labels
  <1>5. /\ t = Runner /\ Runner' = t
        /\ pc'[t] = "rel_cpu" /\ ret'[t] = NoReturn
        /\ \A u \in Threads \ {t} : pc'[u] = pc[u] /\ ret'[u] = ret[u]
        /\ pc' \in [Threads -> Labels] /\ ret' \in [Threads -> Seq(Labels)]
    BY <1>1, <1>4, Moves
  <1>6. Types'
    BY <1>1, <1>2, <1>5, <1>3 DEF RelHeld, IInv, Types
  <1>7. Windows'
    <2>1. CASE t = Base
      BY <1>1, <1>2, <1>5, <1>3, <2>1, SpinAssumption, Returns
         DEF RelHeld, IInv, Types, Windows, Interruptible, Runner, Threads,
             Here, PlaceAt, AcquirePlace, ReleasePlace, Push
    <2>2. CASE t = Irq
      BY <1>1, <1>2, <1>5, <1>3, <2>2, SpinAssumption, Returns
         DEF RelHeld, IInv, Types, Windows, Interruptible, Runner, Threads,
             Here, PlaceAt, AcquirePlace, ReleasePlace, Push
    <2> QED BY <1>2, <2>1, <2>2 DEF Here
  <1>8. Place(t)'
    BY <1>1, <1>2, <1>5, <1>3, Returns
       DEF RelHeld, Place, Here, PlaceAt, AcquirePlace, ReleasePlace, Push,
           IInv, Types
  <1>9. LocksOf(t)'
    <2>1. /\ locked' = locked /\ lkcpu' = lkcpu /\ own' = own
          /\ lk' = lk /\ res' = res
      BY <1>3 DEF RelHeld
    <2>2. ret[t] = NoReturn /\ LocksOf(t)
      BY <1>1, <1>2 DEF Here, PlaceAt, AcquirePlace, ReleasePlace, Push
    <2>3. ret[t] # ToCaller /\ ret[t] # ToHeld /\ ret[t] # ToRelHeld
      BY <2>2, Returns
    <2> QED BY <1>1, <1>5, <2>1, <2>2, <2>3 DEF LocksOf
  <1>10. EntryOf(t)'
    BY <1>1, <1>2, <1>5, <1>3, Returns
       DEF RelHeld, EntryOf, Begun, Here, PlaceAt, AcquirePlace, ReleasePlace,
           Push, IInv, Types
  <1> QED BY <1>5, <1>6, <1>7, <1>8, <1>9, <1>10 DEF IInv

(* release forgets the holder first ...                                    *)
LEMMA RelCpuStep == ASSUME IInv, NEW t \in Threads, RelCpu(t) PROVE IInv'
  <1>1. Running(t) /\ pc[t] = "rel_cpu"
    BY DEF RelCpu, At
  <1>2. PICK n \in -1..2 : Here(t, n)
    BY <1>1, Located
  <1>3. /\ pc' = [pc EXCEPT ![t] = "rel_free"] /\ ret' = [ret EXCEPT ![t] = NoReturn]
        /\ "rel_free" \in Labels \ {"off"} /\ NoReturn \in Seq(Labels)
    BY <1>1, <1>2, Returns
       DEF RelCpu, Goto, Call, Return, Here, PlaceAt, AcquirePlace,
           ReleasePlace, Push, IInv, Types, Labels
  <1>4. /\ t = Runner /\ Runner' = t
        /\ pc'[t] = "rel_free" /\ ret'[t] = NoReturn
        /\ \A u \in Threads \ {t} : pc'[u] = pc[u] /\ ret'[u] = ret[u]
        /\ pc' \in [Threads -> Labels] /\ ret' \in [Threads -> Seq(Labels)]
    BY <1>1, <1>3, Moves
  <1>5. Types'
    BY <1>1, <1>2, <1>4 DEF RelCpu, IInv, Types
  <1>6. Windows'
    <2>1. CASE t = Base
      BY <1>1, <1>2, <1>4, <2>1, SpinAssumption, Returns
         DEF RelCpu, IInv, Types, Windows, Interruptible, Runner, Threads, Here,
             PlaceAt, AcquirePlace, ReleasePlace, Push
    <2>2. CASE t = Irq
      BY <1>1, <1>2, <1>4, <2>2, SpinAssumption, Returns
         DEF RelCpu, IInv, Types, Windows, Interruptible, Runner, Threads, Here,
             PlaceAt, AcquirePlace, ReleasePlace, Push
    <2> QED BY <1>2, <2>1, <2>2 DEF Here
  <1>7. Place(t)'
    BY <1>1, <1>2, <1>4, Returns
       DEF RelCpu, Place, Here, PlaceAt, AcquirePlace, ReleasePlace, Push, IInv,
           Types
  <1>8. LocksOf(t)'
    BY <1>1, <1>2, <1>4, Returns
       DEF RelCpu, LocksOf, Here, PlaceAt, AcquirePlace, ReleasePlace, Push,
           IInv, Types
  <1>9. EntryOf(t)'
    BY <1>1, <1>2, <1>4, Returns
       DEF RelCpu, EntryOf, Begun, Here, PlaceAt, AcquirePlace, ReleasePlace,
           Push, IInv, Types
  <1> QED BY <1>4, <1>5, <1>6, <1>7, <1>8, <1>9 DEF IInv

(* ... and then frees the lock.                                            *)
LEMMA RelFreeStep == ASSUME IInv, NEW t \in Threads, RelFree(t) PROVE IInv'
  <1>1. Running(t) /\ pc[t] = "rel_free"
    BY DEF RelFree, At
  <1>2. PICK n \in -1..2 : Here(t, n)
    BY <1>1, Located
  <1>3. /\ pc' = [pc EXCEPT ![t] = "pop_check"] /\ ret' = [ret EXCEPT ![t] = ToCaller]
        /\ "pop_check" \in Labels \ {"off"} /\ ToCaller \in Seq(Labels)
    BY <1>1, <1>2, Returns
       DEF RelFree, Goto, Call, Return, Here, PlaceAt, AcquirePlace,
           ReleasePlace, Push, IInv, Types, Labels, ToCaller, NoReturn
  <1>4. /\ t = Runner /\ Runner' = t
        /\ pc'[t] = "pop_check" /\ ret'[t] = ToCaller
        /\ \A u \in Threads \ {t} : pc'[u] = pc[u] /\ ret'[u] = ret[u]
        /\ pc' \in [Threads -> Labels] /\ ret' \in [Threads -> Seq(Labels)]
    BY <1>1, <1>3, Moves
  <1>5. Types'
    BY <1>1, <1>2, <1>4 DEF RelFree, IInv, Types
  <1>6. Windows'
    <2>1. CASE t = Base
      BY <1>1, <1>2, <1>4, <2>1, SpinAssumption, Returns
         DEF RelFree, IInv, Types, Windows, Interruptible, Runner, Threads,
             Here, PlaceAt, AcquirePlace, ReleasePlace, Push
    <2>2. CASE t = Irq
      BY <1>1, <1>2, <1>4, <2>2, SpinAssumption, Returns
         DEF RelFree, IInv, Types, Windows, Interruptible, Runner, Threads,
             Here, PlaceAt, AcquirePlace, ReleasePlace, Push
    <2> QED BY <1>2, <2>1, <2>2 DEF Here
  <1>7. Place(t)'
    BY <1>1, <1>2, <1>4, Returns
       DEF RelFree, Place, Here, PlaceAt, AcquirePlace, ReleasePlace, Push,
           IInv, Types
  <1>8. LocksOf(t)'
    BY <1>1, <1>2, <1>4, Returns, ZenonT(60)
       DEF RelFree, LocksOf, Here, PlaceAt, AcquirePlace, ReleasePlace, Push,
           IInv, Types
  <1>9. EntryOf(t)'
    BY <1>1, <1>2, <1>4, Returns
       DEF RelFree, EntryOf, Begun, Here, PlaceAt, AcquirePlace, ReleasePlace,
           Push, IInv, Types
  <1> QED BY <1>4, <1>5, <1>6, <1>7, <1>8, <1>9 DEF IInv

(* A call of acquire begins in its pushcli.                                *)
LEMMA CallAcquireStep == ASSUME IInv, NEW t \in Threads, NEW l \in Locks, CallAcquire(t, l) PROVE IInv'
  <1>1. Running(t) /\ pc[t] = "idle"
    BY DEF CallAcquire, At
  <1>2. PICK n \in -1..2 : Here(t, n)
    BY <1>1, Located
  <1>3. /\ pc' = [pc EXCEPT ![t] = "push_read"] /\ ret' = [ret EXCEPT ![t] = ToAcquire]
        /\ "push_read" \in Labels \ {"off"} /\ ToAcquire \in Seq(Labels)
    BY <1>1, <1>2, Returns
       DEF CallAcquire, Goto, Call, Return, Here, PlaceAt, AcquirePlace,
           ReleasePlace, Push, IInv, Types, Labels, ToAcquire, NoReturn
  <1>4. /\ t = Runner /\ Runner' = t
        /\ pc'[t] = "push_read" /\ ret'[t] = ToAcquire
        /\ \A u \in Threads \ {t} : pc'[u] = pc[u] /\ ret'[u] = ret[u]
        /\ pc' \in [Threads -> Labels] /\ ret' \in [Threads -> Seq(Labels)]
    BY <1>1, <1>3, Moves
  <1>5. Types'
    BY <1>1, <1>2, <1>4 DEF CallAcquire, IInv, Types
  <1>6. Windows'
    <2>1. CASE t = Base
      BY <1>1, <1>2, <1>4, <2>1, SpinAssumption, Returns
         DEF CallAcquire, IInv, Types, Windows, Interruptible, Runner, Threads,
             Here, PlaceAt, AcquirePlace, ReleasePlace, Push
    <2>2. CASE t = Irq
      BY <1>1, <1>2, <1>4, <2>2, SpinAssumption, Returns
         DEF CallAcquire, IInv, Types, Windows, Interruptible, Runner, Threads,
             Here, PlaceAt, AcquirePlace, ReleasePlace, Push
    <2> QED BY <1>2, <2>1, <2>2 DEF Here
  <1>7. Place(t)'
    BY <1>1, <1>2, <1>4, Returns
       DEF CallAcquire, Place, Here, PlaceAt, AcquirePlace, ReleasePlace, Push,
           IInv, Types
  <1>8. LocksOf(t)'
    BY <1>1, <1>2, <1>4, Returns
       DEF CallAcquire, LocksOf, Here, PlaceAt, AcquirePlace, ReleasePlace,
           Push, IInv, Types
  <1>9. EntryOf(t)'
    BY <1>1, <1>2, <1>4, Returns
       DEF CallAcquire, EntryOf, Begun, Here, PlaceAt, AcquirePlace,
           ReleasePlace, Push, IInv, Types
  <1> QED BY <1>4, <1>5, <1>6, <1>7, <1>8, <1>9 DEF IInv

(* A call of release begins in the pushcli of holding.                     *)
LEMMA CallReleaseStep == ASSUME IInv, NEW t \in Threads, NEW l \in Locks, CallRelease(t, l) PROVE IInv'
  <1>1. Running(t) /\ pc[t] = "idle"
    BY DEF CallRelease, At
  <1>2. PICK n \in -1..2 : Here(t, n)
    BY <1>1, Located
  <1>3. /\ pc' = [pc EXCEPT ![t] = "push_read"] /\ ret' = [ret EXCEPT ![t] = HoldingRelease]
        /\ "push_read" \in Labels \ {"off"} /\ HoldingRelease \in Seq(Labels)
    BY <1>1, <1>2, Returns
       DEF CallRelease, Goto, Call, Return, Here, PlaceAt, AcquirePlace,
           ReleasePlace, Push, IInv, Types, Labels, HoldingRelease, NoReturn
  <1>4. /\ t = Runner /\ Runner' = t
        /\ pc'[t] = "push_read" /\ ret'[t] = HoldingRelease
        /\ \A u \in Threads \ {t} : pc'[u] = pc[u] /\ ret'[u] = ret[u]
        /\ pc' \in [Threads -> Labels] /\ ret' \in [Threads -> Seq(Labels)]
    BY <1>1, <1>3, Moves
  <1>5. Types'
    BY <1>1, <1>2, <1>4 DEF CallRelease, IInv, Types
  <1>6. Windows'
    <2>1. CASE t = Base
      BY <1>1, <1>2, <1>4, <2>1, SpinAssumption, Returns
         DEF CallRelease, IInv, Types, Windows, Interruptible, Runner, Threads,
             Here, PlaceAt, AcquirePlace, ReleasePlace, Push
    <2>2. CASE t = Irq
      BY <1>1, <1>2, <1>4, <2>2, SpinAssumption, Returns
         DEF CallRelease, IInv, Types, Windows, Interruptible, Runner, Threads,
             Here, PlaceAt, AcquirePlace, ReleasePlace, Push
    <2> QED BY <1>2, <2>1, <2>2 DEF Here
  <1>7. Place(t)'
    BY <1>1, <1>2, <1>4, Returns
       DEF CallRelease, Place, Here, PlaceAt, AcquirePlace, ReleasePlace, Push,
           IInv, Types
  <1>8. LocksOf(t)'
    BY <1>1, <1>2, <1>4, Returns
       DEF CallRelease, LocksOf, Here, PlaceAt, AcquirePlace, ReleasePlace,
           Push, IInv, Types
  <1>9. EntryOf(t)'
    BY <1>1, <1>2, <1>4, Returns
       DEF CallRelease, EntryOf, Begun, Here, PlaceAt, AcquirePlace,
           ReleasePlace, Push, IInv, Types
  <1> QED BY <1>4, <1>5, <1>6, <1>7, <1>8, <1>9 DEF IInv

(* The thread sets IF itself only outside of calls and without a lock.     *)
LEMMA SetIFStep == ASSUME IInv, SetIF PROVE IInv'
  <1>1. Running(Base) /\ pc[Base] = "idle" /\ Base \in Threads /\ own[Base] = {}
    BY DEF SetIF, At, Threads
  <1>2. PICK n \in -1..2 : Here(Base, n)
    BY <1>1, Located
  <1>3. /\ UNCHANGED <<ncli, intena, locked, lkcpu, pc, ret, lk, eflags, res, own, halt, entry>>
        /\ iflag' \in BOOLEAN /\ Base = Runner /\ Runner' = Base /\ pc[Irq] = "off"
    BY <1>2 DEF SetIF, Here, Runner
  <1>4. ret[Base] = NoReturn /\ n = 0
    BY <1>1, <1>2 DEF Here, PlaceAt, AcquirePlace, ReleasePlace, Push
  <1>5. Types'
    BY <1>3 DEF IInv, Types
  <1>6. Windows'
    BY <1>1, <1>3, <1>4 DEF IInv, Windows, Interruptible, Runner
  <1>7. Place(Base)' /\ LocksOf(Base)' /\ EntryOf(Base)'
    BY <1>2, <1>3, ZenonT(60)
       DEF Here, Place, PlaceAt, AcquirePlace, ReleasePlace, LocksOf, EntryOf,
           Begun
  <1> QED BY <1>3, <1>5, <1>6, <1>7 DEF IInv

(* An interrupt finds a thread that holds nothing and has no cli behind it. *)
LEMMA InterruptStep == ASSUME IInv, Interrupt PROVE IInv'
  <1>1. /\ Irq \in Threads /\ Base \in Threads /\ Base # Irq
        /\ pc[Irq] = "off" /\ iflag /\ Runner = Base /\ Running(Base)
        /\ pc[Base] # "off" /\ Interruptible(Base)
    BY SpinAssumption DEF Interrupt, Threads, Runner, Running, IInv, Windows
  <1>2. PICK n \in -1..2 : Here(Base, n)
    BY <1>1, Located
  <1>3. /\ UNCHANGED <<ncli, intena, locked, lkcpu, ret, lk, eflags, res, own, halt, entry>>
        /\ iflag' = FALSE /\ Runner' = Irq
        /\ pc' = [pc EXCEPT ![Irq] = "idle"] /\ pc'[Irq] = "idle" /\ pc'[Base] = pc[Base]
    BY <1>1, SpinAssumption DEF Interrupt, Goto, Runner, IInv, Types
  <1>4. ncli = 0 /\ own[Irq] = {} /\ ret[Irq] = NoReturn
    <2>1. n = 0
      BY <1>1, <1>2, Returns
         DEF Here, PlaceAt, AcquirePlace, ReleasePlace, Push, Interruptible
    <2>2. Cardinality(own[Base]) = 0
      BY <1>1, <1>2 DEF Here, Interruptible
    <2>3. ncli = 0
      BY <1>2, <2>1, <2>2 DEF Here, PlaceAt
    <2> QED BY <1>1, <2>3 DEF IInv, Windows
  <1>5. Types'
    BY <1>3 DEF IInv, Types, Labels
  <1>6. Windows'
    <2>1. pc[Base] = "push_cli" => eflags[Base]
      BY <1>1 DEF IInv, Windows
    <2>2. Interruptible(Base)'
      BY <1>1, <1>3 DEF Interruptible
    <2> QED BY <1>1, <1>3, <1>4, <2>1, <2>2 DEF Windows
  <1>7. Place(Irq)'
    BY <1>3, <1>4, FS_EmptySet DEF Place, PlaceAt
  <1>8. LocksOf(Irq)'
    <2>1. \A l \in Locks : locked[l] = FALSE /\ lkcpu[l] = FALSE
      BY <1>1, <1>2 DEF Here, LocksOf, Interruptible
    <2>2. pc'[Irq] = "idle" /\ own'[Irq] = {} /\ locked' = locked /\ lkcpu' = lkcpu
      BY <1>3, <1>4
    <2> QED BY <2>1, <2>2 DEF LocksOf
  <1>9. EntryOf(Irq)'
    BY <1>1, <1>2, <1>3, Returns DEF Here, EntryOf, Begun, Interruptible
  <1> QED BY <1>3, <1>5, <1>6, <1>7, <1>8, <1>9 DEF IInv

(* The handler has released what it acquired, so the thread goes on as if  *)
(* nothing had happened.                                                   *)
LEMMA InterruptReturnStep == ASSUME IInv, InterruptReturn PROVE IInv'
  <1>1. /\ Irq \in Threads /\ Base \in Threads /\ Base # Irq
        /\ pc[Irq] = "idle" /\ Runner = Irq /\ Running(Irq) /\ own[Irq] = {}
        /\ pc[Base] # "off" /\ Interruptible(Base)
    BY SpinAssumption
       DEF InterruptReturn, At, Threads, Runner, Running, IInv, Windows
  <1>2. PICK n \in -1..2 : Here(Irq, n)
    BY <1>1, Located
  <1>3. /\ UNCHANGED <<ncli, intena, locked, lkcpu, ret, lk, eflags, res, own, halt, entry>>
        /\ iflag' = TRUE /\ Runner' = Base
        /\ pc' = [pc EXCEPT ![Irq] = "off"] /\ pc'[Irq] = "off" /\ pc'[Base] = pc[Base]
    BY <1>1, SpinAssumption DEF InterruptReturn, Goto, Runner, IInv, Types
  <1>4. ncli = 0 /\ ret[Irq] = NoReturn
    <2>1. n = 0 /\ ret[Irq] = NoReturn
      BY <1>1, <1>2 DEF Here, PlaceAt, AcquirePlace, ReleasePlace, Push
    <2>2. Cardinality(own[Irq]) = 0
      BY <1>1, <1>2 DEF Here
    <2> QED BY <1>2, <2>1, <2>2 DEF Here, PlaceAt
  <1>5. Types'
    BY <1>3 DEF IInv, Types, Labels
  <1>6. Windows'
    BY <1>1, <1>3, <1>4 DEF IInv, Windows, Interruptible, Runner
  <1>7. Place(Base)'
    BY <1>1, <1>3, <1>4, FS_EmptySet
       DEF Place, PlaceAt, AcquirePlace, Push, Interruptible
  <1>8. LocksOf(Base)'
    <2>1. \A l \in Locks : locked[l] = FALSE /\ lkcpu[l] = FALSE
      BY <1>1, <1>2 DEF Here, LocksOf
    <2>2. /\ pc'[Base] \in {"idle", "push_read", "push_cli"} /\ own'[Base] = {}
          /\ locked' = locked /\ lkcpu' = lkcpu
      BY <1>1, <1>3 DEF Interruptible
    <2> QED BY <2>1, <2>2 DEF LocksOf
  <1>9. EntryOf(Base)'
    BY <1>1, <1>2, <1>3, Returns DEF Here, EntryOf, Begun, Interruptible
  <1> QED BY <1>3, <1>5, <1>6, <1>7, <1>8, <1>9 DEF IInv

-----------------------------------------------------------------------------
(* The invariant holds                                                     *)

(* No call, no handler, and every lock free.                                *)
LEMMA InitIInv == ASSUME Init PROVE IInv
  <1>1. /\ ret = [t \in Threads |-> <<>>] /\ own = [t \in Threads |-> {}]
        /\ entry = NoCall /\ halt = ""
        /\ Base \in Threads /\ Irq \in Threads /\ Base # Irq
    BY SpinAssumption DEF Init, Threads
  <1>2. pc = [t \in Threads |-> IF t = Base THEN "idle" ELSE "off"]
    BY DEF Init
  <1>3. ncli = 0
    BY DEF Init
  <1>4. Types
    <2>1. <<>> \in Seq(Labels)
      OBVIOUS
    <2>2. ret \in [Threads -> Seq(Labels)] /\ own \in [Threads -> SUBSET Locks]
      BY <1>1, <2>1
    <2>3. pc \in [Threads -> Labels] /\ ncli \in Int
      BY <1>2, <1>3 DEF Labels
    <2>4. /\ eflags \in [Threads -> BOOLEAN] /\ res \in [Threads -> BOOLEAN]
          /\ locked \in [Locks -> BOOLEAN] /\ lkcpu \in [Locks -> BOOLEAN]
      BY DEF Init
    <2>5. iflag \in BOOLEAN /\ intena \in BOOLEAN /\ lk \in [Threads -> Locks]
      BY DEF Init
    <2> QED BY <1>1, <2>2, <2>3, <2>4, <2>5 DEF Types
  <1>5. /\ Runner = Base /\ pc[Base] = "idle" /\ pc[Irq] = "off" /\ ret[Base] = NoReturn
        /\ ret[Irq] = NoReturn /\ own[Base] = {} /\ own[Irq] = {}
    BY <1>1, <1>2 DEF Runner, NoReturn
  <1>6. Windows
    BY <1>5 DEF Windows, Interruptible
  <1>7. Place(Base)
    <2>1. Cardinality(own[Base]) = 0
      BY <1>5, FS_EmptySet
    <2>2. ncli = Cardinality(own[Base]) + 0
      BY <1>3, <2>1
    <2> QED BY <1>5, <2>2 DEF Place, PlaceAt
  <1>8. LocksOf(Base)
    BY <1>5 DEF Init, LocksOf
  <1>9. EntryOf(Base)
    BY <1>1, <1>5 DEF EntryOf, Begun
  <1> QED BY <1>4, <1>5, <1>6, <1>7, <1>8, <1>9 DEF IInv

(* Every step of a thread keeps it. *)
LEMMA StepIInv == ASSUME IInv, NEW t \in Threads, Step(t) PROVE IInv'
  BY PushReadStep, PushCliStep, PushSaveStep, PushIncStep, PopCheckStep,
     PopDecStep, PopStiStep, HoldReadStep, AcqHoldStep, AcqHeldStep,
     AcqXchgStep, AcqCpuStep, RelHeldStep, RelCpuStep, RelFreeStep
     DEF Step

(* So does every step. *)
LEMMA NextIInv == ASSUME IInv, [Next]_vars PROVE IInv'
  <1>1. CASE \E t \in Threads : Step(t)
    BY <1>1, StepIInv
  <1>2. CASE \E t \in Threads, l \in Locks : CallAcquire(t, l) \/ CallRelease(t, l)
    BY <1>2, CallAcquireStep, CallReleaseStep
  <1>3. CASE SetIF \/ Interrupt \/ InterruptReturn
    BY <1>3, SetIFStep, InterruptStep, InterruptReturnStep
  <1>4. CASE UNCHANGED vars
    <2> USE <1>4 DEF vars
    <2>1. Types' /\ Windows' /\ Runner' = Runner
      BY DEF IInv, Types, Windows, Interruptible, Runner
    <2>2. Place(Runner)' /\ LocksOf(Runner)' /\ EntryOf(Runner)'
      <3>1. Place(Runner)'
        BY <2>1 DEF IInv, Place, PlaceAt, AcquirePlace, ReleasePlace
      <3>2. LocksOf(Runner)'
        BY <2>1 DEF IInv, LocksOf
      <3>3. EntryOf(Runner)'
        BY <2>1 DEF IInv, EntryOf, Begun
      <3> QED BY <3>1, <3>2, <3>3
    <2> QED BY <2>1, <2>2 DEF IInv
  <1> QED BY <1>1, <1>2, <1>3, <1>4 DEF Next

(* The inductive invariant holds in every behaviour. *)
THEOREM Invariance == Spec => []IInv
  <1>1. Init => IInv
    BY InitIInv
  <1>2. IInv /\ [Next]_vars => IInv'
    BY NextIInv
  <1> QED BY <1>1, <1>2, PTL DEF Spec

(* Types, and the bound of ncli: it never exceeds the held locks by more   *)
(* than the two pushcli of a call in progress.                             *)
THEOREM TypeCorrect == Spec => []TypeOK
  <1>1. ASSUME IInv PROVE TypeOK
    <2>1. Runner \in Threads
      BY DEF Runner, Threads
    <2>2. PICK n \in -1..2 : PlaceAt(Runner, n)
      BY <1>1 DEF IInv, Place
    <2>3. lk[Runner] \in Locks
      BY <1>1, <2>1 DEF IInv, Types
    <2>4. ncli \in 0..(Cardinality(Locks) + 1)
      <3> DEFINE held == Cardinality(own[Runner])
                 all  == Cardinality(Locks)
      <3>1. held \in Nat /\ all \in Nat
        BY <1>1, <2>1, <2>3, Counting, SpinAssumption, FS_CardinalityType
      <3>2. held <= all /\ (lk[Runner] \notin own[Runner] => held + 1 <= all)
        BY <1>1, <2>1, <2>3, Counting
      <3>3. lk[Runner] \in own[Runner] => held # 0
        BY <1>1, <2>1, <2>3, Counting
      <3>4. \/ n = 0
            \/ n \in {0, 1, 2} /\ lk[Runner] \notin own[Runner]
            \/ n \in {-1, 0, 1} /\ lk[Runner] \in own[Runner]
        BY <2>2 DEF PlaceAt, AcquirePlace, ReleasePlace
      <3>5. ncli = held + n
        BY <2>2 DEF PlaceAt
      <3> HIDE DEF held, all
      <3> QED BY <3>1, <3>2, <3>3, <3>4, <3>5 DEF all
    <2> QED BY <1>1, <2>4 DEF IInv, Types, TypeOK
  <1> QED BY <1>1, Invariance, PTL

(* Whatever the number of locks and wherever interrupts hit, acquire never *)
(* meets a taken lock and no panic of spinlock.c is reached.               *)
THEOREM NobodySpins == Spec => []NeverStuck
  <1>1. ASSUME IInv PROVE NeverStuck
    <2>1. halt = ""
      BY <1>1 DEF IInv, Types
    <2>2. ASSUME NEW t \in Threads, pc[t] = "acq_xchg" PROVE ~locked[lk[t]]
      <3>1. t = Runner
        BY <1>1, <2>2 DEF IInv, Windows, Interruptible, Runner, Threads
      <3>2. lk[t] \notin own[t] /\ ret[t] = NoReturn /\ lk[t] \in Locks
        BY <1>1, <2>2, <3>1
           DEF IInv, Types, Place, PlaceAt, AcquirePlace, ReleasePlace, Push
      <3> QED BY <1>1, <2>2, <3>1, <3>2 DEF IInv, LocksOf
    <2> QED BY <2>1, <2>2 DEF NeverStuck
  <1> QED BY <1>1, Invariance, PTL

-----------------------------------------------------------------------------
(* Spinlock implements LockSpec *)

(* The variables of LockSpec as ActsAtOneInstant maps them.                *)
SeenCpu  == IF entry = NoCall THEN Snapshot.cpu ELSE entry.cpu
SeenHeld == IF entry = NoCall THEN Snapshot.held ELSE entry.held

CpuRecord == [if : BOOLEAN, ncli : Int, intena : BOOLEAN]

(* cli and sti change one field.                                            *)
LEMMA CpuRecords ==
    ASSUME NEW c \in CpuRecord, NEW b \in BOOLEAN
    PROVE  [c EXCEPT !.if = b] = [if |-> b, ncli |-> c.ncli, intena |-> c.intena]
  BY DEF CpuRecord

(* Outside of calls, and before the first cli, the state is seen as it is. *)
LEMMA SeenAsIs ==
    ASSUME entry = NoCall
    PROVE  /\ SeenHeld = own
           /\ SeenCpu = [if |-> iflag, ncli |-> ncli, intena |-> intena]
  BY DEF Snapshot, SeenCpu, SeenHeld

(* From there to the last statement it is seen as the caller left it.      *)
LEMMA SeenAsLeft ==
    ASSUME IInv, NEW t \in Threads, t = Runner, Begun(t)
    PROVE  /\ SeenHeld = own /\ SeenCpu = entry.cpu
           /\ SeenCpu \in [if : BOOLEAN, ncli : Int, intena : BOOLEAN]
           /\ SeenCpu.ncli = Cardinality(own[t])
           /\ SeenCpu.if => own[t] = {}
           /\ ~(pc[t] = "push_save" /\ ret[t] = ToAcquire) =>
                 intena = IF SeenCpu.ncli = 0 THEN SeenCpu.if ELSE SeenCpu.intena
  <1>1. entry # NoCall /\ entry \in Entries
    BY DEF IInv, Types, EntryOf
  <1>2. SeenHeld = entry.held /\ SeenCpu = entry.cpu
    BY <1>1 DEF SeenCpu, SeenHeld
  <1>3. entry.cpu \in [if : BOOLEAN, ncli : Int, intena : BOOLEAN]
    BY <1>1 DEF Entries
  <1> QED BY <1>2, <1>3 DEF IInv, EntryOf

(* A statement of a thread neither starts nor ends the handler.            *)
LEMMA HandlerStays ==
    ASSUME IInv, NEW t \in Threads, Step(t)
    PROVE  (pc'[Irq] # "off") = (pc[Irq] # "off")
  <1>1. Running(t) /\ pc[t] # "off"
    BY DEF Step, At, PushRead, PushCli, PushSave, PushInc, PopCheck, PopDec,
           PopSti, HoldRead, AcqHold, AcqHeld, AcqXchg, AcqCpu, RelHeld, RelCpu,
           RelFree
  <1>2. PICK n \in -1..2 : Here(t, n)
    BY <1>1, Located
  <1>3. CASE PushInc(t) \/ PopSti(t)
    <2>1. pc' = [pc EXCEPT ![t] = Head(ret[t])] /\ pc[t] \in {"push_inc", "pop_sti"}
      BY <1>3 DEF PushInc, PopSti, Return, At
    <2>2. Head(ret[t]) # "off"
      BY <1>2, <2>1, Returns DEF Here, PlaceAt, AcquirePlace, ReleasePlace
    <2> QED BY <1>1, <2>1, <2>2, SpinAssumption
               DEF IInv, Types, Running, Threads
  <1>4. CASE pc' = pc \/ \E label \in Labels \ {"off"} : pc' = [pc EXCEPT ![t] = label]
    BY <1>1, <1>4, SpinAssumption DEF IInv, Types, Running, Threads
  <1>5. \/ PushInc(t) \/ PopSti(t)
        \/ pc' = pc \/ \E label \in Labels \ {"off"} : pc' = [pc EXCEPT ![t] = label]
    <2> USE DEF Labels, Goto, Call, Panic
    <2>1. CASE PushRead(t) \/ PushCli(t) \/ PushSave(t) \/ PopCheck(t) \/ PopDec(t)
      BY <2>1 DEF PushRead, PushCli, PushSave, PopCheck, PopDec
    <2>2. CASE HoldRead(t) \/ AcqHold(t) \/ AcqHeld(t) \/ AcqXchg(t) \/ AcqCpu(t)
      BY <2>2 DEF HoldRead, AcqHold, AcqHeld, AcqXchg, AcqCpu
    <2>3. CASE RelHeld(t) \/ RelCpu(t) \/ RelFree(t)
      BY <2>3 DEF RelHeld, RelCpu, RelFree
    <2> QED BY <2>1, <2>2, <2>3 DEF Step
  <1> QED BY <1>3, <1>4, <1>5

(* The statements between the first cli and the last one are not seen.     *)
LEMMA Unseen ==
    ASSUME IInv, NEW t \in Threads, Step(t), ~AcqCpu(t),
           ~(PopSti(t) /\ ret[t] = ToCaller)
    PROVE  UNCHANGED <<SeenCpu, SeenHeld>>
  <1>1. Running(t) /\ pc[t] \notin {"idle", "off"}
    BY DEF Step, At, PushRead, PushCli, PushSave, PushInc, PopCheck, PopDec,
           PopSti, HoldRead, AcqHold, AcqHeld, AcqXchg, AcqCpu, RelHeld, RelCpu,
           RelFree
  <1>2. t = Runner /\ EntryOf(t)
    BY <1>1, Located DEF Here
  <1>3. CASE Begun(t)
    <2>1. entry # NoCall
      BY <1>2, <1>3 DEF EntryOf
    <2>2. entry' = entry
      BY <2>1
         DEF Step, PushRead, PushCli, PushSave, PushInc, PopCheck, PopDec,
             PopSti, HoldRead, AcqHold, AcqHeld, AcqXchg, RelHeld, RelCpu,
             RelFree, Panic, ToCaller
    <2> QED BY <2>1, <2>2 DEF SeenCpu, SeenHeld
  <1>4. CASE ~Begun(t)
    <2>1. entry = NoCall /\ pc[t] \in {"push_read", "push_cli"}
      BY <1>1, <1>2, <1>4 DEF EntryOf, Begun
    <2>2. CASE PushRead(t)
      BY <2>1, <2>2 DEF PushRead, SeenCpu, SeenHeld, Snapshot
    <2>3. CASE PushCli(t)
      <3>1. entry' = Snapshot /\ Snapshot # NoCall
        BY <2>1, <2>3 DEF PushCli, Snapshot, NoCall
      <3> QED BY <2>1, <3>1 DEF SeenCpu, SeenHeld
    <2> QED
      BY <2>1, <2>2, <2>3
         DEF Step, At, PushSave, PushInc, PopCheck, PopDec, PopSti, HoldRead,
             AcqHold, AcqHeld, AcqXchg, RelHeld, RelCpu, RelFree
  <1> QED BY <1>3, <1>4

(* The last statement of acquire is Acquire of LockSpec.                   *)
LEMMA AcquireSeen ==
    ASSUME IInv, NEW t \in Threads, AcqCpu(t)
    PROVE  Abstract!Acquire(t, lk[t]) /\ lk[t] \in Locks
  <1>1. Running(t) /\ pc[t] = "acq_cpu"
    BY DEF AcqCpu, At
  <1>2. PICK n \in -1..2 : Here(t, n)
    BY <1>1, Located
  <1>3. t = Runner /\ Begun(t) /\ lk[t] \in Locks
    BY <1>1, <1>2 DEF Here, Begun
  <1>4. n = 1 /\ lk[t] \notin own[t] /\ ncli = Cardinality(own[t]) + 1
    BY <1>1, <1>2 DEF Here, PlaceAt, AcquirePlace, ReleasePlace, Push
  <1>5. Abstract!Runs(t)
    BY <1>2, SpinAssumption DEF Here, Runner, Abstract!Runs
  <1>6. lk[t] \notin own[Base] \cup own[Irq]
    BY <1>2, <1>4, SpinAssumption DEF Here, Runner, IInv, Windows, Interruptible
  <1>7. SeenHeld' = own' /\ own' = [own EXCEPT ![t] = @ \cup {lk[t]}]
    BY SeenAsIs DEF AcqCpu, SeenHeld, Snapshot
  <1>8. SeenCpu' = [if |-> FALSE, ncli |-> SeenCpu.ncli + 1,
                    intena |-> IF SeenCpu.ncli = 0 THEN SeenCpu.if ELSE SeenCpu.intena]
    <2>1. SeenCpu' = [if |-> iflag', ncli |-> ncli', intena |-> intena']
      BY DEF AcqCpu, SeenCpu, Snapshot
    <2>2. iflag' = FALSE /\ ncli' = ncli /\ intena' = intena
      BY <1>1, <1>2 DEF AcqCpu, Here, Interruptible, IInv, Types
    <2> QED BY <1>1, <1>3, <1>4, <2>1, <2>2, SeenAsLeft
  <1>9. SeenHeld = own
    BY <1>3, SeenAsLeft
  <1> QED
    BY <1>3, <1>5, <1>6, <1>7, <1>8, <1>9, HandlerStays
       DEF Abstract!Acquire, Abstract!PushCli, SeenCpu, SeenHeld, Step

(* The last statement of release is Release of LockSpec.                   *)
LEMMA ReleaseSeen ==
    ASSUME IInv, NEW t \in Threads, PopSti(t), ret[t] = ToCaller
    PROVE  Abstract!Release(t, lk[t]) /\ lk[t] \in Locks
  <1>1. Running(t) /\ pc[t] = "pop_sti"
    BY DEF PopSti, At
  <1>2. PICK n \in -1..2 : Here(t, n)
    BY <1>1, Located
  <1>3. t = Runner /\ Begun(t) /\ lk[t] \in Locks
    BY <1>1, <1>2 DEF Here, Begun
  <1>4. n = -1 /\ lk[t] \in own[t] /\ ncli = Cardinality(own[t]) - 1
    BY <1>1, <1>2, Returns DEF Here, PlaceAt, AcquirePlace, ReleasePlace, Push
  <1>5. Abstract!Runs(t)
    BY <1>2, SpinAssumption DEF Here, Runner, Abstract!Runs
  <1>6. SeenHeld = own /\ ~SeenCpu.if /\ SeenCpu.ncli = Cardinality(own[t])
    BY <1>3, <1>4, SeenAsLeft
  <1>7. SeenCpu.ncli \in Nat /\ SeenCpu.ncli # 0
    BY <1>2, <1>4, <1>6 DEF Here
  <1>8. SeenHeld' = own' /\ own' = [own EXCEPT ![t] = @ \ {lk[t]}]
    BY DEF PopSti, SeenHeld, Snapshot, ToCaller
  <1>9. SeenCpu' = [if |-> SeenCpu.if \/ (SeenCpu.ncli = 1 /\ SeenCpu.intena),
                    ncli |-> SeenCpu.ncli - 1, intena |-> SeenCpu.intena]
    <2>1. SeenCpu' = [if |-> iflag', ncli |-> ncli', intena |-> intena']
      BY DEF PopSti, SeenCpu, Snapshot, ToCaller
    <2>2. ~iflag /\ iflag' = (iflag \/ (ncli = 0 /\ intena))
      BY <1>1, <1>2 DEF PopSti, Here, Interruptible, IInv, Types
    <2>3. intena = SeenCpu.intena /\ SeenCpu.if = FALSE /\ SeenCpu.intena \in BOOLEAN
      BY <1>1, <1>3, <1>6, <1>7, SeenAsLeft
    <2>4. ncli' = SeenCpu.ncli - 1 /\ intena' = intena
      BY <1>4, <1>6 DEF PopSti
    <2>5. ncli = 0 <=> SeenCpu.ncli = 1
      BY <1>4, <1>6, <1>7
    <2> QED BY <2>1, <2>2, <2>3, <2>4, <2>5
  <1>10. Abstract!PopCliFault(SeenCpu) = ""
    BY <1>6, <1>7 DEF Abstract!PopCliFault
  <1> QED
    BY <1>3, <1>4, <1>5, <1>6, <1>8, <1>9, <1>10, HandlerStays
       DEF Abstract!Release, Abstract!PopCli, SeenCpu, SeenHeld, Step

(* The thread's own cli and sti, interrupts and their returns happen       *)
(* outside of calls.                                                       *)
LEMMA OutsideSeen ==
    ASSUME IInv, SetIF \/ Interrupt \/ InterruptReturn
    PROVE  Abstract!SetIF \/ Abstract!Interrupt \/ Abstract!InterruptReturn
  <1>1. /\ Base \in Threads /\ Irq \in Threads /\ Base # Irq
        /\ SetIF => pc[Irq] = "off" /\ pc[Base] = "idle"
        /\ Interrupt => pc[Irq] = "off" /\ Interruptible(Base)
        /\ InterruptReturn => pc[Irq] = "idle"
    BY SpinAssumption
       DEF SetIF, Interrupt, InterruptReturn, At, Running, Threads, IInv,
           Windows
  <1>2. entry = NoCall /\ entry' = NoCall
    <2>1. ~Begun(Runner)
      BY <1>1 DEF Begun, Runner, Interruptible
    <2> QED BY <2>1 DEF IInv, EntryOf, SetIF, Interrupt, InterruptReturn
  <1>3. /\ SeenHeld = own /\ SeenHeld' = own'
        /\ SeenCpu = [if |-> iflag, ncli |-> ncli, intena |-> intena]
        /\ SeenCpu' = [if |-> iflag', ncli |-> ncli', intena |-> intena']
    BY <1>2 DEF SeenCpu, SeenHeld, Snapshot
  <1>4. SeenCpu \in CpuRecord /\ SeenCpu.ncli = ncli /\ SeenCpu.intena = intena
        /\ SeenCpu.if = iflag
    BY <1>3 DEF CpuRecord, IInv, Types
  <1>5. CASE SetIF
    <2>1. SeenCpu' \in {Abstract!Sti(SeenCpu), Abstract!Cli(SeenCpu)}
      <3>1. (iflag' = TRUE \/ iflag' = FALSE) /\ ncli' = ncli /\ intena' = intena
        BY <1>5 DEF SetIF
      <3> QED BY <1>3, <1>4, <3>1, CpuRecords DEF Abstract!Sti, Abstract!Cli
    <2> QED BY <1>1, <1>3, <1>5, <2>1
               DEF SetIF, Abstract!SetIF, SeenCpu, SeenHeld
  <1>6. CASE Interrupt
    <2>1. SeenCpu' = Abstract!Cli(SeenCpu) /\ SeenCpu.if
      <3>1. iflag' = FALSE /\ iflag /\ ncli' = ncli /\ intena' = intena
        BY <1>6 DEF Interrupt
      <3> QED BY <1>3, <1>4, <3>1, CpuRecords DEF Abstract!Cli
    <2>2. /\ (pc[Irq] # "off") = FALSE /\ (pc'[Irq] # "off") = TRUE
          /\ SeenHeld' = SeenHeld
      BY <1>1, <1>3, <1>6 DEF Interrupt, Goto, IInv, Types
    <2> QED BY <1>1, <2>1, <2>2 DEF Abstract!Interrupt, SeenCpu, SeenHeld
  <1>7. CASE InterruptReturn
    <2>1. SeenCpu' = Abstract!Sti(SeenCpu)
      <3>1. iflag' = TRUE /\ ncli' = ncli /\ intena' = intena
        BY <1>7 DEF InterruptReturn
      <3> QED BY <1>3, <1>4, <3>1, CpuRecords DEF Abstract!Sti
    <2>2. /\ (pc[Irq] # "off") = TRUE /\ (pc'[Irq] # "off") = FALSE
          /\ SeenHeld' = SeenHeld /\ SeenHeld[Irq] = {}
      BY <1>1, <1>3, <1>7 DEF InterruptReturn, Goto, IInv, Types
    <2> QED BY <1>1, <2>1, <2>2 DEF Abstract!InterruptReturn, SeenCpu, SeenHeld
  <1> QED BY <1>5, <1>6, <1>7

(* Every step is one of LockSpec or none.                                  *)
LEMMA StepSeen == ASSUME IInv, [Next]_vars PROVE [Abstract!Next]_(Abstract!specVars)
  <1> USE DEF Abstract!specVars
  <1>1. ASSUME NEW t \in Threads, Step(t)
        PROVE  Abstract!Next \/ UNCHANGED Abstract!specVars
    <2>1. t \in Abstract!Threads
      BY DEF Threads, Abstract!Threads
    <2>2. CASE AcqCpu(t)
      BY <2>1, <2>2, AcquireSeen DEF Abstract!Next
    <2>3. CASE PopSti(t) /\ ret[t] = ToCaller
      BY <2>1, <2>3, ReleaseSeen DEF Abstract!Next
    <2>4. CASE ~AcqCpu(t) /\ ~(PopSti(t) /\ ret[t] = ToCaller)
      BY <1>1, <2>4, Unseen, HandlerStays DEF SeenCpu, SeenHeld
    <2> QED BY <2>2, <2>3, <2>4
  <1>2. ASSUME NEW t \in Threads, NEW l \in Locks, CallAcquire(t, l) \/ CallRelease(t, l)
        PROVE  UNCHANGED Abstract!specVars
    <2>1. (pc'[Irq] # "off") = (pc[Irq] # "off")
      BY <1>2, SpinAssumption
         DEF CallAcquire, CallRelease, Call, At, Running, Threads, IInv, Types
    <2>2. UNCHANGED <<iflag, ncli, intena, own, entry>>
      BY <1>2 DEF CallAcquire, CallRelease
    <2> QED BY <2>1, <2>2 DEF Snapshot
  <1>3. CASE SetIF \/ Interrupt \/ InterruptReturn
    BY <1>3, OutsideSeen DEF Abstract!Next
  <1>4. CASE UNCHANGED vars
    BY <1>4 DEF vars, Snapshot
  <1> QED BY <1>1, <1>2, <1>3, <1>4 DEF Next

(* For any number of locks, and wherever interrupts hit: acquire and       *)
(* release, although made of many statements, act at one instant.          *)
THEOREM Atomicity == Spec => ActsAtOneInstant
  <1>1. Init => Abstract!Init
    <2> SUFFICES ASSUME Init PROVE Abstract!Init
      OBVIOUS
    <2>1. /\ entry = NoCall /\ iflag \in BOOLEAN /\ ncli = 0 /\ intena = FALSE
          /\ own = [t \in Threads |-> {}] /\ pc[Irq] = "off"
      BY SpinAssumption DEF Init, Threads
    <2>2. SeenCpu = [if |-> iflag, ncli |-> 0, intena |-> FALSE] /\ SeenHeld = own
      BY <2>1, SeenAsIs
    <2>3. SeenCpu \in {[Abstract!CpuInit EXCEPT !.if = b] : b \in BOOLEAN}
      <3>1. SeenCpu = [Abstract!CpuInit EXCEPT !.if = iflag]
        <4>1. Abstract!CpuInit \in CpuRecord /\ Abstract!CpuInit.ncli = 0
              /\ Abstract!CpuInit.intena = FALSE
          BY DEF Abstract!CpuInit, CpuRecord
        <4> QED BY <2>1, <2>2, <4>1, CpuRecords
      <3> QED BY <2>1, <3>1
    <2>4. (pc[Irq] # "off") = FALSE
      BY <2>1
    <2> QED
      BY <2>1, <2>2, <2>3, <2>4
         DEF Abstract!Init, Abstract!Threads, Threads, SeenCpu, SeenHeld
  <1>2. IInv /\ [Next]_vars => [Abstract!Next]_(Abstract!specVars)
    BY StepSeen
  <1> QED BY <1>1, <1>2, Invariance, PTL DEF Spec, ActsAtOneInstant, Abstract!Spec
=============================================================================
