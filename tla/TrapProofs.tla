----------------------------- MODULE TrapProofs -----------------------------
(***************************************************************************)
(* Theorems about Trap for every choice of vectors whose handlers can      *)
(* return and for any depth of nested traps: each return continues exactly *)
(* what was interrupted, and leaves no word behind.                        *)
(***************************************************************************)
EXTENDS Trap, TLAPS

(* trap_ret skips two words, those of the stub.  The handler of a vector   *)
(* with a third, the error code of the CPU, must not come back, and the    *)
(* kernel itself does not divide by zero.                                  *)
HandlersCanReturn ==
    /\ MaxDepth \in Nat /\ MaxDepth >= 2
    /\ (UserFaults \cup KernelFaults \cup OpenVectors) \cap WithError \subseteq HaltVectors
    /\ 0 \notin KernelFaults \cup OpenVectors

-----------------------------------------------------------------------------
(* The inductive invariant: how each stack is made of frames *)

(* Who has been put away on a stack, and whoever runs there.               *)
Execs(s) == IF s = on THEN Append(saved[s], cpu) ELSE saved[s]

(* fork_ret has the address of trap_ret on the stack, the code of a trap   *)
(* from user mode the user's esp.                                          *)
Below(c) == IF c.eip \in {ForkRet, <<"fork_ret", 1>>} THEN 1 ELSE 0
EspOf(c) == IF c.cs = UserCS THEN 1 ELSE 0
ErrorWord(no) == IF \E n \in WithError : no = No(n) THEN 1 ELSE 0

(* What trap_ret and the iret would make of the frame that ends at word b, *)
(* with e words for an error code.                                         *)
Holds(st, b, e, r) ==
    /\ st[b] = r.gp /\ st[b - 1] = r.eax /\ st[b - 2] = r.segs
    /\ st[b - 5 - e] = r.eip /\ st[b - 6 - e] = r.cs /\ st[b - 7 - e] = r.eflags
    /\ r.cs = UserCS => st[b - 8 - e] = r.esp

(* What a handler may make of the registers, by the word for the vector.   *)
After(c, no) ==
    CASE no = No(128) -> {[c EXCEPT !.eax = x] : x \in Results(c.eax)}
      [] no = No(0)   -> {[c EXCEPT !.eax = Zero, !.eip = Skip(@)]}
      [] OTHER        -> {c}

(* Above a frame its handler runs, or has returned, or, if it is that of a *)
(* new process, fork_ret.                                                  *)
Outcome(eip, k, c, no, e, r) ==
    \/ eip = <<"handler", k>> /\ r = c /\ no # Zero
    \/ eip = TrapRetCode /\ r \in After(c, no) /\ e = 0
    \/ eip \in {ForkRet, <<"fork_ret", 1>>} /\ r = c /\ no = Zero

Vector(no, c) ==
    \/ no = Zero
    \/ \E n \in Vectors : /\ no = No(n)
                          /\ n \in WithError => n \in HaltVectors
                          /\ n = 0 => c.eip = User

(* Trap k put c away: the words from a + 1 to b; code at eip is above it.  *)
Layer(st, k, a, b, c, eip) ==
    LET no == st[b - 3]
        e  == ErrorWord(no)
    IN /\ b = a + Below(c) + EspOf(c) + 8 + e
       /\ Below(c) = 1 => st[a + 1] = TrapRetCode
       /\ Vector(no, c)
       /\ \E r \in Registers : Holds(st, b, e, r) /\ Outcome(eip, k, c, no, e, r)

(* off says where the frames of n traps end.                               *)
Offsets(off, n) ==
    /\ \A k \in 0..n : off[k] \in Nat
    /\ off[0] = 0
    /\ \A j, k \in 0..n : j <= k => off[j] <= off[k]
Layers(st, ex, off, n) ==
    \A k \in 1..n : Layer(st, k, off[k - 1], off[k], ex[k], ex[k + 1].eip)

(* Above the frames is what the last of ex needs to go on: nothing, or the *)
(* context of switch_to.                                                   *)
Rest(st, c, a, parked) ==
    /\ Len(st) = a + Below(c) + (IF parked THEN 2 ELSE 0)
    /\ Below(c) = 1 => st[a + 1] = TrapRetCode
    /\ parked => /\ c.cs = KernelCS /\ c.eflags = Flags(0)
                 /\ st[Len(st) - 1] = c.eip /\ st[Len(st)] = c.gp

Fits(st, ex, off, parked) ==
    /\ Offsets(off, Len(ex) - 1)
    /\ Layers(st, ex, off, Len(ex) - 1)
    /\ Rest(st, ex[Len(ex)], off[Len(ex) - 1], parked)
Shape(st, ex, parked) == \E off : Fits(st, ex, off, parked)

(* Registers in user mode and in the kernel. *)
KernelEips == {Sched, ForkRet, <<"fork_ret", 1>>, TrapRetCode}
              \cup {<<"handler", k>> : k \in 1..MaxDepth}
Sane(c) ==
    /\ c \in Registers
    /\ \/ c.cs = UserCS /\ c.esp = UserEsp /\ c.segs = UserDS /\ c.eip \in {User, Skip(User)}
       \/ c.cs = KernelCS /\ c.esp = Zero /\ c.segs = KernelDS /\ c.eip \in KernelEips

(* At the bottom are the loop of the scheduler and the user's program.     *)
Bottom(s, c) == IF s = "sched" THEN c.eip = Sched ELSE c.cs = UserCS
Thread(s, ex) ==
    /\ ex \in Seq(Registers) /\ ex # <<>>
    /\ \A k \in 1..Len(ex) : Sane(ex[k])
    /\ Bottom(s, ex[1])

IInv ==
    /\ TypeOK
    /\ pc \in {"code", "halt"}
    /\ \A s \in Stacks : Thread(s, Execs(s)) /\ Shape(stack[s], Execs(s), s # on)

-----------------------------------------------------------------------------
(* Words and records *)

(* The kinds of words do not overlap.                                      *)
LEMMA Different ==
    /\ UserCS # KernelCS /\ Flags(0) # Flags(1) /\ Sched # User /\ User # Skip(User)
    /\ \A n : No(n) # Zero
    /\ \A m, n : No(m) = No(n) => m = n
    /\ \A n : No(n)[2] = n
    /\ Skip(User) # Skip(Skip(User))
    /\ {User, Skip(User)} \cap KernelEips = {}
    /\ Sched \notin {ForkRet, <<"fork_ret", 1>>, TrapRetCode}
    /\ TrapRetCode \notin {ForkRet, <<"fork_ret", 1>>}
    /\ \A k : <<"handler", k>> \notin {Sched, ForkRet, <<"fork_ret", 1>>, TrapRetCode}
    /\ \A k : <<"handler", k>>[1] = "handler"
    /\ \A i \in {Sched, User, Skip(User), ForkRet, <<"fork_ret", 1>>, TrapRetCode} :
          i[1] # "handler"
  BY DEF UserCS, KernelCS, Flags, Sched, User, Skip, No, Zero, KernelEips, ForkRet,
         TrapRetCode

(* Where the fields of struct trap_frame are.                              *)
LEMMA Depths ==
    /\ Depth("gp") = 1 /\ Depth("eax") = 2 /\ Depth("segs") = 3 /\ Depth("int_no") = 4
    /\ Depth("eip") = 6 /\ Depth("cs") = 7 /\ Depth("eflags") = 8
  <1> DEFINE names == <<"gp", "eax", "segs", "int_no", "err_code", "eip", "cs", "eflags">>
  <1>1. \A f : Depth(f) = CHOOSE k \in 1..8 : names[k] = f
    BY DEF Depth
  <1>2. /\ \A k \in 1..8 : names[k] = "gp" <=> k = 1
        /\ \A k \in 1..8 : names[k] = "eax" <=> k = 2
        /\ \A k \in 1..8 : names[k] = "segs" <=> k = 3
        /\ \A k \in 1..8 : names[k] = "int_no" <=> k = 4
        /\ \A k \in 1..8 : names[k] = "eip" <=> k = 6
        /\ \A k \in 1..8 : names[k] = "cs" <=> k = 7
        /\ \A k \in 1..8 : names[k] = "eflags" <=> k = 8
    OBVIOUS
  <1> HIDE DEF names
  <1>3. \A f, d : d \in 1..8 /\ (\A k \in 1..8 : names[k] = f <=> k = d) => Depth(f) = d
    BY <1>1
  <1> QED
    BY <1>2, <1>3

-----------------------------------------------------------------------------
(* Stacks of frames *)

(* A frame has room for what Holds looks at, whatever the trap.            *)
LEMMA LayerSize ==
    ASSUME NEW st, NEW k, NEW a \in Nat, NEW b, NEW c, NEW eip, Layer(st, k, a, b, c, eip)
    PROVE  b \in Nat /\ b >= a + 8 + Below(c) + EspOf(c)
  <1>1. ErrorWord(st[b - 3]) \in {0, 1} /\ Below(c) \in {0, 1} /\ EspOf(c) \in {0, 1}
    BY DEF Below, EspOf, ErrorWord
  <1> QED
    BY <1>1 DEF Layer

(* A handler leaves the segments, the flags and the stack of who was       *)
(* interrupted.                                                            *)
LEMMA AfterTypes ==
    ASSUME NEW c \in Registers, NEW no, NEW r \in After(c, no)
    PROVE  r.cs = c.cs /\ r.esp = c.esp /\ r.eflags = c.eflags /\ r.segs = c.segs
  BY DEF After, Registers

(* A frame is made of its own words only.                                  *)
LEMMA LayerKept ==
    ASSUME NEW st, NEW st2, NEW k, NEW a \in Nat, NEW b \in Nat, NEW c \in Registers,
           NEW eip, Layer(st, k, a, b, c, eip),
           \A i \in (a + 1)..b : st2[i] = st[i]
    PROVE  Layer(st2, k, a, b, c, eip)
  <1> DEFINE no == st[b - 3]
             e  == ErrorWord(no)
  <1>1. e \in {0, 1} /\ Below(c) \in {0, 1} /\ EspOf(c) \in {0, 1}
    BY DEF ErrorWord, Below, EspOf
  <1>2. b = a + Below(c) + EspOf(c) + 8 + e
    BY DEF Layer
  <1>3. st2[b - 3] = no
    BY <1>1, <1>2
  <1>4. Below(c) = 1 => st2[a + 1] = TrapRetCode
    BY <1>1, <1>2 DEF Layer
  <1>5. PICK r \in Registers : Holds(st, b, e, r) /\ Outcome(eip, k, c, no, e, r)
    BY DEF Layer
  <1>6. r.cs = c.cs
    BY <1>5, AfterTypes DEF Outcome
  <1>7. Holds(st2, b, e, r)
    <2>1. /\ st2[b] = st[b] /\ st2[b - 1] = st[b - 1] /\ st2[b - 2] = st[b - 2]
          /\ st2[b - 5 - e] = st[b - 5 - e] /\ st2[b - 6 - e] = st[b - 6 - e]
          /\ st2[b - 7 - e] = st[b - 7 - e]
      BY <1>1, <1>2
    <2>2. r.cs = UserCS => st2[b - 8 - e] = st[b - 8 - e]
      BY <1>1, <1>2, <1>6 DEF EspOf
    <2> QED
      BY <1>5, <2>1, <2>2 DEF Holds
  <1> QED
    BY <1>2, <1>3, <1>4, <1>5, <1>7 DEF Layer

(* The lower frames of a stack.                                            *)
LEMMA LowerLayers ==
    ASSUME NEW st, NEW ex, NEW off, NEW n \in Nat, NEW m \in 0..n,
           Offsets(off, n), Layers(st, ex, off, n)
    PROVE  Offsets(off, m) /\ Layers(st, ex, off, m)
  <1>1. \A k \in 0..m : k \in 0..n
    OBVIOUS
  <1>2. \A k \in 1..m : k \in 1..n
    OBVIOUS
  <1> QED
    BY <1>1, <1>2 DEF Offsets, Layers

(* Frames stay as they are when only words above them change, ...          *)
LEMMA LayersOfWords ==
    ASSUME NEW st, NEW st2, NEW ex \in Seq(Registers), NEW n \in Nat, n < Len(ex),
           NEW off, Offsets(off, n), Layers(st, ex, off, n),
           \A i \in 1..off[n] : st2[i] = st[i]
    PROVE  Layers(st2, ex, off, n)
  <1> SUFFICES ASSUME NEW k \in 1..n
               PROVE  Layer(st2, k, off[k - 1], off[k], ex[k], ex[k + 1].eip)
    BY DEF Layers
  <1>1. k \in 0..n /\ k - 1 \in 0..n /\ n \in 0..n /\ k \in 1..Len(ex)
    OBVIOUS
  <1>2. off[k] \in Nat /\ off[k - 1] \in Nat /\ off[n] \in Nat /\ off[k] <= off[n]
    BY <1>1 DEF Offsets
  <1>3. Layer(st, k, off[k - 1], off[k], ex[k], ex[k + 1].eip) /\ ex[k] \in Registers
    BY <1>1 DEF Layers
  <1>4. \A i \in (off[k - 1] + 1)..off[k] : st2[i] = st[i]
    BY <1>2
  <1> QED
    BY <1>2, <1>3, <1>4, LayerKept

(* fork_ret goes on to trap_ret, above the frame init_user made.           *)
LEMMA OutcomeOfForkRet ==
    ASSUME NEW eip \in {ForkRet, <<"fork_ret", 1>>}, NEW k, NEW c, NEW no, NEW r,
           Outcome(eip, k, c, no, ErrorWord(no), r)
    PROVE  /\ Outcome(<<"fork_ret", 1>>, k, c, no, ErrorWord(no), r)
           /\ Outcome(TrapRetCode, k, c, no, ErrorWord(no), r)
  <1>1. r = c /\ no = Zero
    BY Different DEF Outcome
  <1>2. ErrorWord(no) = 0 /\ r \in After(c, no)
    BY <1>1, Different DEF ErrorWord, After
  <1> QED
    BY <1>1, <1>2 DEF Outcome

(* ... and when whoever runs above them goes on elsewhere in its code.     *)
LEMMA LayersOfExecs ==
    ASSUME NEW st, NEW off, NEW n \in Nat, NEW ex, NEW ex2, Layers(st, ex, off, n),
           \A k \in 1..n : ex2[k] = ex[k],
           \/ n = 0
           \/ ex2[n + 1].eip = ex[n + 1].eip
           \/ /\ ex[n + 1].eip \in {ForkRet, <<"fork_ret", 1>>}
              /\ ex2[n + 1].eip \in {<<"fork_ret", 1>>, TrapRetCode}
    PROVE  Layers(st, ex2, off, n)
  <1> SUFFICES ASSUME NEW k \in 1..n
               PROVE  Layer(st, k, off[k - 1], off[k], ex2[k], ex2[k + 1].eip)
    BY DEF Layers
  <1>1. Layer(st, k, off[k - 1], off[k], ex2[k], ex[k + 1].eip)
    BY DEF Layers
  <1>2. k + 1 \in 1..n \/ (k = n /\ n # 0)
    OBVIOUS
  <1>3. \/ ex2[k + 1].eip = ex[k + 1].eip
        \/ /\ ex[k + 1].eip \in {ForkRet, <<"fork_ret", 1>>}
           /\ ex2[k + 1].eip \in {<<"fork_ret", 1>>, TrapRetCode}
    BY <1>2
  <1> QED
    BY <1>1, <1>3, OutcomeOfForkRet DEF Layer

(* The same stack, and whoever runs on it goes on elsewhere in its code.   *)
LEMMA FitsMoved ==
    ASSUME NEW st, NEW ex \in Seq(Registers), NEW ex2 \in Seq(Registers), NEW off,
           ex # <<>>, Len(ex2) = Len(ex), Fits(st, ex, off, FALSE),
           \A k \in 1..(Len(ex) - 1) : ex2[k] = ex[k],
           \/ Len(ex) = 1 /\ Below(ex2[1]) = Below(ex[1])
           \/ ex2[Len(ex)].eip = ex[Len(ex)].eip
           \/ ex[Len(ex)].eip = ForkRet /\ ex2[Len(ex)].eip = <<"fork_ret", 1>>
    PROVE  Fits(st, ex2, off, FALSE)
  <1> DEFINE n == Len(ex) - 1
  <1>1. n \in Nat /\ n + 1 = Len(ex) /\ n = Len(ex) - 1
    OBVIOUS
  <1> HIDE DEF n
  <1>2. Offsets(off, n) /\ Layers(st, ex, off, n) /\ Rest(st, ex[Len(ex)], off[n], FALSE)
    BY <1>1 DEF Fits
  <1>3. Below(ex2[Len(ex)]) = Below(ex[Len(ex)])
    BY DEF Below
  <1>4. Rest(st, ex2[Len(ex)], off[n], FALSE)
    BY <1>2, <1>3 DEF Rest
  <1>5. Layers(st, ex2, off, n)
    <2>1. \A k \in 1..n : ex2[k] = ex[k]
      BY <1>1
    <2>2. \/ n = 0
          \/ ex2[n + 1].eip = ex[n + 1].eip
          \/ ex[n + 1].eip = ForkRet /\ ex2[n + 1].eip = <<"fork_ret", 1>>
      BY <1>1
    <2> QED
      BY <1>1, <1>2, <2>1, <2>2, LayersOfExecs
  <1> QED
    BY <1>1, <1>2, <1>4, <1>5 DEF Fits

(* switch_to puts away a thread of the kernel.                             *)
LEMMA FitsParked ==
    ASSUME NEW st \in Seq(Words), NEW ex \in Seq(Registers), NEW off,
           ex # <<>>, Fits(st, ex, off, FALSE),
           ex[Len(ex)].cs = KernelCS, ex[Len(ex)].eflags = Flags(0),
           NEW eip \in Words, NEW gp \in Words, ex[Len(ex)].eip = eip, ex[Len(ex)].gp = gp
    PROVE  Fits(st \o Context(eip, gp), ex, off, TRUE)
  <1> DEFINE st2 == st \o Context(eip, gp)
             n == Len(ex) - 1
             c == ex[n + 1]
  <1>1. n \in Nat /\ n + 1 = Len(ex) /\ n < Len(ex) /\ n = Len(ex) - 1
    OBVIOUS
  <1> HIDE DEF n
  <1>2. Offsets(off, n) /\ Layers(st, ex, off, n) /\ Rest(st, c, off[n], FALSE)
    BY <1>1 DEF Fits
  <1>3. /\ Len(st2) = Len(st) + 2 /\ st2[Len(st2) - 1] = eip /\ st2[Len(st2)] = gp
        /\ \A i \in 1..Len(st) : st2[i] = st[i]
    BY DEF Context
  <1> HIDE DEF st2
  <1>4. off[n] \in Nat /\ Below(c) \in {0, 1} /\ Len(st) = off[n] + Below(c)
    BY <1>1, <1>2 DEF Offsets, Below, Rest
  <1>5. Rest(st2, c, off[n], TRUE)
    <2>1. Below(c) = 1 => st2[off[n] + 1] = TrapRetCode
      <3>1. Below(c) = 1 => st[off[n] + 1] = TrapRetCode
        BY <1>2 DEF Rest
      <3>2. Below(c) = 1 => off[n] + 1 \in 1..Len(st)
        BY <1>4
      <3> QED
        BY <3>1, <3>2, <1>3
    <2>2. Len(st2) = off[n] + Below(c) + 2
      BY <1>3, <1>4
    <2> QED
      BY <2>1, <2>2, <1>1, <1>3 DEF Rest
  <1>6. \A i \in 1..off[n] : st2[i] = st[i]
    BY <1>3, <1>4
  <1>7. Layers(st2, ex, off, n)
    BY <1>1, <1>2, <1>6, LayersOfWords
  <1> QED
    BY <1>1, <1>2, <1>5, <1>7 DEF Fits, st2

(* It continues with the thread that was put away last on the other stack. *)
LEMMA FitsResumed ==
    ASSUME NEW st \in Seq(Words), NEW ex \in Seq(Registers), NEW ex2 \in Seq(Registers),
           NEW off, ex # <<>>, Len(ex2) = Len(ex), Fits(st, ex, off, TRUE),
           \A k \in 1..(Len(ex) - 1) : ex2[k] = ex[k],
           ex2[Len(ex)].eip = ex[Len(ex)].eip
    PROVE  Fits(SubSeq(st, 1, Len(st) - 2), ex2, off, FALSE)
  <1> DEFINE st2 == SubSeq(st, 1, Len(st) - 2)
             n == Len(ex) - 1
             c == ex[n + 1]
             d == ex2[n + 1]
  <1>1. n \in Nat /\ n + 1 = Len(ex) /\ n < Len(ex) /\ n = Len(ex) - 1
    OBVIOUS
  <1> HIDE DEF n
  <1>2. Offsets(off, n) /\ Layers(st, ex, off, n) /\ Rest(st, c, off[n], TRUE)
    BY <1>1 DEF Fits
  <1>3. off[n] \in Nat /\ Below(c) \in {0, 1} /\ Len(st) = off[n] + Below(c) + 2
    BY <1>1, <1>2 DEF Offsets, Below, Rest
  <1>4. Below(d) = Below(c)
    BY <1>1 DEF Below
  <1>5. Len(st2) = off[n] + Below(c) /\ \A i \in 1..(off[n] + Below(c)) : st2[i] = st[i]
    BY <1>3
  <1> HIDE DEF st2
  <1>6. Rest(st2, d, off[n], FALSE)
    <2>1. Below(c) = 1 => st[off[n] + 1] = TrapRetCode
      BY <1>2 DEF Rest
    <2>2. Below(c) = 1 => st2[off[n] + 1] = st[off[n] + 1]
      <3>1. Below(c) = 1 => off[n] + 1 \in 1..(off[n] + Below(c))
        BY <1>3
      <3> QED
        BY <3>1, <1>5
    <2> QED
      BY <2>1, <2>2, <1>4, <1>5, <1>3 DEF Rest
  <1>7. \A i \in 1..off[n] : st2[i] = st[i]
    BY <1>3, <1>5
  <1>8. Layers(st2, ex2, off, n)
    <2>1. Layers(st2, ex, off, n)
      BY <1>1, <1>2, <1>7, LayersOfWords
    <2>2. (\A k \in 1..n : ex2[k] = ex[k]) /\ ex2[n + 1].eip = ex[n + 1].eip
      BY <1>1
    <2> QED
      BY <1>1, <2>1, <2>2, LayersOfExecs
  <1> QED
    BY <1>1, <1>2, <1>6, <1>8 DEF Fits, st2

(* A trap puts away whoever runs, below the words from base on.            *)
LEMMA FitsEntered ==
    ASSUME NEW st \in Seq(Words), NEW ex \in Seq(Registers), NEW off, ex # <<>>,
           Fits(st, ex, off, FALSE),
           NEW c, c = ex[Len(ex)], Sane(c), NEW no, Vector(no, c), no # Zero,
           NEW e, e = ErrorWord(no),
           NEW st2 \in Seq(Words), NEW h \in Registers, h.eip = <<"handler", Len(ex)>>,
           Len(st2) = Len(st) + EspOf(c) + 8 + e,
           \A i \in 1..Len(st) : st2[i] = st[i],
           Holds(st2, Len(st2), e, c),
           st2[Len(st2) - 3] = no
    PROVE  \E off2 : Fits(st2, Append(ex, h), off2, FALSE)
  <1> DEFINE n    == Len(ex) - 1
             m    == Len(ex)
             ex2  == Append(ex, h)
             b    == Len(st2)
             off2 == [k \in 0..m |-> IF k = m THEN b ELSE off[k]]
  <1>1. n \in Nat /\ n + 1 = m /\ n = m - 1 /\ m \in Nat /\ b \in Nat
    OBVIOUS
  <1>2. /\ ex2 \in Seq(Registers) /\ Len(ex2) = m + 1 /\ ex2[m + 1] = h
        /\ \A k \in 1..m : ex2[k] = ex[k]
    OBVIOUS
  <1> HIDE DEF n, m, ex2, b
  <1>3. Offsets(off, n) /\ Layers(st, ex, off, n) /\ Rest(st, c, off[n], FALSE)
    BY <1>1 DEF Fits, m, n
  <1>4. Below(c) \in {0, 1} /\ EspOf(c) \in {0, 1} /\ e \in {0, 1} /\ off[n] \in Nat
    BY <1>1, <1>3 DEF Below, EspOf, ErrorWord, Offsets
  <1>5. Len(st) = off[n] + Below(c) /\ b = off[n] + Below(c) + EspOf(c) + 8 + e
    BY <1>3, <1>4 DEF Rest, b
  <1>6. Offsets(off2, m)
    <2>1. \A k \in 0..n : off2[k] = off[k] /\ off[k] \in Nat /\ off[k] <= b
      <3> SUFFICES ASSUME NEW k \in 0..n
                   PROVE  off2[k] = off[k] /\ off[k] \in Nat /\ off[k] <= b
        OBVIOUS
      <3>1. off[k] \in Nat /\ off[k] <= off[n]
        BY <1>1, <1>3 DEF Offsets
      <3>2. off[n] <= b
        BY <1>1, <1>4, <1>5, SMTT(60)
      <3>3. off[k] <= b
        BY <3>1, <3>2, <1>1, <1>4, SMTT(60)
      <3>4. off2[k] = off[k]
        BY <1>1
      <3> QED
        BY <3>1, <3>3, <3>4
    <2>2. off2[m] = b /\ \A k \in 0..m : k \in 0..n \/ k = m
      BY <1>1, SMTT(60)
    <2>3. (\A k \in 0..m : off2[k] \in Nat) /\ off2[0] = 0
      <3>1. \A k \in 0..m : (IF k = m THEN b ELSE off[k]) \in Nat
        BY <2>1, <2>2, <1>1
      <3>2. 0 \in 0..n
        BY <1>1
      <3> QED
        BY <3>1, <3>2, <2>1, <1>3 DEF Offsets
    <2>4. ASSUME NEW j \in 0..m, NEW k \in 0..m, j <= k PROVE off2[j] <= off2[k]
      <3>1. CASE k = m
        <4>1. off2[k] = b /\ (off2[j] = b \/ off2[j] <= b)
          BY <3>1, <2>1, <2>2
        <4> QED
          BY <4>1, <1>1
      <3>2. CASE k # m
        <4>1. j \in 0..n /\ k \in 0..n
          BY <3>2, <2>4, <1>1
        <4> QED
          BY <4>1, <2>1, <2>4, <1>3 DEF Offsets
      <3> QED
        BY <3>1, <3>2
    <2> HIDE DEF off2
    <2> QED
      BY <2>3, <2>4 DEF Offsets
  <1>7. \A k \in 0..n : off2[k] = off[k]
    BY <1>1
  <1>8. off2[m] = b
    BY <1>1
  <1> HIDE DEF off2
  <1>9. Layers(st2, ex2, off, n)
    <2>1. Layers(st2, ex, off, n)
      <3>1. n < Len(ex)
        BY <1>1 DEF m
      <3>2. \A i \in 1..off[n] : i \in 1..Len(st)
        BY <1>4, <1>5
      <3>3. \A i \in 1..off[n] : st2[i] = st[i]
        BY <3>2
      <3> QED
        BY <3>1, <3>3, <1>1, <1>3, LayersOfWords
    <2>2. (\A k \in 1..n : ex2[k] = ex[k]) /\ ex2[n + 1].eip = ex[n + 1].eip
      BY <1>1, <1>2
    <2> QED
      BY <1>1, <2>1, <2>2, LayersOfExecs
  <1>10. Layer(st2, m, off[n], b, c, h.eip)
    <2>1. Below(c) = 1 => st2[off[n] + 1] = TrapRetCode
      <3>1. Below(c) = 1 => st[off[n] + 1] = TrapRetCode
        BY <1>3 DEF Rest
      <3>2. Below(c) = 1 => off[n] + 1 \in 1..Len(st)
        BY <1>4, <1>5
      <3> QED
        BY <3>1, <3>2
    <2>2. Holds(st2, b, e, c) /\ st2[b - 3] = no
      BY DEF b
    <2>3. Outcome(h.eip, m, c, no, e, c) /\ c \in Registers
      BY DEF Outcome, m, Sane
    <2> QED
      BY <1>5, <2>1, <2>2, <2>3 DEF Layer
  <1>11. Layers(st2, ex2, off2, m)
    <2> SUFFICES ASSUME NEW k \in 1..m
                 PROVE  Layer(st2, k, off2[k - 1], off2[k], ex2[k], ex2[k + 1].eip)
      BY DEF Layers
    <2>1. CASE k = m
      <3>1. k - 1 = n /\ n \in 0..n /\ m \in 1..m
        BY <2>1, <1>1
      <3>2. off2[k - 1] = off[n] /\ off2[k] = b /\ ex2[k] = c /\ ex2[k + 1] = h
        BY <3>1, <2>1, <1>2, <1>7, <1>8 DEF m
      <3> QED
        BY <3>2, <2>1, <1>10
    <2>2. CASE k # m
      <3>1. k \in 1..n /\ k \in 0..n /\ k - 1 \in 0..n
        BY <2>2, <1>1
      <3>2. Layer(st2, k, off[k - 1], off[k], ex2[k], ex2[k + 1].eip)
        BY <3>1, <1>9 DEF Layers
      <3> QED
        BY <3>1, <3>2, <1>7
    <2> QED
      BY <2>1, <2>2
  <1>12. Rest(st2, h, b, FALSE)
    <2>1. Below(h) = 0
      BY Different DEF Below
    <2> QED
      BY <2>1, <1>1 DEF Rest, b
  <1>13. Fits(st2, ex2, off2, FALSE)
    <2>1. Len(ex2) - 1 = m /\ ex2[Len(ex2)] = h
      BY <1>1, <1>2
    <2> QED
      BY <2>1, <1>6, <1>8, <1>11, <1>12 DEF Fits
  <1> QED
    BY <1>13 DEF ex2

(* The frame on top of a stack whose thread is not at the bottom.          *)
LEMMA TopFrame ==
    ASSUME NEW st \in Seq(Words), NEW ex \in Seq(Registers), NEW off, Len(ex) >= 2,
           Fits(st, ex, off, FALSE),
           ex[Len(ex)].eip \notin {ForkRet, <<"fork_ret", 1>>}
    PROVE  LET h  == ex[Len(ex)]
               c  == ex[Len(ex) - 1]
               a  == off[Len(ex) - 2]
               no == st[Len(st) - 3]
               e  == ErrorWord(no)
           IN  /\ off[Len(ex) - 1] = Len(st) /\ a \in Nat
               /\ Len(st) = a + Below(c) + EspOf(c) + 8 + e
               /\ Below(c) = 1 => st[a + 1] = TrapRetCode
               /\ Vector(no, c)
               /\ \E r \in Registers :
                     /\ Holds(st, Len(st), e, r)
                     /\ Outcome(h.eip, Len(ex) - 1, c, no, e, r)
  <1> DEFINE n == Len(ex) - 1
             h == ex[Len(ex)]
             c == ex[Len(ex) - 1]
  <1>1. /\ n \in Nat /\ n \in 1..n /\ n \in 0..n /\ n - 1 \in 0..n /\ n + 1 = Len(ex)
        /\ n = Len(ex) - 1 /\ n - 1 = Len(ex) - 2
    OBVIOUS
  <1> HIDE DEF n
  <1>2. Offsets(off, n) /\ Layers(st, ex, off, n) /\ Rest(st, h, off[n], FALSE)
    BY <1>1 DEF Fits
  <1>3. off[n] \in Nat /\ off[n - 1] \in Nat
    BY <1>1, <1>2 DEF Offsets
  <1>4. off[n] = Len(st)
    <2>1. Below(h) = 0
      BY DEF Below
    <2> QED
      BY <2>1, <1>2, <1>3 DEF Rest
  <1>5. Layer(st, n, off[n - 1], Len(st), c, h.eip)
    <2>1. Layer(st, n, off[n - 1], off[n], ex[n], ex[n + 1].eip)
      BY <1>1, <1>2 DEF Layers
    <2> QED
      BY <2>1, <1>1, <1>4
  <1> QED
    BY <1>1, <1>3, <1>4, <1>5 DEF Layer

(* A handler has come back, and the frame holds what it made of it.        *)
LEMMA FitsHandled ==
    ASSUME NEW st \in Seq(Words), NEW ex \in Seq(Registers), NEW off, Len(ex) >= 2,
           Fits(st, ex, off, FALSE), ex[Len(ex)].eip \notin {ForkRet, <<"fork_ret", 1>>},
           ErrorWord(st[Len(st) - 3]) = 0,
           NEW st2 \in Seq(Words), Len(st2) = Len(st), st2[Len(st) - 3] = st[Len(st) - 3],
           \A i \in 1..(Len(st) - 8) : st2[i] = st[i],
           NEW r \in Registers, Holds(st2, Len(st), 0, r),
           r \in After(ex[Len(ex) - 1], st[Len(st) - 3]),
           NEW ex2 \in Seq(Registers), Len(ex2) = Len(ex),
           \A i \in 1..(Len(ex) - 1) : ex2[i] = ex[i],
           ex2[Len(ex)].eip = TrapRetCode
    PROVE  Fits(st2, ex2, off, FALSE)
  <1> DEFINE n == Len(ex) - 1
             b == Len(st)
             a == off[n - 1]
             c == ex[Len(ex) - 1]
             no == st[Len(st) - 3]
  <1>1. /\ n \in Nat /\ n - 1 \in Nat /\ n \in 0..n /\ n + 1 = Len(ex) /\ b \in Nat
        /\ n = Len(ex) - 1 /\ n - 1 = Len(ex) - 2 /\ n - 1 + 1 = n /\ n - 1 < Len(ex)
    OBVIOUS
  <1>3. /\ off[n] = b /\ a \in Nat /\ b = a + Below(c) + EspOf(c) + 8
        /\ Below(c) = 1 => st[a + 1] = TrapRetCode
        /\ Vector(no, c)
    <2> HIDE DEF n, a, b
    <2>0. /\ off[Len(ex) - 1] = Len(st) /\ off[Len(ex) - 2] \in Nat
          /\ Len(st) = off[Len(ex) - 2] + Below(ex[Len(ex) - 1]) + EspOf(ex[Len(ex) - 1]) + 8
                        + ErrorWord(st[Len(st) - 3])
          /\ Below(ex[Len(ex) - 1]) = 1 => st[off[Len(ex) - 2] + 1] = TrapRetCode
          /\ Vector(st[Len(st) - 3], ex[Len(ex) - 1])
      <3>1. ex[Len(ex)].eip \notin {ForkRet, <<"fork_ret", 1>>}
        BY Different
      <3> QED
        BY <3>1, TopFrame, ZenonT(60)
    <2>1. /\ off[Len(ex) - 1] = b /\ off[Len(ex) - 2] \in Nat
          /\ b = off[Len(ex) - 2] + Below(c) + EspOf(c) + 8 + ErrorWord(no)
          /\ Below(c) = 1 => st[off[Len(ex) - 2] + 1] = TrapRetCode
          /\ Vector(no, c)
      BY <2>0 DEF b
    <2>2. Below(c) \in {0, 1} /\ EspOf(c) \in {0, 1}
      BY DEF Below, EspOf
    <2> QED
      BY <2>1, <2>2, <1>1, SMTT(60) DEF a
  <1> HIDE DEF n, a, b
  <1>4. Offsets(off, n) /\ Layers(st, ex, off, n)
    BY <1>1 DEF Fits
  <1>5. Below(c) \in {0, 1} /\ EspOf(c) \in {0, 1}
    BY DEF Below, EspOf
  <1>6. \A i \in 1..a : st2[i] = st[i]
    <2>1. b - 8 = a + Below(c) + EspOf(c) /\ a <= b - 8
      BY <1>3, <1>5, SMTT(60)
    <2>2. \A i \in 1..a : i \in 1..(b - 8)
      BY <2>1, <1>1, <1>3, SMTT(60)
    <2> QED
      BY <2>2 DEF b
  <1>7. Below(c) = 1 => st2[a + 1] = TrapRetCode
    <2>1. Below(c) = 1 => a + 1 \in 1..(b - 8)
      BY <1>1, <1>3, <1>5, SMTT(60)
    <2> QED
      BY <2>1, <1>3 DEF b
  <1>8. Layers(st2, ex2, off, n - 1)
    <2>1. Offsets(off, n - 1) /\ Layers(st, ex, off, n - 1)
      BY <1>1, <1>4, LowerLayers
    <2>2. Layers(st2, ex, off, n - 1)
      BY <1>1, <1>6, <2>1, LayersOfWords DEF a
    <2>3. (\A i \in 1..(n - 1) : ex2[i] = ex[i]) /\ (n - 1 = 0 \/ ex2[n].eip = ex[n].eip)
      BY <1>1, SMTT(60)
    <2> QED
      BY <1>1, <2>2, <2>3, LayersOfExecs
  <1>9. Layer(st2, n, a, b, c, TrapRetCode)
    <2>1. Outcome(TrapRetCode, n, c, no, 0, r)
      BY DEF Outcome
    <2> QED
      BY <2>1, <1>3, <1>5, <1>7, SMTT(60) DEF Layer, b
  <1>10. Layers(st2, ex2, off, n)
    <2> SUFFICES ASSUME NEW i \in 1..n
                 PROVE  Layer(st2, i, off[i - 1], off[i], ex2[i], ex2[i + 1].eip)
      BY DEF Layers
    <2>1. CASE i = n
      <3>1. off[i - 1] = a /\ off[i] = b /\ ex2[i] = c /\ ex2[i + 1].eip = TrapRetCode
        BY <2>1, <1>1, <1>3 DEF a
      <3> QED
        BY <3>1, <2>1, <1>9
    <2>2. CASE i # n
      <3>1. i \in 1..(n - 1)
        BY <2>2, <1>1
      <3> QED
        BY <3>1, <1>8 DEF Layers
    <2> QED
      BY <2>1, <2>2
  <1>11. Rest(st2, ex2[Len(ex)], off[n], FALSE)
    <2>1. Below(ex2[Len(ex)]) = 0
      BY Different DEF Below
    <2> QED
      BY <2>1, <1>1, <1>3 DEF Rest, b
  <1> QED
    BY <1>1, <1>4, <1>10, <1>11 DEF Fits

(* trap_ret takes the frame on top away and continues what it holds.       *)
LEMMA FitsReturned ==
    ASSUME NEW st \in Seq(Words), NEW ex \in Seq(Registers), NEW off, Len(ex) >= 2,
           Fits(st, ex, off, FALSE), ex[Len(ex)].eip = TrapRetCode,
           NEW c, c = ex[Len(ex) - 1],
           NEW no, no = st[Len(st) - 3],
           NEW r \in Registers, r \in After(c, no), ErrorWord(no) = 0,
           NEW ex2 \in Seq(Registers), Len(ex2) = Len(ex) - 1,
           \A i \in 1..(Len(ex) - 2) : ex2[i] = ex[i],
           ex2[Len(ex2)] = r
    PROVE  Fits(SubSeq(st, 1, Len(st) - 8 - EspOf(c)), ex2, off, FALSE)
  <1> DEFINE m == Len(ex) - 2
             a == off[m]
             b == Len(st)
             st2 == SubSeq(st, 1, b - 8 - EspOf(c))
  <1>1. /\ m \in Nat /\ m = Len(ex) - 2 /\ m + 1 = Len(ex) - 1
        /\ m + 1 = Len(ex2) /\ m < Len(ex)
        /\ m = Len(ex2) - 1 /\ b \in Nat /\ m \in 0..(m + 1) /\ m + 1 \in Nat
    OBVIOUS
  <1> HIDE DEF m, a, b, st2
  <1>2. Offsets(off, m + 1) /\ Layers(st, ex, off, m + 1)
    BY <1>1 DEF Fits
  <1>3. Offsets(off, m) /\ Layers(st, ex, off, m)
    BY <1>1, <1>2, LowerLayers
  <1>4. Below(c) \in {0, 1} /\ EspOf(c) \in {0, 1}
    BY DEF Below, EspOf
  <1>5. /\ a \in Nat /\ b = a + Below(c) + EspOf(c) + 8
        /\ Below(c) = 1 => st[a + 1] = TrapRetCode
        /\ Vector(no, c)
    <2>1. ex[Len(ex)].eip \notin {ForkRet, <<"fork_ret", 1>>}
      BY Different
    <2>2. /\ off[Len(ex) - 2] \in Nat
          /\ Len(st) = off[Len(ex) - 2] + Below(ex[Len(ex) - 1]) + EspOf(ex[Len(ex) - 1]) + 8
                        + ErrorWord(st[Len(st) - 3])
          /\ Below(ex[Len(ex) - 1]) = 1 => st[off[Len(ex) - 2] + 1] = TrapRetCode
          /\ Vector(st[Len(st) - 3], ex[Len(ex) - 1])
      BY <2>1, TopFrame
    <2> QED
      BY <2>2, <1>1, <1>4, SMTT(60) DEF a, b
  <1>6. Len(st2) = a + Below(c) /\ \A i \in 1..(a + Below(c)) : st2[i] = st[i]
    <2>0. a \in Nat /\ b = a + Below(c) + EspOf(c) + 8
      BY <1>5
    <2>1. b - 8 - EspOf(c) = a + Below(c) /\ a + Below(c) \in 0..b
      BY <1>4, <2>0, SMTT(60)
    <2> QED
      BY <2>1 DEF st2, b
  <1>7. r.eip = c.eip \/ (c.eip = User /\ r.eip = Skip(User))
    <2>0. c \in Registers
      BY <1>1
    <2>1. CASE no = No(0)
      <3>1. c.eip = User
        BY <2>1, <1>5, Different DEF Vector
      <3>2. r = [c EXCEPT !.eax = Zero, !.eip = Skip(@)]
        BY <2>1, Different DEF After
      <3> QED
        BY <2>0, <3>1, <3>2 DEF Registers
    <2>2. CASE no # No(0)
      <3>1. r = c \/ \E x : r = [c EXCEPT !.eax = x]
        BY <2>2, ZenonT(60) DEF After
      <3>2. \A x : [c EXCEPT !.eax = x].eip = c.eip
        BY <2>0 DEF Registers
      <3> QED
        BY <3>1, <3>2
    <2> QED
      BY <2>1, <2>2
  <1>8. Rest(st2, r, a, FALSE)
    <2>1. Below(r) = Below(c)
      BY <1>7 DEF Below, User, Skip, ForkRet
    <2>2. Below(c) = 1 => a + 1 \in 1..(a + Below(c))
      BY <1>5
    <2> QED
      BY <2>1, <2>2, <1>4, <1>5, <1>6 DEF Rest
  <1>9. m = 0 \/ r.eip = c.eip
    <2> SUFFICES ASSUME m # 0, c.eip = User PROVE FALSE
      BY <1>7
    <2>1. m \in 1..m
      BY <1>1
    <2>2. Layer(st, m, off[m - 1], off[m], ex[m], c.eip)
      BY <2>1, <1>1, <1>3 DEF Layers
    <2> QED
      BY <2>2, Different DEF Layer, Outcome, User, ForkRet, TrapRetCode
  <1>10. Layers(st2, ex2, off, m)
    <2>1. \A i \in 1..a : i \in 1..(a + Below(c))
      BY <1>4, <1>5
    <2>2. Layers(st2, ex, off, m)
      BY <2>1, <1>1, <1>3, <1>6, LayersOfWords DEF a
    <2>3. (\A i \in 1..m : ex2[i] = ex[i]) /\ (m = 0 \/ ex2[m + 1].eip = ex[m + 1].eip)
      BY <1>1, <1>9
    <2> QED
      BY <1>1, <2>2, <2>3, LayersOfExecs
  <1>11. Fits(st2, ex2, off, FALSE)
    BY <1>1, <1>3, <1>8, <1>10 DEF Fits, a
  <1> QED
    BY <1>11 DEF st2, b

-----------------------------------------------------------------------------
(* The stack in use *)

(* What the registers hold can be pushed.                                  *)
LEMMA RegisterWords ==
    ASSUME NEW c \in Registers
    PROVE  {c.eip, c.cs, c.eflags, c.esp, c.segs, c.eax, c.gp} \subseteq Words
  BY DEF Registers, Words, Data

(* Whoever runs and what it has put away.                                  *)
LEMMA Running ==
    ASSUME IInv
    PROVE  /\ on \in Stacks /\ stack[on] \in Seq(Words) /\ saved[on] \in Seq(Registers)
           /\ cpu \in Registers /\ Sane(cpu)
           /\ Execs(on) = Append(saved[on], cpu) /\ Execs(on) \in Seq(Registers)
           /\ Len(Execs(on)) = Len(saved[on]) + 1
           /\ Execs(on)[Len(saved[on]) + 1] = cpu
           /\ \A k \in 1..Len(saved[on]) :
                 Execs(on)[k] = saved[on][k] /\ Sane(saved[on][k])
           /\ Bottom(on, Execs(on)[1])
           /\ \E off : Fits(stack[on], Execs(on), off, FALSE)
  <1>1. /\ on \in Stacks /\ stack[on] \in Seq(Words)
        /\ saved[on] \in Seq(Registers) /\ cpu \in Registers
    BY DEF IInv, TypeOK
  <1>2. Execs(on) = Append(saved[on], cpu)
    BY DEF Execs
  <1>3. /\ Execs(on) \in Seq(Registers) /\ Len(Execs(on)) = Len(saved[on]) + 1
        /\ Execs(on)[Len(saved[on]) + 1] = cpu
        /\ \A k \in 1..Len(saved[on]) : Execs(on)[k] = saved[on][k]
    BY <1>1, <1>2
  <1>4. Thread(on, Execs(on)) /\ Shape(stack[on], Execs(on), FALSE)
    BY <1>1 DEF IInv
  <1>5. \A k \in 1..(Len(saved[on]) + 1) : Sane(Execs(on)[k])
    BY <1>3, <1>4 DEF Thread
  <1>6. Len(saved[on]) \in Nat
    BY <1>1
  <1>7. /\ Len(saved[on]) + 1 \in 1..(Len(saved[on]) + 1)
        /\ \A k \in 1..Len(saved[on]) : k \in 1..(Len(saved[on]) + 1)
    BY <1>6
  <1>8. Sane(cpu) /\ \A k \in 1..Len(saved[on]) : Sane(saved[on][k])
    BY <1>3, <1>5, <1>7
  <1> QED
    BY <1>1, <1>2, <1>3, <1>4, <1>8 DEF Thread, Shape

(* The scheduler and a user program run on an empty stack ...              *)
LEMMA AtBottom ==
    ASSUME IInv, cpu.eip = Sched \/ cpu.cs = UserCS
    PROVE  saved[on] = <<>> /\ stack[on] = <<>>
  <1> DEFINE n == Len(saved[on])
  <1>1. saved[on] \in Seq(Registers) /\ stack[on] \in Seq(Words) /\ n \in Nat
    BY Running
  <1>2. PICK off : Fits(stack[on], Execs(on), off, FALSE)
    BY Running
  <1>3. Len(Execs(on)) - 1 = n /\ Execs(on)[n + 1] = cpu /\ Execs(on)[Len(Execs(on))] = cpu
    BY <1>1, Running
  <1> HIDE DEF n
  <1>4. cpu.eip \in {Sched, User, Skip(User)}
    BY Running, Different DEF Sane
  <1>5. n = 0
    <2> SUFFICES ASSUME n # 0 PROVE FALSE
      OBVIOUS
    <2>1. Layer(stack[on], n, off[n - 1], off[n], Execs(on)[n], Execs(on)[n + 1].eip)
      BY <1>1, <1>2, <1>3 DEF Fits, Layers
    <2>2. \E c, no, e, r : Outcome(cpu.eip, n, c, no, e, r)
      BY <2>1, <1>3 DEF Layer
    <2> QED
      BY <2>2, <1>4, Different DEF Outcome, User, Skip, Sched, ForkRet, TrapRetCode
  <1>6. Rest(stack[on], cpu, 0, FALSE)
    BY <1>2, <1>3, <1>5 DEF Fits, Offsets
  <1>7. Len(stack[on]) = 0
    <2>1. Below(cpu) = 0
      BY <1>4 DEF Below, User, Skip, Sched, ForkRet
    <2> QED
      BY <2>1, <1>6 DEF Rest
  <1> QED
    BY <1>1, <1>5, <1>7 DEF n

(* ... and everybody else over something put away.                         *)
LEMMA AboveBottom ==
    ASSUME IInv, cpu.eip # Sched, cpu.cs = KernelCS
    PROVE  Len(saved[on]) \in Nat /\ Len(saved[on]) >= 1
  <1>1. Len(saved[on]) \in Nat /\ Len(saved[on]) + 1 = Len(Execs(on))
    BY Running
  <1>2. Len(saved[on]) = 0 => Bottom(on, cpu)
    BY <1>1, Running
  <1> QED
    BY <1>1, <1>2, Different DEF Bottom

(* What has to be shown of a step on one stack.                            *)
LEMMA OnOneStack ==
    ASSUME IInv, pc' \in {"code", "halt"}, UNCHANGED on, Sane(cpu'),
           NEW st \in Seq(Words), stack' = [stack EXCEPT ![on] = st],
           NEW sv \in Seq(Registers), saved' = [saved EXCEPT ![on] = sv], Len(sv) <= MaxDepth,
           \A k \in 1..Len(sv) : Sane(sv[k]),
           Bottom(on, Append(sv, cpu')[1]),
           NEW off, Fits(st, Append(sv, cpu'), off, FALSE)
    PROVE  IInv'
  <1>1. cpu' \in Registers
    BY DEF Sane
  <1>2. /\ on \in Stacks /\ stack \in [Stacks -> Seq(Words)]
        /\ saved \in [Stacks -> Seq(Registers)]
        /\ \A s \in Stacks : Len(saved[s]) <= MaxDepth
    BY DEF IInv, TypeOK
  <1>3. /\ stack'[on] = st /\ saved'[on] = sv
        /\ \A s \in Stacks : s # on => stack'[s] = stack[s] /\ saved'[s] = saved[s]
    BY <1>2
  <1>4. TypeOK'
    <2>1. /\ stack' \in [Stacks -> Seq(Words)]
          /\ saved' \in [Stacks -> Seq(Registers)]
      BY <1>2
    <2>2. \A s \in Stacks : Len(saved'[s]) <= MaxDepth
      BY <1>2, <1>3
    <2> QED
      BY <1>1, <1>2, <2>1, <2>2 DEF TypeOK
  <1>5. ASSUME NEW s \in Stacks, s # on
        PROVE  (Thread(s, Execs(s)) /\ Shape(stack[s], Execs(s), s # on))'
    <2>1. Execs(s)' = Execs(s) /\ stack'[s] = stack[s]
      BY <1>3, <1>5 DEF Execs
    <2>2. Thread(s, Execs(s)) /\ Shape(stack[s], Execs(s), s # on)
      BY DEF IInv
    <2> QED
      BY <2>1, <2>2
  <1>6. (Thread(on, Execs(on)) /\ Shape(stack[on], Execs(on), FALSE))'
    <2> DEFINE ex == Append(sv, cpu')
    <2>1. Execs(on)' = ex /\ stack'[on] = st
      BY <1>3 DEF Execs
    <2>2. /\ ex \in Seq(Registers) /\ ex # <<>> /\ Len(ex) = Len(sv) + 1
          /\ ex[Len(sv) + 1] = cpu' /\ \A k \in 1..Len(sv) : ex[k] = sv[k]
      BY <1>1
    <2>3. \A k \in 1..Len(ex) : Sane(ex[k])
      <3>1. \A k \in 1..Len(ex) : k \in 1..Len(sv) \/ k = Len(sv) + 1
        BY <2>2
      <3> QED
        BY <2>2, <3>1
    <2>4. Thread(on, ex) /\ Shape(st, ex, FALSE)
      BY <2>2, <2>3 DEF Thread, Shape
    <2> QED
      BY <2>1, <2>4
  <1>7. ASSUME NEW s \in Stacks
        PROVE  (Thread(s, Execs(s)) /\ Shape(stack[s], Execs(s), s # on))'
    <2>1. CASE s = on
      BY <2>1, <1>6
    <2>2. CASE s # on
      BY <2>2, <1>5
    <2> QED
      BY <2>1, <2>2
  <1> QED
    BY <1>4, <1>7 DEF IInv

(* A thread goes on without the stack.                                     *)
LEMMA OffStack ==
    ASSUME IInv, UNCHANGED <<on, stack, saved, pc>>, Sane(cpu'),
           \/ cpu'.eip = cpu.eip /\ cpu'.cs = cpu.cs
           \/ cpu.eip = ForkRet /\ cpu'.eip = <<"fork_ret", 1>>
           \/ cpu.cs = UserCS /\ cpu'.cs = UserCS
    PROVE  IInv'
  <1> DEFINE ex  == Execs(on)
             ex2 == Append(saved[on], cpu')
             n   == Len(saved[on])
  <1>1. /\ on \in Stacks /\ ex \in Seq(Registers) /\ Len(ex) = n + 1 /\ n \in Nat
        /\ ex[n + 1] = cpu /\ saved[on] \in Seq(Registers) /\ stack[on] \in Seq(Words)
        /\ \A k \in 1..n : ex[k] = saved[on][k] /\ Sane(saved[on][k])
        /\ Bottom(on, ex[1]) /\ Sane(cpu)
    BY Running
  <1>2. /\ ex2 \in Seq(Registers) /\ Len(ex2) = n + 1 /\ ex2[n + 1] = cpu'
        /\ \A k \in 1..n : ex2[k] = saved[on][k]
    BY <1>1 DEF Sane
  <1>3. PICK off : Fits(stack[on], ex, off, FALSE)
    BY Running
  <1>4. cpu.eip # ForkRet \/ n >= 1
    BY <1>1, AboveBottom, Different DEF Sane, User, Skip, ForkRet, Sched
  <1>5. Bottom(on, ex2[1])
    <2>1. CASE n = 0
      <3>1. ex[1] = cpu /\ ex2[1] = cpu' /\ cpu.eip # ForkRet
        BY <2>1, <1>1, <1>2, <1>4
      <3>2. CASE cpu'.eip = cpu.eip /\ cpu'.cs = cpu.cs
        BY <3>1, <3>2, <1>1 DEF Bottom
      <3>3. CASE cpu.cs = UserCS /\ cpu'.cs = UserCS
        <4>1. cpu.eip # Sched
          BY <3>3, <1>1 DEF Sane, UserCS, KernelCS, User, Skip, Sched
        <4> QED
          BY <4>1, <3>1, <3>3, <1>1 DEF Bottom
      <3> QED
        BY <3>1, <3>2, <3>3
    <2>2. CASE n # 0
      <3>1. 1 \in 1..n
        BY <2>2, <1>1
      <3> QED
        BY <3>1, <1>1, <1>2
    <2> QED
      BY <2>1, <2>2
  <1>6. Fits(stack[on], ex2, off, FALSE)
    <2>1. \/ Len(ex) = 1 /\ Below(ex2[1]) = Below(ex[1])
          \/ ex2[Len(ex)].eip = ex[Len(ex)].eip
          \/ ex[Len(ex)].eip = ForkRet /\ ex2[Len(ex)].eip = <<"fork_ret", 1>>
      <3>1. CASE cpu.cs = UserCS /\ cpu'.cs = UserCS
        <4>1. n = 0
          BY <3>1, AtBottom
        <4>2. cpu.eip \in {User, Skip(User)} /\ cpu'.eip \in {User, Skip(User)}
          BY <3>1, <1>1, Different DEF Sane
        <4>3. Below(cpu') = Below(cpu)
          BY <4>2 DEF Below, User, Skip, ForkRet
        <4> QED
          BY <4>1, <4>3, <1>1, <1>2
      <3> QED
        BY <3>1, <1>1, <1>2
    <2>2. \A k \in 1..(Len(ex) - 1) : ex2[k] = ex[k]
      BY <1>1, <1>2
    <2>3. ex # <<>> /\ Len(ex2) = Len(ex)
      BY <1>1, <1>2
    <2> HIDE DEF ex, ex2
    <2> QED
      BY <1>1, <1>2, <1>3, <2>1, <2>2, <2>3, FitsMoved
  <1>7. /\ stack' = [stack EXCEPT ![on] = stack[on]]
        /\ saved' = [saved EXCEPT ![on] = saved[on]]
        /\ Len(saved[on]) <= MaxDepth /\ pc' \in {"code", "halt"}
    BY DEF IInv, TypeOK
  <1> QED
    BY <1>1, <1>5, <1>6, <1>7, OnOneStack

-----------------------------------------------------------------------------
(* The steps *)

(* Panics, and the handlers that stop the machine.                         *)
LEMMA StopStep ==
    ASSUME IInv, UNCHANGED <<cpu, on, stack, saved>>, pc' \in {"code", "halt"}
    PROVE  IInv'
  <1>1. TypeOK'
    BY DEF IInv, TypeOK
  <1>2. \A s \in Stacks : Execs(s)' = Execs(s)
    BY DEF Execs
  <1> QED
    BY <1>1, <1>2 DEF IInv

(* Registers at the start of a handler.                                    *)
LEMMA KernelTypes ==
    ASSUME HandlersCanReturn, NEW k \in 1..MaxDepth
    PROVE  Sane(InKernel(<<"handler", k>>))
  <1>1. k \in -1..MaxDepth
    BY DEF HandlersCanReturn
  <1>2. <<"handler", k>> \in Eips /\ <<"handler", k>> \in KernelEips /\ Regs(k) \in Data
    BY <1>1 DEF Eips, KernelEips, Data
  <1>3. <<"handler", k>>[2] = k
    OBVIOUS
  <1> QED
    BY <1>2, <1>3 DEF InKernel, Sane, Registers

(* Words pushed on others.                                                 *)
Join(s, t) == s \o t
(* What is pushed comes after what was there.                              *)
LEMMA JoinFacts ==
    ASSUME NEW s \in Seq(Words), NEW t \in Seq(Words)
    PROVE  /\ Join(s, t) \in Seq(Words) /\ Len(Join(s, t)) = Len(s) + Len(t)
           /\ \A i \in 1..Len(s) : Join(s, t)[i] = s[i]
           /\ \A i \in 1..Len(t) : Join(s, t)[Len(s) + i] = t[i]
  BY DEF Join

(* Three words of the CPU, maybe a fourth, two of the stub, three of pusha *)
(* and push ds.                                                            *)
Framed(low, err, c, no) ==
    Join(Join(Join(Join(low, <<c.eflags, c.cs, c.eip>>), err), <<Zero, no>>),
         <<c.segs, c.eax, c.gp>>)

(* The words of struct trap_frame, counted from the top of the stack.      *)
LEMMA FrameOnStack ==
    ASSUME NEW low \in Seq(Words), NEW c \in Registers, NEW no \in Words,
           NEW err \in Seq(Words), Len(err) \in {0, 1}
    PROVE  LET st == Framed(low, err, c, no)
               b  == Len(st)
               e  == Len(err)
           IN  /\ st \in Seq(Words) /\ b = Len(low) + 8 + e
               /\ \A i \in 1..Len(low) : st[i] = low[i]
               /\ st[b] = c.gp /\ st[b - 1] = c.eax /\ st[b - 2] = c.segs
               /\ st[b - 3] = no /\ st[b - 5 - e] = c.eip
               /\ st[b - 6 - e] = c.cs /\ st[b - 7 - e] = c.eflags
  <1> DEFINE t1 == <<c.eflags, c.cs, c.eip>>
             t3 == <<Zero, no>>
             t4 == <<c.segs, c.eax, c.gp>>
             s1 == Join(low, t1)
             s2 == Join(s1, err)
             s3 == Join(s2, t3)
             st == Join(s3, t4)
             n  == Len(low)
             e  == Len(err)
  <1>1. /\ t1 \in Seq(Words) /\ Len(t1) = 3
        /\ t1[1] = c.eflags /\ t1[2] = c.cs /\ t1[3] = c.eip
        /\ t3 \in Seq(Words) /\ Len(t3) = 2 /\ t3[2] = no
        /\ t4 \in Seq(Words) /\ Len(t4) = 3 /\ t4[1] = c.segs /\ t4[2] = c.eax /\ t4[3] = c.gp
    <2>1. Zero \in Words
      BY DEF Words, Data
    <2> QED
      BY <2>1, RegisterWords
  <1>2. n \in Nat /\ e \in {0, 1} /\ st = Framed(low, err, c, no)
    BY DEF Framed
  <1> HIDE DEF t1, t3, t4
  <1>3. /\ s1 \in Seq(Words) /\ Len(s1) = n + 3 /\ \A i \in 1..n : s1[i] = low[i]
        /\ \A i \in 1..3 : s1[n + i] = t1[i]
    <2>1. /\ s1 \in Seq(Words) /\ Len(s1) = Len(low) + Len(t1)
          /\ \A i \in 1..Len(low) : s1[i] = low[i]
          /\ \A i \in 1..Len(t1) : s1[Len(low) + i] = t1[i]
      BY <1>1, JoinFacts
    <2> QED
      BY <2>1, <1>1
  <1> HIDE DEF s1
  <1>4. /\ s2 \in Seq(Words) /\ Len(s2) = n + 3 + e /\ \A i \in 1..(n + 3) : s2[i] = s1[i]
    <2>1. /\ s2 \in Seq(Words) /\ Len(s2) = Len(s1) + Len(err)
          /\ \A i \in 1..Len(s1) : s2[i] = s1[i]
          /\ \A i \in 1..Len(err) : s2[Len(s1) + i] = err[i]
      BY <1>3, JoinFacts
    <2> QED
      BY <2>1, <1>3
  <1> HIDE DEF s2
  <1>5. /\ s3 \in Seq(Words) /\ Len(s3) = n + 3 + e + 2
        /\ \A i \in 1..(n + 3 + e) : s3[i] = s2[i]
        /\ \A i \in 1..2 : s3[n + 3 + e + i] = t3[i]
    <2>1. /\ s3 \in Seq(Words) /\ Len(s3) = Len(s2) + Len(t3)
          /\ \A i \in 1..Len(s2) : s3[i] = s2[i]
          /\ \A i \in 1..Len(t3) : s3[Len(s2) + i] = t3[i]
      BY <1>1, <1>4, JoinFacts, ZenonT(60)
    <2> QED
      BY <2>1, <1>1, <1>4
  <1> HIDE DEF s3
  <1>6. /\ st \in Seq(Words) /\ Len(st) = n + 3 + e + 2 + 3
        /\ \A i \in 1..(n + 3 + e + 2) : st[i] = s3[i]
        /\ \A i \in 1..3 : st[n + 3 + e + 2 + i] = t4[i]
    <2>1. /\ st \in Seq(Words) /\ Len(st) = Len(s3) + Len(t4)
          /\ \A i \in 1..Len(s3) : st[i] = s3[i]
          /\ \A i \in 1..Len(t4) : st[Len(s3) + i] = t4[i]
      BY <1>1, <1>5, JoinFacts, ZenonT(60)
    <2> QED
      BY <2>1, <1>1, <1>5
  <1> HIDE DEF n, e, st
  <1>7. \A i \in 1..(n + 3) : st[i] = s1[i]
    <2>1. \A i \in 1..(n + 3) : i \in 1..(n + 3 + e) /\ i \in 1..(n + 3 + e + 2)
      BY <1>2
    <2> QED
      BY <2>1, <1>4, <1>5, <1>6
  <1>8. \A i \in 1..n : st[i] = low[i]
    <2>1. \A i \in 1..n : i \in 1..(n + 3)
      BY <1>2
    <2> QED
      BY <2>1, <1>3, <1>7
  <1>9. st[n + 1] = c.eflags /\ st[n + 2] = c.cs /\ st[n + 3] = c.eip
    <2>1. {n + 1, n + 2, n + 3} \subseteq 1..(n + 3)
      BY <1>2
    <2> QED
      BY <2>1, <1>1, <1>3, <1>7
  <1>10. st[n + 3 + e + 2] = no
    <2>1. n + 3 + e + 2 \in 1..(n + 3 + e + 2)
      BY <1>2
    <2> QED
      BY <2>1, <1>1, <1>5, <1>6
  <1>11. LET b == Len(st) IN
         /\ b = n + 8 + e /\ b = n + 3 + e + 2 + 3 /\ b - 1 = n + 3 + e + 2 + 2
         /\ b - 2 = n + 3 + e + 2 + 1 /\ b - 3 = n + 3 + e + 2
         /\ b - 5 - e = n + 3 /\ b - 6 - e = n + 2 /\ b - 7 - e = n + 1
    BY <1>2, <1>6
  <1>12. st[Len(st)] = c.gp /\ st[Len(st) - 1] = c.eax /\ st[Len(st) - 2] = c.segs
    <2>1. /\ st[n + 3 + e + 2 + 1] = t4[1] /\ st[n + 3 + e + 2 + 2] = t4[2]
          /\ st[n + 3 + e + 2 + 3] = t4[3]
      <3>1. 1 \in 1..3 /\ 2 \in 1..3 /\ 3 \in 1..3
        OBVIOUS
      <3> QED
        BY <3>1, <1>6
    <2>2. t4[1] = c.segs /\ t4[2] = c.eax /\ t4[3] = c.gp
      BY <1>1
    <2>3. /\ Len(st) = n + 3 + e + 2 + 3 /\ Len(st) - 1 = n + 3 + e + 2 + 2
          /\ Len(st) - 2 = n + 3 + e + 2 + 1
      BY <1>11
    <2> QED
      BY <2>1, <2>2, <2>3
  <1>13. /\ st[Len(st) - 3] = no /\ st[Len(st) - 5 - e] = c.eip
         /\ st[Len(st) - 6 - e] = c.cs /\ st[Len(st) - 7 - e] = c.eflags
    BY <1>9, <1>10, <1>11
  <1>14. Len(st) = n + 8 + e
    BY <1>11
  <1> QED
    BY <1>2, <1>6, <1>8, <1>12, <1>13, <1>14 DEF n, e

(* A trap or interrupt, from user mode or from the kernel.                 *)
LEMMA EnterStep ==
    ASSUME HandlersCanReturn, IInv, pc = "code", NEW n \in Vectors, Enter(n),
           n \in WithError => n \in HaltVectors, n = 0 => cpu.eip = User
    PROVE  IInv'
  <1> DEFINE k   == Len(saved[on])
             ex  == Execs(on)
             h   == InKernel(<<"handler", k + 1>>)
             e   == ErrorWord(No(n))
             st2 == HardwareFrame(n) \o Stub(n) \o <<cpu.segs, cpu.eax, cpu.gp>>
  <1>1. /\ on \in Stacks /\ ex \in Seq(Registers) /\ Len(ex) = k + 1 /\ k \in Nat
        /\ ex[k + 1] = cpu /\ saved[on] \in Seq(Registers) /\ stack[on] \in Seq(Words)
        /\ \A j \in 1..k : ex[j] = saved[on][j] /\ Sane(saved[on][j])
        /\ ex = Append(saved[on], cpu)
        /\ Bottom(on, ex[1]) /\ Sane(cpu) /\ cpu \in Registers
    BY Running
  <1>2. PICK off : Fits(stack[on], ex, off, FALSE)
    BY Running
  <1>3. /\ k < MaxDepth /\ UNCHANGED <<on, pc>> /\ cpu' = h
        /\ stack' = [stack EXCEPT ![on] = st2] /\ saved' = [saved EXCEPT ![on] = ex]
    BY <1>1 DEF Enter
  <1>4. Sane(h) /\ h \in Registers /\ h.eip = <<"handler", k + 1>>
    <2>1. k + 1 \in 1..MaxDepth
      BY <1>1, <1>3 DEF HandlersCanReturn
    <2> QED
      BY <2>1, KernelTypes DEF Sane, InKernel
  <1>5. e = IF n \in WithError THEN 1 ELSE 0
    BY Different DEF ErrorWord
  <1>6. /\ st2 \in Seq(Words) /\ Len(st2) = Len(stack[on]) + EspOf(cpu) + 8 + e
        /\ \A i \in 1..Len(stack[on]) : st2[i] = stack[on][i]
        /\ Holds(st2, Len(st2), e, cpu)
        /\ st2[Len(st2) - 3] = No(n)
    <2> DEFINE low == IF cpu.cs = UserCS THEN <<cpu.esp>> ELSE stack[on]
               err == IF n \in WithError THEN <<Err(n)>> ELSE <<>>
               b   == Len(st2)
    <2>1. /\ low \in Seq(Words) /\ Len(low) = Len(stack[on]) + EspOf(cpu)
          /\ \A i \in 1..Len(stack[on]) : low[i] = stack[on][i]
          /\ cpu.cs = UserCS => low[Len(low)] = cpu.esp /\ Len(low) = 1
      <3>1. CASE cpu.cs = UserCS
        <4>1. stack[on] = <<>>
          BY <3>1, AtBottom
        <4> QED
          BY <3>1, <4>1, <1>1, RegisterWords DEF EspOf
      <3>2. CASE cpu.cs # UserCS
        BY <3>2, <1>1 DEF EspOf
      <3> QED
        BY <3>1, <3>2
    <2>2. err \in Seq(Words) /\ Len(err) = e
      <3>1. CASE n \in WithError
        <4>1. Err(n) \in Words
          BY <3>1 DEF Words
        <4> QED
          BY <3>1, <4>1, <1>5
      <3>2. CASE n \notin WithError
        BY <3>2, <1>5
      <3> QED
        BY <3>1, <3>2
    <2>3. /\ Zero \in Words /\ No(n) \in Words /\ e \in {0, 1}
          /\ cpu.eip \in Words /\ cpu.cs \in Words /\ cpu.eflags \in Words
          /\ cpu.segs \in Words /\ cpu.eax \in Words /\ cpu.gp \in Words
      BY <1>1, <1>5, RegisterWords DEF Words, Data
    <2>4. st2 = Framed(low, err, cpu, No(n))
      BY DEF HardwareFrame, Stub, Framed, Join
    <2> HIDE DEF low, err, st2, e
    <2>5. /\ st2 \in Seq(Words) /\ b = Len(low) + 8 + e
          /\ \A i \in 1..Len(low) : st2[i] = low[i]
          /\ st2[b] = cpu.gp /\ st2[b - 1] = cpu.eax /\ st2[b - 2] = cpu.segs
          /\ st2[b - 3] = No(n) /\ st2[b - 5 - e] = cpu.eip
          /\ st2[b - 6 - e] = cpu.cs /\ st2[b - 7 - e] = cpu.eflags
      <3>1. /\ cpu \in Registers /\ low \in Seq(Words) /\ err \in Seq(Words)
            /\ Len(err) \in {0, 1} /\ No(n) \in Words
        BY <1>1, <2>1, <2>2, <2>3
      <3> DEFINE st == Framed(low, err, cpu, No(n))
      <3>2. /\ st \in Seq(Words) /\ Len(st) = Len(low) + 8 + Len(err)
            /\ \A i \in 1..Len(low) : st[i] = low[i]
            /\ st[Len(st)] = cpu.gp /\ st[Len(st) - 1] = cpu.eax /\ st[Len(st) - 2] = cpu.segs
            /\ st[Len(st) - 3] = No(n) /\ st[Len(st) - 5 - Len(err)] = cpu.eip
            /\ st[Len(st) - 6 - Len(err)] = cpu.cs /\ st[Len(st) - 7 - Len(err)] = cpu.eflags
        BY <3>1, FrameOnStack, SMTT(60)
      <3> QED
        BY <2>2, <2>4, <3>2
    <2>6. /\ Len(low) \in Nat /\ Len(stack[on]) \in Nat /\ EspOf(cpu) \in {0, 1}
          /\ \A i \in 1..Len(stack[on]) : i \in 1..Len(low)
      <3>1. Len(low) \in Nat /\ Len(stack[on]) \in Nat
        BY <1>1, <2>1
      <3>2. EspOf(cpu) \in {0, 1}
        BY DEF EspOf
      <3> QED
        BY <3>1, <3>2, <2>1
    <2>7. cpu.cs = UserCS => st2[b - 8 - e] = cpu.esp
      <3>1. b - 8 - e = Len(low)
        BY <2>3, <2>5, <2>6
      <3>2. cpu.cs = UserCS => 1 \in 1..Len(low)
        BY <2>1, <2>6
      <3> QED
        BY <3>1, <3>2, <2>1, <2>5
    <2> QED
      BY <2>1, <2>3, <2>5, <2>6, <2>7 DEF Holds
  <1>7. Vector(No(n), cpu) /\ No(n) # Zero
    BY Different DEF Vector
  <1> HIDE DEF ex, h, e, st2
  <1>8. \E off2 : Fits(st2, Append(ex, h), off2, FALSE)
    <2>1. ex # <<>> /\ ex[Len(ex)] = cpu /\ h.eip = <<"handler", Len(ex)>>
      BY <1>1, <1>4
    <2>2. e = ErrorWord(No(n))
      BY DEF e
    <2> QED
      BY <2>1, <2>2, <1>1, <1>2, <1>4, <1>6, <1>7, FitsEntered
  <1>9. Bottom(on, Append(ex, h)[1]) /\ Len(ex) <= MaxDepth
    BY <1>1, <1>3, <1>4 DEF HandlersCanReturn
  <1>10. \A j \in 1..Len(ex) : Sane(ex[j])
    <2>1. \A j \in 1..Len(ex) : j \in 1..k \/ j = k + 1
      BY <1>1
    <2> QED
      BY <2>1, <1>1
  <1> QED
    BY <1>1, <1>3, <1>4, <1>6, <1>8, <1>9, <1>10, OnOneStack

(* What a handler that goes on finds on the stack.                         *)
LEMMA HandlerFinds ==
    ASSUME IInv, InHandler, IntNo \notin HaltVectors
    PROVE  LET k  == Len(saved[on])
               c  == saved[on][k]
               b  == Len(stack[on])
               no == stack[on][b - 3]
           IN  /\ k \in Nat /\ k >= 1 /\ b \in Nat /\ b >= 8 /\ c \in Registers /\ Sane(c)
               /\ c.cs = UserCS => b >= 9
               /\ cpu.eip = <<"handler", k>> /\ cpu.cs = KernelCS
               /\ IntNo \in Vectors /\ no = No(IntNo) /\ no # Zero /\ ErrorWord(no) = 0
               /\ IntNo = 0 => c.eip = User
               /\ Holds(stack[on], b, 0, c)
  <1> DEFINE k  == Len(saved[on])
             c  == saved[on][k]
             st == stack[on]
             b  == Len(st)
             no == st[b - 3]
             ex == Execs(on)
  <1>1. /\ ex \in Seq(Registers) /\ Len(ex) = k + 1 /\ k \in Nat /\ b \in Nat
        /\ ex[k + 1] = cpu /\ saved[on] \in Seq(Registers) /\ st \in Seq(Words)
        /\ \A j \in 1..k : ex[j] = saved[on][j] /\ Sane(saved[on][j])
        /\ Sane(cpu)
    BY Running
  <1>2. cpu.cs = KernelCS /\ cpu.eip[1] = "handler"
    BY <1>1, Different DEF InHandler, Sane
  <1>3. \E i : cpu.eip = <<"handler", i>>
    BY <1>1, <1>2, Different DEF Sane, KernelEips
  <1>4. k >= 1
    BY <1>2, AboveBottom, Different
  <1>5. ex[k] = c /\ Sane(c) /\ c \in Registers
    <2>1. k \in 1..k
      BY <1>1, <1>4
    <2> QED
      BY <2>1, <1>1 DEF Sane
  <1>6. PICK off : Fits(st, ex, off, FALSE)
    BY Running
  <1>7. /\ Len(ex) >= 2 /\ Len(ex) - 1 = k /\ Len(ex) - 2 = k - 1
        /\ ex[Len(ex)].eip \notin {ForkRet, <<"fork_ret", 1>>}
    BY <1>1, <1>3, <1>4, Different
  <1> HIDE DEF ex, k, c
  <1>8. /\ off[k - 1] \in Nat
        /\ b = off[k - 1] + Below(c) + EspOf(c) + 8 + ErrorWord(no)
        /\ Vector(no, c)
        /\ \E r \in Registers :
              Holds(st, b, ErrorWord(no), r) /\ Outcome(cpu.eip, k, c, no, ErrorWord(no), r)
    <2>1. /\ off[Len(ex) - 2] \in Nat
          /\ Len(st) = off[Len(ex) - 2] + Below(ex[Len(ex) - 1]) + EspOf(ex[Len(ex) - 1]) + 8
                        + ErrorWord(st[Len(st) - 3])
          /\ Vector(st[Len(st) - 3], ex[Len(ex) - 1])
          /\ \E r \in Registers :
                /\ Holds(st, Len(st), ErrorWord(st[Len(st) - 3]), r)
                /\ Outcome(ex[Len(ex)].eip, Len(ex) - 1, ex[Len(ex) - 1], st[Len(st) - 3],
                           ErrorWord(st[Len(st) - 3]), r)
      BY <1>1, <1>6, <1>7, TopFrame
    <2>2. ex[Len(ex) - 1] = c /\ ex[Len(ex)] = cpu /\ Len(ex) - 1 = k
      BY <1>1, <1>5, <1>7
    <2> QED
      BY <2>1, <2>2, <1>7
  <1>9. cpu.eip = <<"handler", k>> /\ no # Zero /\ Holds(st, b, ErrorWord(no), c)
    BY <1>3, <1>8, Different DEF Outcome
  <1>10. no = No(IntNo)
    <2>1. Field(Frame, "int_no") = no
      BY <1>1, Depths, SMTT(60) DEF Field, Frame
    <2> QED
      BY <2>1, <1>8, <1>9, Different DEF Vector, IntNo
  <1>11. IntNo \in Vectors /\ IntNo \notin WithError /\ (IntNo = 0 => c.eip = User)
    BY <1>8, <1>9, <1>10, Different DEF Vector
  <1>12. ErrorWord(no) = 0
    BY <1>10, <1>11, Different DEF ErrorWord
  <1>13. b >= 8 /\ (c.cs = UserCS => b >= 9)
    BY <1>8, <1>12 DEF Below, EspOf
  <1> QED
    BY <1>1, <1>2, <1>4, <1>5, <1>9, <1>10, <1>11, <1>12, <1>13 DEF k, c

(* A handler comes back with eax, and maybe eip, of the frame changed.     *)
LEMMA ReturnStep ==
    ASSUME HandlersCanReturn, IInv, InHandler, IntNo \notin HaltVectors,
           NEW frame \in Seq(Words), Return(frame), Len(frame) = Len(Frame),
           \A i \in 1..(Len(Frame) - 8) : frame[i] = Frame[i],
           frame[Len(Frame) - 3] = Frame[Len(Frame) - 3],
           NEW r \in Registers, r \in After(saved[on][Len(saved[on])], No(IntNo)),
           Holds(frame, Len(Frame), 0, r)
    PROVE  IInv'
  <1> DEFINE k  == Len(saved[on])
             c  == saved[on][k]
             st == stack[on]
             no == st[Len(st) - 3]
             ex == Execs(on)
             ex2 == Append(saved[on], cpu')
  <1>1. /\ on \in Stacks /\ ex \in Seq(Registers) /\ Len(ex) = k + 1 /\ k \in Nat
        /\ ex[k + 1] = cpu /\ saved[on] \in Seq(Registers) /\ st \in Seq(Words)
        /\ \A j \in 1..k : ex[j] = saved[on][j] /\ Sane(saved[on][j])
        /\ Bottom(on, ex[1]) /\ Sane(cpu)
    BY Running
  <1>2. /\ k >= 1 /\ c \in Registers /\ cpu.eip = <<"handler", k>> /\ cpu.cs = KernelCS
        /\ no = No(IntNo) /\ ErrorWord(no) = 0
    BY HandlerFinds
  <1>3. /\ cpu' = [cpu EXCEPT !.eip = TrapRetCode] /\ UNCHANGED <<on, pc>> /\ pc = "code"
        /\ stack' = [stack EXCEPT ![on] = frame] /\ saved' = [saved EXCEPT ![on] = saved[on]]
    BY <1>1 DEF Return, InHandler, IInv, TypeOK
  <1>4. Sane(cpu') /\ cpu'.eip = TrapRetCode /\ cpu' \in Registers
    <2>1. cpu \in Registers /\ TrapRetCode \in Eips /\ TrapRetCode \in KernelEips
      BY <1>1 DEF Sane, Eips, KernelEips
    <2>2. /\ cpu' \in Registers /\ cpu'.eip = TrapRetCode /\ cpu'.cs = cpu.cs
          /\ cpu'.esp = cpu.esp /\ cpu'.segs = cpu.segs
      BY <2>1, <1>3 DEF Registers
    <2> QED
      BY <2>1, <2>2, <1>1, <1>2, Different DEF Sane
  <1>5. /\ ex2 \in Seq(Registers) /\ Len(ex2) = k + 1 /\ ex2[k + 1] = cpu'
        /\ \A j \in 1..k : ex2[j] = saved[on][j]
    BY <1>1, <1>4
  <1>6. PICK off : Fits(st, ex, off, FALSE)
    BY Running
  <1>7. Bottom(on, ex2[1])
    <2>1. 1 \in 1..k
      BY <1>1, <1>2
    <2> QED
      BY <2>1, <1>1, <1>5
  <1>8. Fits(frame, ex2, off, FALSE)
    <2>1. /\ Len(ex) >= 2 /\ ex[Len(ex)].eip \notin {ForkRet, <<"fork_ret", 1>>}
          /\ ex[Len(ex) - 1] = c /\ Len(ex2) = Len(ex) /\ ex2[Len(ex)].eip = TrapRetCode
      <3>1. k \in 1..k /\ Len(ex) - 1 = k
        BY <1>1, <1>2
      <3> QED
        BY <3>1, <1>1, <1>2, <1>4, <1>5, Different, SMTT(60)
    <2>2. \A j \in 1..(Len(ex) - 1) : ex2[j] = ex[j]
      BY <1>1, <1>5
    <2>3. /\ Len(frame) = Len(st) /\ frame[Len(st) - 3] = st[Len(st) - 3]
          /\ \A i \in 1..(Len(st) - 8) : frame[i] = st[i]
          /\ Holds(frame, Len(st), 0, r)
      BY DEF Frame
    <2>4. ErrorWord(st[Len(st) - 3]) = 0 /\ r \in After(ex[Len(ex) - 1], st[Len(st) - 3])
      BY <1>2, <2>1
    <2> HIDE DEF ex, ex2, st
    <2> QED
      BY <1>1, <1>5, <1>6, <2>1, <2>2, <2>3, <2>4, FitsHandled
  <1>9. Len(saved[on]) <= MaxDepth /\ pc' \in {"code", "halt"}
    BY <1>1, <1>3 DEF IInv, TypeOK
  <1> HIDE DEF ex
  <1> QED
    BY <1>1, <1>3, <1>4, <1>7, <1>8, <1>9, OnOneStack

(* The words of struct trap_frame.                                         *)
LEMMA FieldsOfFrame ==
    ASSUME NEW st \in Seq(Words), Len(st) >= 8
    PROVE  /\ Field(st, "gp") = st[Len(st)] /\ Field(st, "eax") = st[Len(st) - 1]
           /\ Field(st, "segs") = st[Len(st) - 2] /\ Field(st, "int_no") = st[Len(st) - 3]
           /\ Field(st, "eip") = st[Len(st) - 5] /\ Field(st, "cs") = st[Len(st) - 6]
           /\ Field(st, "eflags") = st[Len(st) - 7]
           /\ \A w \in Words : /\ Set(st, "eax", w) = [st EXCEPT ![Len(st) - 1] = w]
                               /\ Set(st, "eip", w) = [st EXCEPT ![Len(st) - 5] = w]
  <1>1. Len(st) \in Nat
    OBVIOUS
  <1>2. /\ Len(st) + 1 - 1 = Len(st) /\ Len(st) + 1 - 2 = Len(st) - 1
        /\ Len(st) + 1 - 3 = Len(st) - 2 /\ Len(st) + 1 - 4 = Len(st) - 3
        /\ Len(st) + 1 - 6 = Len(st) - 5 /\ Len(st) + 1 - 7 = Len(st) - 6
        /\ Len(st) + 1 - 8 = Len(st) - 7
    BY <1>1
  <1> QED
    BY <1>2, Depths DEF Field, Set

(* A word of the frame changed, and no other.                              *)
LEMMA OneWord ==
    ASSUME NEW st \in Seq(Words), NEW i \in 1..Len(st), NEW w \in Words
    PROVE  LET st2 == [st EXCEPT ![i] = w] IN
           /\ st2 \in Seq(Words) /\ Len(st2) = Len(st) /\ st2[i] = w
           /\ \A j \in 1..Len(st) : j # i => st2[j] = st[j]
  OBVIOUS

(* A system call puts its result into eax.                                 *)
LEMMA SyscallResultStep ==
    ASSUME HandlersCanReturn, IInv, SyscallResult
    PROVE  IInv'
  <1> DEFINE st == stack[on]
             b  == Len(st)
             c  == saved[on][Len(saved[on])]
  <1>1. InHandler /\ IntNo = 128 /\ IntNo \notin HaltVectors
    BY DEF SyscallResult, HaltVectors
  <1>2. /\ b \in Nat /\ b >= 8 /\ c \in Registers /\ st[b - 3] = No(IntNo)
        /\ Holds(st, b, 0, c) /\ (c.cs = UserCS => b >= 9)
    BY <1>1, HandlerFinds
  <1>3. st \in Seq(Words)
    BY Running
  <1>4. st[b - 1] = c.eax
    BY <1>2 DEF Holds
  <1>5. PICK x \in Results(c.eax) : Return(Set(Frame, "eax", x))
    BY <1>2, <1>3, <1>4, FieldsOfFrame DEF SyscallResult, Frame
  <1>6. x \in Words /\ x \in Data
    <2>1. x \in {MinusOne, Count}
      BY <1>5 DEF Results, sys_write, sys_open, sys_read
    <2> QED
      BY <2>1 DEF Words, Data
  <1> DEFINE frame == [st EXCEPT ![b - 1] = x]
             r     == [c EXCEPT !.eax = x]
  <1>7. Return(frame)
    BY <1>2, <1>3, <1>5, <1>6, FieldsOfFrame DEF Frame
  <1>8. /\ frame \in Seq(Words) /\ Len(frame) = b /\ frame[b - 1] = x
        /\ \A j \in 1..b : j # b - 1 => frame[j] = st[j]
    <2>1. b - 1 \in 1..Len(st)
      BY <1>2
    <2> QED
      BY <2>1, <1>3, <1>6, OneWord
  <1>9. /\ r \in Registers /\ r.eax = x /\ r.gp = c.gp /\ r.segs = c.segs /\ r.eip = c.eip
        /\ r.cs = c.cs /\ r.eflags = c.eflags /\ r.esp = c.esp
    BY <1>2, <1>6 DEF Registers
  <1>10. r \in After(c, No(IntNo))
    BY <1>1, <1>5, Different DEF After
  <1> HIDE DEF frame, r, st, c
  <1>11. \A j \in 1..(b - 8) : frame[j] = st[j]
    BY <1>2, <1>8
  <1>12. Holds(frame, b, 0, r) /\ frame[b - 3] = st[b - 3]
    <2>1. /\ b - 5 - 0 = b - 5 /\ b - 6 - 0 = b - 6 /\ b - 7 - 0 = b - 7 /\ b - 8 - 0 = b - 8
          /\ b \in 1..b /\ b - 2 \in 1..b /\ b - 3 \in 1..b /\ b - 5 \in 1..b
          /\ b - 6 \in 1..b /\ b - 7 \in 1..b /\ b - 1 # b /\ b - 1 # b - 2
          /\ b - 1 # b - 3 /\ b - 1 # b - 5 /\ b - 1 # b - 6 /\ b - 1 # b - 7
      BY <1>2
    <2>2. c.cs = UserCS => frame[b - 8] = c.esp
      <3>1. c.cs = UserCS => b - 8 \in 1..b /\ b - 8 # b - 1
        BY <1>2
      <3> QED
        BY <3>1, <2>1, <1>2, <1>8 DEF Holds
    <2> QED
      BY <1>2, <1>8, <1>9, <2>1, <2>2 DEF Holds
  <1> QED
    BY <1>1, <1>7, <1>8, <1>9, <1>10, <1>11, <1>12, ReturnStep DEF Frame, st, c

(* The divide error handler: eax becomes zero, and eip skips the DIV.      *)
LEMMA DivideErrorStep ==
    ASSUME HandlersCanReturn, IInv, DivideError
    PROVE  IInv'
  <1> DEFINE st == stack[on]
             b  == Len(st)
             c  == saved[on][Len(saved[on])]
             st1 == [st EXCEPT ![b - 1] = Zero]
             frame == [st1 EXCEPT ![b - 5] = Skip(User)]
             r     == [c EXCEPT !.eax = Zero, !.eip = Skip(@)]
  <1>1. InHandler /\ IntNo = 0 /\ IntNo \notin HaltVectors
    BY DEF DivideError, HaltVectors
  <1>2. /\ b \in Nat /\ b >= 8 /\ c \in Registers /\ st[b - 3] = No(IntNo)
        /\ Holds(st, b, 0, c) /\ (c.cs = UserCS => b >= 9) /\ c.eip = User
    BY <1>1, HandlerFinds
  <1>3. st \in Seq(Words)
    BY Running
  <1>4. Zero \in Words /\ Zero \in Data /\ Skip(User) \in Words /\ Skip(User) \in Eips
    BY DEF Words, Data, Eips
  <1>5. /\ r \in Registers /\ r.eax = Zero /\ r.gp = c.gp /\ r.segs = c.segs
        /\ r.eip = Skip(User) /\ r.cs = c.cs /\ r.eflags = c.eflags /\ r.esp = c.esp
    BY <1>2, <1>4 DEF Registers
  <1>6. r \in After(c, No(IntNo))
    BY <1>1, Different DEF After
  <1>7. b - 1 \in 1..b /\ b - 5 \in 1..b
    BY <1>2
  <1>8. /\ st1 \in Seq(Words) /\ Len(st1) = b /\ st1[b - 1] = Zero
        /\ \A j \in 1..b : j # b - 1 => st1[j] = st[j]
    BY <1>3, <1>4, <1>7, OneWord
  <1>9. Return(frame)
    <2>1. Field(st, "eip") = st[b - 5] /\ st[b - 5] = User
      <3>1. b - 5 - 0 = b - 5
        BY <1>2
      <3> QED
        BY <3>1, <1>2, <1>3, FieldsOfFrame DEF Holds
    <2>2. Set(st, "eax", Zero) = st1
      BY <1>2, <1>3, <1>4, FieldsOfFrame
    <2> HIDE DEF st1
    <2>3. Set(st1, "eip", Skip(User)) = frame
      <3>1. Len(st1) >= 8
        BY <1>2, <1>8
      <3>2. Set(st1, "eip", Skip(User)) = [st1 EXCEPT ![Len(st1) - 5] = Skip(User)]
        BY <3>1, <1>4, <1>8, FieldsOfFrame
      <3> QED
        BY <3>2, <1>8
    <2> QED
      BY <2>1, <2>2, <2>3 DEF DivideError, Frame
  <1> HIDE DEF st1
  <1>10. /\ frame \in Seq(Words) /\ Len(frame) = b /\ frame[b - 5] = Skip(User)
         /\ \A j \in 1..b : j # b - 5 => frame[j] = st1[j]
    <2>1. b - 5 \in 1..Len(st1)
      BY <1>7, <1>8
    <2>2. /\ frame \in Seq(Words) /\ Len(frame) = Len(st1) /\ frame[b - 5] = Skip(User)
          /\ \A j \in 1..Len(st1) : j # b - 5 => frame[j] = st1[j]
      BY <2>1, <1>4, <1>8, OneWord
    <2> QED
      BY <2>2, <1>8
  <1> HIDE DEF frame, r, st, c
  <1>11. /\ frame[b - 1] = Zero
         /\ \A j \in 1..b : j # b - 1 /\ j # b - 5 => frame[j] = st[j]
    <2>1. b - 1 # b - 5
      BY <1>2
    <2> QED
      BY <2>1, <1>7, <1>8, <1>10
  <1>12. \A j \in 1..(b - 8) : frame[j] = st[j]
    <2>1. \A j \in 1..(b - 8) : j \in 1..b /\ j # b - 1 /\ j # b - 5
      BY <1>2
    <2> QED
      BY <2>1, <1>11
  <1>13. Holds(frame, b, 0, r) /\ frame[b - 3] = st[b - 3]
    <2>1. /\ b - 5 - 0 = b - 5 /\ b - 6 - 0 = b - 6 /\ b - 7 - 0 = b - 7 /\ b - 8 - 0 = b - 8
      BY <1>2
    <2>2. \A j \in {b, b - 2, b - 3, b - 6, b - 7} : j \in 1..b /\ j # b - 1 /\ j # b - 5
      BY <1>2
    <2>3. c.cs = UserCS => frame[b - 8] = c.esp
      <3>1. c.cs = UserCS => b - 8 \in 1..b /\ b - 8 # b - 1 /\ b - 8 # b - 5
        BY <1>2
      <3> QED
        BY <3>1, <2>1, <1>2, <1>11 DEF Holds
    <2> QED
      BY <1>2, <1>5, <1>10, <1>11, <2>1, <2>2, <2>3 DEF Holds
  <1> QED
    BY <1>1, <1>5, <1>6, <1>9, <1>10, <1>12, <1>13, ReturnStep DEF Frame, st, c

(* The others leave the frame as it is.                                    *)
LEMMA HandlerReturnsStep ==
    ASSUME HandlersCanReturn, IInv, HandlerReturns
    PROVE  IInv'
  <1> DEFINE st == stack[on]
             b  == Len(st)
             c  == saved[on][Len(saved[on])]
  <1>1. /\ InHandler /\ IntNo \notin HaltVectors /\ Return(Frame)
        /\ IntNo # 0 /\ IntNo # 128
    BY DEF HandlerReturns
  <1>2. /\ b \in Nat /\ b >= 8 /\ c \in Registers /\ Holds(st, b, 0, c)
    BY <1>1, HandlerFinds
  <1>3. c \in After(c, No(IntNo))
    BY <1>1, Different DEF After
  <1>4. Frame \in Seq(Words)
    BY Running DEF Frame
  <1> QED
    BY <1>1, <1>2, <1>3, <1>4, ReturnStep DEF Frame

(* Every gate that can be entered is that of one of the vectors, and the   *)
(* handlers of those with an error code do not come back.                  *)
LEMMA EnterSteps ==
    ASSUME HandlersCanReturn, IInv,
           \/ \E n \in UserFaults : UserFault(n)
           \/ \E n \in UserInts : UserInt(n)
           \/ \E n \in KernelFaults : KernelFault(n)
           \/ \E n \in OpenVectors : Interrupt(n)
    PROVE  IInv' /\ UNCHANGED on /\ Len(saved'[on]) = Len(saved[on]) + 1
  <1>1. \E n \in Vectors : /\ pc = "code" /\ Enter(n)
                           /\ n \in WithError => n \in HaltVectors
                           /\ n = 0 => cpu.eip = User
    <2>1. CASE \E n \in UserFaults : UserFault(n)
      BY <2>1 DEF HandlersCanReturn, UserFault, Vectors
    <2>2. CASE \E n \in UserInts : UserInt(n)
      <3>1. PICK n \in UserInts : UserInt(n)
        BY <2>2
      <3>2. CASE n = 128
        <4>1. pc = "code" /\ Enter(128)
          BY <3>1, <3>2 DEF UserInt, GateDPL
        <4>2. 128 \in Vectors /\ 128 \notin WithError
          BY <3>2 DEF Vectors, WithError
        <4> QED
          BY <4>1, <4>2
      <3>3. CASE n # 128
        <4>1. pc = "code" /\ Enter(13)
          BY <3>1, <3>3 DEF UserInt, GateDPL
        <4>2. 13 \in Vectors /\ 13 \in HaltVectors
          BY DEF Vectors, HaltVectors
        <4> QED
          BY <4>1, <4>2
      <3> QED
        BY <3>2, <3>3
    <2>3. CASE \E n \in KernelFaults : KernelFault(n)
      BY <2>3 DEF HandlersCanReturn, KernelFault, Vectors
    <2>4. CASE \E n \in OpenVectors : Interrupt(n)
      BY <2>4 DEF HandlersCanReturn, Interrupt, Vectors
    <2> QED
      BY <2>1, <2>2, <2>3, <2>4
  <1>2. PICK n \in Vectors : /\ pc = "code" /\ Enter(n)
                             /\ n \in WithError => n \in HaltVectors
                             /\ n = 0 => cpu.eip = User
    BY <1>1
  <1>3. IInv'
    BY <1>2, EnterStep
  <1>4. on \in Stacks /\ saved \in [Stacks -> Seq(Registers)]
    BY DEF IInv, TypeOK
  <1>5. UNCHANGED on /\ saved' = [saved EXCEPT ![on] = Append(@, cpu)]
    BY <1>2 DEF Enter
  <1> QED
    BY <1>3, <1>4, <1>5

(* The program runs on, ...                                                *)
LEMMA UserRunsStep ==
    ASSUME HandlersCanReturn, IInv, UserRuns
    PROVE  IInv'
  <1>1. PICK a \in {Regs(-1), Call(SYS_FORK), Call(SYS_EXIT), Call(SYS_READ), Call(SYS_OPEN),
                    Call(SYS_WRITE)} :
           cpu' = [cpu EXCEPT !.eip = User, !.eax = a, !.gp = Regs(-1)]
    BY DEF UserRuns
  <1>2. cpu.cs = UserCS /\ UNCHANGED <<on, stack, saved, pc>>
    BY DEF UserRuns
  <1>3. -1 \in -1..MaxDepth
    BY DEF HandlersCanReturn
  <1>4. a \in Data /\ Regs(-1) \in Data /\ User \in Eips
    BY <1>3 DEF Data, Eips
  <1>5. cpu \in Registers /\ Sane(cpu)
    BY Running
  <1>6. /\ cpu' \in Registers /\ cpu'.eip = User /\ cpu'.cs = UserCS
        /\ cpu'.esp = cpu.esp /\ cpu'.segs = cpu.segs
    BY <1>1, <1>2, <1>4, <1>5 DEF Registers
  <1>7. Sane(cpu')
    BY <1>2, <1>5, <1>6, Different DEF Sane
  <1> QED
    BY <1>2, <1>6, <1>7, OffStack

(* ... the scheduler turns interrupts on and off, ...                      *)
LEMMA SchedSetIFStep ==
    ASSUME IInv, SchedSetIF
    PROVE  IInv'
  <1>1. PICK if \in {0, 1} : cpu' = [cpu EXCEPT !.eflags = Flags(if)]
    BY DEF SchedSetIF
  <1>2. cpu \in Registers /\ Sane(cpu) /\ UNCHANGED <<on, stack, saved, pc>>
    BY Running DEF SchedSetIF
  <1>3. Flags(if) \in {Flags(0), Flags(1)}
    OBVIOUS
  <1>4. /\ cpu' \in Registers /\ cpu'.eip = cpu.eip /\ cpu'.cs = cpu.cs
        /\ cpu'.esp = cpu.esp /\ cpu'.segs = cpu.segs
    BY <1>1, <1>2, <1>3 DEF Registers
  <1>5. Sane(cpu')
    BY <1>2, <1>4 DEF Sane
  <1> QED
    BY <1>2, <1>4, <1>5, OffStack

(* ... and fork_ret releases the lock.                                     *)
LEMMA ForkRetReleaseStep ==
    ASSUME IInv, ForkRetRelease
    PROVE  IInv'
  <1>1. PICK if \in {0, 1} : cpu' = [cpu EXCEPT !.eip = <<"fork_ret", 1>>, !.eflags = Flags(if)]
    BY DEF ForkRetRelease
  <1>2. /\ cpu \in Registers /\ Sane(cpu) /\ cpu.eip = ForkRet
        /\ UNCHANGED <<on, stack, saved, pc>>
    BY Running DEF ForkRetRelease
  <1>3. Flags(if) \in {Flags(0), Flags(1)} /\ <<"fork_ret", 1>> \in Eips \cap KernelEips
    BY DEF Eips, KernelEips
  <1>4. /\ cpu' \in Registers /\ cpu'.eip = <<"fork_ret", 1>> /\ cpu'.cs = cpu.cs
        /\ cpu'.esp = cpu.esp /\ cpu'.segs = cpu.segs
    BY <1>1, <1>2, <1>3 DEF Registers
  <1>5. cpu.cs = KernelCS
    BY <1>2 DEF Sane, ForkRet, User, Skip
  <1>6. Sane(cpu')
    BY <1>2, <1>3, <1>4, <1>5, Different DEF Sane
  <1> QED
    BY <1>2, <1>4, <1>6, OffStack

(* What fork_ret returns to lies above the frame of a new process.         *)
LEMMA FitsForkRet ==
    ASSUME NEW st \in Seq(Words), NEW ex \in Seq(Registers), NEW ex2 \in Seq(Registers),
           NEW off, ex # <<>>, Len(ex2) = Len(ex), Fits(st, ex, off, FALSE),
           ex[Len(ex)].eip = <<"fork_ret", 1>>, ex2[Len(ex)].eip = TrapRetCode,
           \A k \in 1..(Len(ex) - 1) : ex2[k] = ex[k]
    PROVE  /\ Len(st) >= 1 /\ st[Len(st)] = TrapRetCode
           /\ Fits(SubSeq(st, 1, Len(st) - 1), ex2, off, FALSE)
  <1> DEFINE st2 == SubSeq(st, 1, Len(st) - 1)
             n == Len(ex) - 1
             c == ex[n + 1]
             d == ex2[n + 1]
  <1>1. n \in Nat /\ n + 1 = Len(ex) /\ n < Len(ex) /\ n = Len(ex) - 1
    OBVIOUS
  <1> HIDE DEF n
  <1>2. Offsets(off, n) /\ Layers(st, ex, off, n) /\ Rest(st, c, off[n], FALSE)
    BY <1>1 DEF Fits
  <1>3. Below(c) = 1 /\ Below(d) = 0
    BY <1>1, Different DEF Below
  <1>4. off[n] \in Nat /\ Len(st) = off[n] + 1 /\ st[off[n] + 1] = TrapRetCode
    BY <1>1, <1>2, <1>3 DEF Offsets, Rest
  <1>5. Len(st2) = off[n] /\ \A i \in 1..off[n] : st2[i] = st[i]
    BY <1>4
  <1> HIDE DEF st2
  <1>6. Rest(st2, d, off[n], FALSE)
    BY <1>3, <1>4, <1>5 DEF Rest
  <1>7. Layers(st2, ex2, off, n)
    <2>1. Layers(st2, ex, off, n)
      BY <1>1, <1>2, <1>5, LayersOfWords
    <2>2. /\ \A k \in 1..n : ex2[k] = ex[k]
          /\ ex[n + 1].eip \in {ForkRet, <<"fork_ret", 1>>}
          /\ ex2[n + 1].eip \in {<<"fork_ret", 1>>, TrapRetCode}
      BY <1>1
    <2> QED
      BY <1>1, <2>1, <2>2, LayersOfExecs
  <1>8. Fits(st2, ex2, off, FALSE)
    BY <1>1, <1>2, <1>6, <1>7 DEF Fits
  <1>9. Len(st) >= 1 /\ st[Len(st)] = TrapRetCode
    BY <1>4
  <1> QED
    BY <1>8, <1>9 DEF st2

(* The return of fork_ret starts trap_ret, with the first frame on top.    *)
LEMMA ForkRetReturnStep ==
    ASSUME IInv, ForkRetReturn
    PROVE  IInv' /\ Len(stack[on]) >= 1
  <1> DEFINE k  == Len(saved[on])
             st == stack[on]
             ex == Execs(on)
             ex2 == Append(saved[on], cpu')
  <1>1. /\ on \in Stacks /\ ex \in Seq(Registers) /\ Len(ex) = k + 1 /\ k \in Nat
        /\ ex[k + 1] = cpu /\ saved[on] \in Seq(Registers) /\ st \in Seq(Words)
        /\ \A j \in 1..k : ex[j] = saved[on][j] /\ Sane(saved[on][j])
        /\ Bottom(on, ex[1]) /\ Sane(cpu) /\ cpu \in Registers
    BY Running
  <1>2. cpu.eip = <<"fork_ret", 1>> /\ UNCHANGED <<on, saved>>
    BY DEF ForkRetReturn
  <1>3. cpu.cs = KernelCS /\ k >= 1
    <2>1. cpu.cs = KernelCS
      BY <1>1, <1>2 DEF Sane, User, Skip
    <2>2. cpu.eip # Sched
      BY <1>2 DEF Sched
    <2> QED
      BY <2>1, <2>2, AboveBottom
  <1>4. PICK off : Fits(st, ex, off, FALSE)
    BY Running
  <1> DEFINE d == [cpu EXCEPT !.eip = TrapRetCode]
             exd == Append(saved[on], d)
  <1>5. Sane(d) /\ d.eip = TrapRetCode /\ d \in Registers
    <2>1. TrapRetCode \in Eips /\ TrapRetCode \in KernelEips
      BY DEF Eips, KernelEips
    <2>2. /\ d \in Registers /\ d.eip = TrapRetCode /\ d.cs = cpu.cs
          /\ d.esp = cpu.esp /\ d.segs = cpu.segs
      BY <2>1, <1>1 DEF Registers
    <2> QED
      BY <2>1, <2>2, <1>1, <1>3, Different DEF Sane
  <1>6. /\ exd \in Seq(Registers) /\ Len(exd) = k + 1 /\ exd[k + 1] = d
        /\ \A j \in 1..k : exd[j] = saved[on][j]
    BY <1>1, <1>5
  <1>7. st[Len(st)] = TrapRetCode /\ Fits(SubSeq(st, 1, Len(st) - 1), exd, off, FALSE)
        /\ Len(st) >= 1
    <2>1. ex # <<>> /\ Len(exd) = Len(ex) /\ \A j \in 1..(Len(ex) - 1) : exd[j] = ex[j]
      BY <1>1, <1>6
    <2>2. ex[Len(ex)].eip = <<"fork_ret", 1>> /\ exd[Len(ex)].eip = TrapRetCode
      BY <1>1, <1>2, <1>5, <1>6
    <2> HIDE DEF ex, exd, st
    <2> QED
      BY <1>1, <1>4, <1>6, <2>1, <2>2, FitsForkRet
  <1>8. /\ cpu' = d /\ pc' = "code"
        /\ stack' = [stack EXCEPT ![on] = SubSeq(st, 1, Len(st) - 1)]
    <2>1. Code(TrapRetCode)
      BY DEF Code, TrapRetCode
    <2> QED
      BY <2>1, <1>7 DEF ForkRetReturn, Goes, Top, Pop
  <1>9. SubSeq(st, 1, Len(st) - 1) \in Seq(Words)
    BY <1>1, <1>7
  <1>10. Bottom(on, exd[1])
    <2>1. 1 \in 1..k
      BY <1>1, <1>3
    <2> QED
      BY <2>1, <1>1, <1>6
  <1>11. saved' = [saved EXCEPT ![on] = saved[on]] /\ Len(saved[on]) <= MaxDepth
    BY <1>1, <1>2 DEF IInv, TypeOK
  <1> HIDE DEF ex, d
  <1> QED
    BY <1>1, <1>2, <1>5, <1>7, <1>8, <1>9, <1>10, <1>11, OnOneStack

(* Who was put away last on the stack that is not in use.                  *)
LEMMA Parked ==
    ASSUME IInv, NEW next \in Stacks, next # on
    PROVE  LET ex == saved[next] IN
           /\ stack[next] \in Seq(Words) /\ ex \in Seq(Registers) /\ ex # <<>>
           /\ \A k \in 1..Len(ex) : Sane(ex[k])
           /\ Bottom(next, ex[1])
           /\ \E off : Fits(stack[next], ex, off, TRUE)
  <1>1. stack[next] \in Seq(Words) /\ saved[next] \in Seq(Registers)
    BY DEF IInv, TypeOK
  <1>2. Execs(next) = saved[next]
    BY DEF Execs
  <1>3. Thread(next, Execs(next)) /\ Shape(stack[next], Execs(next), TRUE)
    BY DEF IInv
  <1> QED
    BY <1>1, <1>2, <1>3 DEF Thread, Shape

(* A called function leaves all registers but eax as they were.            *)
LEMMA SwitchedRegisters ==
    ASSUME NEW c \in Registers, NEW d \in Registers, Sane(c), Sane(d),
           c.cs = KernelCS, d.cs = KernelCS, c.eflags = d.eflags
    PROVE  /\ [d EXCEPT !.eip = c.eip, !.gp = c.gp] = [c EXCEPT !.eax = d.eax]
           /\ Sane([c EXCEPT !.eax = d.eax])
  <1>1. c.esp = d.esp /\ c.segs = d.segs
    BY Different DEF Sane
  <1>2. [d EXCEPT !.eip = c.eip, !.gp = c.gp] = [c EXCEPT !.eax = d.eax]
    BY <1>1 DEF Registers
  <1> DEFINE e == [c EXCEPT !.eax = d.eax]
  <1>3. /\ e \in Registers /\ e.eip = c.eip
        /\ e.cs = c.cs /\ e.esp = c.esp /\ e.segs = c.segs
    BY DEF Registers
  <1>4. Sane(e)
    BY <1>3 DEF Sane
  <1> QED
    BY <1>2, <1>4

(* A switch puts away whoever runs on its own stack, and continues what    *)
(* was put away last on the other.                                         *)
LEMMA SwitchStep ==
    ASSUME IInv, NEW next \in Stacks, next # on, SwitchTo(next), cpu.cs = KernelCS,
           Len(saved[on]) < MaxDepth, MaxDepth \in Nat
    PROVE  /\ IInv' /\ on' = next /\ pc' = "code" 
           /\ cpu' = [Last(saved[next]) EXCEPT !.eax = cpu.eax]
           /\ Len(stack[next]) >= 2
  <1> DEFINE st  == stack[on]
             ex  == Execs(on)
             k   == Len(saved[on])
             stn == stack[next]
             exn == saved[next]
             m   == Len(exn)
             c   == exn[m]
             d   == [c EXCEPT !.eax = cpu.eax]
             exd == Append(Front(exn), d)
             std == SubSeq(stn, 1, Len(stn) - 2)
             sto == st \o Context(cpu.eip, cpu.gp)
  <1>1. /\ on \in Stacks /\ ex \in Seq(Registers) /\ Len(ex) = k + 1 /\ k \in Nat
        /\ ex[k + 1] = cpu /\ saved[on] \in Seq(Registers) /\ st \in Seq(Words)
        /\ ex = Append(saved[on], cpu) /\ ex # <<>>
        /\ Sane(cpu) /\ cpu \in Registers
    BY Running
  <1>2. /\ stn \in Seq(Words) /\ exn \in Seq(Registers) /\ exn # <<>>
        /\ \A j \in 1..m : Sane(exn[j])
        /\ Bottom(next, exn[1])
    BY Parked
  <1>3. PICK off : Fits(stn, exn, off, TRUE)
    BY Parked
  <1>4. PICK offo : Fits(st, ex, offo, FALSE)
    BY Running
  <1>5. m \in Nat /\ m >= 1 /\ c \in Registers /\ Sane(c)
    <2>1. m \in Nat /\ m >= 1
      BY <1>2
    <2>2. m \in 1..m
      BY <2>1
    <2> QED
      BY <2>1, <2>2, <1>2
  <1>6. cpu.eflags = Flags(0) /\ pc = "code"
    BY DEF SwitchTo
  <1>7. Rest(stn, c, off[m - 1], TRUE)
    BY <1>3 DEF Fits
  <1>8. /\ c.cs = KernelCS /\ c.eflags = Flags(0)
        /\ stn[Len(stn) - 1] = c.eip /\ stn[Len(stn)] = c.gp
    BY <1>7 DEF Rest
  <1>9. Len(stn) \in Nat /\ Len(stn) >= 2
    <2>1. off[m - 1] \in Nat
      <3>1. m - 1 \in 0..(m - 1)
        BY <1>5
      <3> QED
        BY <3>1, <1>3 DEF Fits, Offsets
    <2>2. Below(c) \in {0, 1}
      BY DEF Below
    <2> QED
      BY <2>1, <2>2, <1>2, <1>7, SMTT(60) DEF Rest
  <1>10. cpu' = [cpu EXCEPT !.eip = stn[Len(stn) - 1], !.gp = stn[Len(stn)]]
    BY DEF SwitchTo, Top
  <1>11. cpu' = d /\ Sane(d)
    <2>1. cpu' = [cpu EXCEPT !.eip = c.eip, !.gp = c.gp]
      BY <1>8, <1>10
    <2> HIDE DEF c
    <2>2. [cpu EXCEPT !.eip = c.eip, !.gp = c.gp] = d /\ Sane(d)
      BY <1>1, <1>5, <1>6, <1>8, SwitchedRegisters
    <2> QED
      BY <2>1, <2>2
  <1>12. d \in Registers /\ d.eip = c.eip /\ d.cs = c.cs
    BY <1>5, <1>11 DEF Registers, Sane
  <1>13. /\ on' = next
         /\ stack' = [stack EXCEPT ![on] = sto, ![next] = std]
         /\ saved' = [saved EXCEPT ![on] = ex, ![next] = Front(exn)]
    BY <1>1 DEF SwitchTo, Pop
  <1>14. pc' = "code"
    <2>1. c.eip \in KernelEips
      BY <1>5, <1>8, Different DEF Sane
    <2>2. Code(c.eip)
      BY <2>1 DEF Code, KernelEips, Sched, ForkRet, TrapRetCode
    <2> QED
      BY <2>2, <1>11, <1>12 DEF SwitchTo, Goes
  <1>15. /\ Front(exn) \in Seq(Registers) /\ Len(Front(exn)) = m - 1
         /\ \A j \in 1..(m - 1) : Front(exn)[j] = exn[j]
    BY <1>2, <1>5 DEF Front
  <1>16. /\ exd \in Seq(Registers) /\ Len(exd) = m /\ exd[m] = d
         /\ \A j \in 1..(m - 1) : exd[j] = exn[j]
    <2> HIDE DEF exn, d, m
    <2>1. m - 1 + 1 = m
      BY <1>5
    <2>2. /\ exd \in Seq(Registers) /\ Len(exd) = Len(Front(exn)) + 1
          /\ exd[Len(Front(exn)) + 1] = d
          /\ \A j \in 1..Len(Front(exn)) : exd[j] = Front(exn)[j]
      BY <1>12, <1>15
    <2> QED
      BY <2>1, <2>2, <1>15
  <1>17. std \in Seq(Words)
    BY <1>2, <1>9
  <1>18. sto \in Seq(Words)
    <2>1. cpu.eip \in Words /\ cpu.gp \in Words
      BY <1>1, RegisterWords
    <2> QED
      BY <2>1, <1>1 DEF Context
  <1>19. Fits(std, exd, off, FALSE)
    <2>1. exd[Len(exn)].eip = exn[Len(exn)].eip
      BY <1>12, <1>16
    <2> HIDE DEF exn, exd, stn
    <2> QED
      BY <2>1, <1>2, <1>3, <1>16, FitsResumed DEF m
  <1>20. Fits(sto, ex, offo, TRUE)
    <2>1. cpu.eip \in Words /\ cpu.gp \in Words /\ ex[Len(ex)] = cpu
      BY <1>1, RegisterWords
    <2> HIDE DEF ex, st
    <2> QED
      BY <2>1, <1>1, <1>4, <1>6, FitsParked
  <1> HIDE DEF exd, std, sto, d, ex
  <1>21. /\ stack \in [Stacks -> Seq(Words)] /\ saved \in [Stacks -> Seq(Registers)]
         /\ \A s \in Stacks : Len(saved[s]) <= MaxDepth
         /\ \A s \in Stacks : s = on \/ s = next
    BY <1>1 DEF IInv, TypeOK, Stacks
  <1>22. /\ stack'[on] = sto /\ stack'[next] = std
         /\ saved'[on] = ex /\ saved'[next] = Front(exn)
    BY <1>1, <1>13, <1>21
  <1>23. TypeOK'
    <2>1. stack' \in [Stacks -> Seq(Words)] /\ saved' \in [Stacks -> Seq(Registers)]
      BY <1>1, <1>13, <1>15, <1>17, <1>18, <1>21
    <2>2. Len(ex) <= MaxDepth
      BY <1>1
    <2>3. Len(Front(exn)) <= MaxDepth
      BY <1>5, <1>15, <1>21
    <2>4. \A s \in Stacks : Len(saved'[s]) <= MaxDepth
      BY <2>2, <2>3, <1>21, <1>22
    <2> QED
      BY <2>1, <2>4, <1>11, <1>12, <1>13, <1>14 DEF TypeOK
  <1>24. Thread(on, ex) /\ Shape(sto, ex, TRUE)
    BY <1>1, <1>20 DEF IInv, ex, Shape
  <1>25. Bottom(next, exd[1])
    <2>1. CASE m = 1
      <3>1. exd[1] = d /\ exn[1] = c
        BY <2>1, <1>16
      <3>2. c.cs # UserCS
        BY <1>8, Different
      <3> QED
        BY <3>1, <3>2, <1>2, <1>12 DEF Bottom
    <2>2. CASE m # 1
      <3> HIDE DEF m
      <3>1. 1 \in 1..(m - 1)
        BY <2>2, <1>5
      <3> QED
        BY <3>1, <1>2, <1>16
    <2> QED
      BY <2>1, <2>2
  <1>26. Thread(next, exd) /\ Shape(std, exd, FALSE) /\ Execs(next)' = exd
    <2>1. Execs(next)' = exd
      BY <1>11, <1>13, <1>22 DEF Execs, exd
    <2>2. \A j \in 1..Len(exd) : Sane(exd[j])
      <3>1. \A j \in 1..m : j = m \/ j \in 1..(m - 1)
        BY <1>5
      <3> QED
        BY <3>1, <1>2, <1>11, <1>16
    <2>3. exd # <<>>
      BY <1>5, <1>16
    <2> QED
      BY <2>1, <2>2, <2>3, <1>16, <1>19, <1>25 DEF Thread, Shape
  <1>27. ASSUME NEW s \in Stacks
         PROVE  (Thread(s, Execs(s)) /\ Shape(stack[s], Execs(s), s # on))'
    <2>1. CASE s = on
      <3>1. s # on' /\ stack'[s] = sto /\ saved'[s] = ex
        BY <2>1, <1>13, <1>22
      <3>2. Execs(s)' = ex
        BY <3>1 DEF Execs
      <3> QED
        BY <3>1, <3>2, <2>1, <1>24
    <2>2. CASE s = next
      BY <2>2, <1>13, <1>22, <1>26
    <2> QED
      BY <2>1, <2>2, <1>21
  <1>28. IInv'
    BY <1>14, <1>23, <1>27 DEF IInv
  <1>29. Last(exn) = c
    BY DEF Last
  <1> QED
    BY <1>9, <1>11, <1>13, <1>14, <1>28, <1>29 DEF d

(* trap_ret: everything is popped but what belongs to those below.         *)
LEMMA TrapRetStep ==
    ASSUME HandlersCanReturn, IInv, TrapRet
    PROVE  /\ IInv' /\ UNCHANGED on /\ pc' = "code"
           /\ cpu' \in After(saved[on][Len(saved[on])], Field(Frame, "int_no"))
           /\ \E m \in Nat : /\ m + 8 <= Len(stack[on])
                            /\ stack' = [stack EXCEPT ![on] = SubSeq(stack[on], 1, m)]
  <1> DEFINE k  == Len(saved[on])
             c  == saved[on][k]
             st == stack[on]
             b  == Len(st)
             no == st[b - 3]
             ex == Execs(on)
             sv == Front(saved[on])
  <1>1. /\ on \in Stacks /\ ex \in Seq(Registers) /\ Len(ex) = k + 1 /\ k \in Nat
        /\ ex[k + 1] = cpu /\ saved[on] \in Seq(Registers) /\ st \in Seq(Words)
        /\ \A j \in 1..k : ex[j] = saved[on][j] /\ Sane(saved[on][j])
        /\ Bottom(on, ex[1]) /\ Sane(cpu) /\ cpu \in Registers /\ b \in Nat
    BY Running
  <1>2. cpu.eip = TrapRetCode /\ pc = "code"
    BY DEF TrapRet, AtTrapRet
  <1>3. k >= 1
    <2>1. cpu.cs = KernelCS
      BY <1>1, <1>2 DEF Sane, TrapRetCode, User, Skip
    <2>2. cpu.eip # Sched
      BY <1>2, Different
    <2> QED
      BY <2>1, <2>2, AboveBottom
  <1>4. ex[k] = c /\ Sane(c) /\ c \in Registers
    <2>1. k \in 1..k
      BY <1>1, <1>3
    <2> QED
      BY <2>1, <1>1 DEF Sane
  <1>5. PICK off : Fits(st, ex, off, FALSE)
    BY Running
  <1> HIDE DEF ex, k, c, st
  <1>6. /\ off[k - 1] \in Nat
        /\ b = off[k - 1] + Below(c) + EspOf(c) + 8 + ErrorWord(no)
        /\ Vector(no, c)
        /\ \E r \in Registers :
              Holds(st, b, ErrorWord(no), r) /\ Outcome(cpu.eip, k, c, no, ErrorWord(no), r)
    <2>1. Len(ex) >= 2 /\ ex[Len(ex)].eip \notin {ForkRet, <<"fork_ret", 1>>}
      BY <1>1, <1>2, <1>3, Different
    <2>2. /\ off[Len(ex) - 2] \in Nat
          /\ Len(st) = off[Len(ex) - 2] + Below(ex[Len(ex) - 1]) + EspOf(ex[Len(ex) - 1]) + 8
                        + ErrorWord(st[Len(st) - 3])
          /\ Vector(st[Len(st) - 3], ex[Len(ex) - 1])
          /\ \E r \in Registers :
                /\ Holds(st, Len(st), ErrorWord(st[Len(st) - 3]), r)
                /\ Outcome(ex[Len(ex)].eip, Len(ex) - 1, ex[Len(ex) - 1], st[Len(st) - 3],
                           ErrorWord(st[Len(st) - 3]), r)
      BY <1>1, <1>5, <2>1, TopFrame
    <2>3. ex[Len(ex) - 1] = c /\ ex[Len(ex)] = cpu /\ Len(ex) - 1 = k /\ Len(ex) - 2 = k - 1
      BY <1>1, <1>4
    <2> QED
      BY <2>2, <2>3
  <1>7. PICK r \in Registers :
           Holds(st, b, ErrorWord(no), r) /\ Outcome(cpu.eip, k, c, no, ErrorWord(no), r)
    BY <1>6
  <1>8. r \in After(c, no) /\ ErrorWord(no) = 0
    BY <1>2, <1>7, Different DEF Outcome
  <1>9. r.cs = c.cs /\ r.esp = c.esp /\ r.eflags = c.eflags /\ r.segs = c.segs
    BY <1>4, <1>8, AfterTypes
  <1>10. r.eip = c.eip \/ (c.eip = User /\ r.eip = Skip(User))
    <2>1. CASE no = No(0)
      <3>1. c.eip = User
        BY <2>1, <1>6, Different DEF Vector
      <3>2. r = [c EXCEPT !.eax = Zero, !.eip = Skip(@)]
        BY <2>1, <1>8, Different DEF After
      <3> QED
        BY <1>4, <3>1, <3>2 DEF Registers
    <2>2. CASE no # No(0)
      <3>1. r = c \/ \E x : r = [c EXCEPT !.eax = x]
        BY <2>2, <1>8 DEF After
      <3>2. \A x : [c EXCEPT !.eax = x].eip = c.eip
        BY <1>4 DEF Registers
      <3> QED
        BY <3>1, <3>2
    <2> QED
      BY <2>1, <2>2
  <1>11. Sane(r)
    BY <1>4, <1>9, <1>10, Different DEF Sane
  <1>12. /\ EspOf(c) = IF r.cs = UserCS THEN 1 ELSE 0
         /\ r.cs # UserCS => r.esp = Zero
         /\ EspOf(c) \in {0, 1} /\ Below(c) \in {0, 1}
    BY <1>9, <1>11, Different DEF EspOf, Below, Sane
  <1>13. b >= 8 + EspOf(c)
    BY <1>1, <1>6, <1>8, <1>12, SMTT(60)
  <1>14. /\ Field(st, "gp") = r.gp /\ Field(st, "eax") = r.eax /\ Field(st, "segs") = r.segs
         /\ st[b - 5] = r.eip /\ st[b - 6] = r.cs /\ st[b - 7] = r.eflags
         /\ r.cs = UserCS => st[b - 8] = r.esp
         /\ Field(st, "int_no") = no
    <2>1. b - 5 - 0 = b - 5 /\ b - 6 - 0 = b - 6 /\ b - 7 - 0 = b - 7 /\ b - 8 - 0 = b - 8
      BY <1>1
    <2>2. b >= 8
      BY <1>12, <1>13, <1>1
    <2>3. Holds(st, b, 0, r)
      BY <1>7, <1>8
    <2> QED
      BY <2>1, <2>2, <2>3, <1>1, FieldsOfFrame DEF Holds
  <1> DEFINE rest == SubSeq(st, 1, b - 5)
             top  == Len(rest)
  <1>15. /\ top = b - 5 /\ rest[top] = r.eip /\ rest[top - 1] = r.cs
         /\ rest[top - 2] = r.eflags
         /\ r.cs = UserCS => rest[top - 3] = r.esp
    <2>1. Len(rest) = b - 5 /\ \A i \in 1..(b - 5) : rest[i] = st[i]
      BY <1>1, <1>12, <1>13
    <2>2. /\ b - 5 \in 1..(b - 5) /\ b - 6 \in 1..(b - 5) /\ b - 7 \in 1..(b - 5)
          /\ EspOf(c) = 1 => b - 8 \in 1..(b - 5)
          /\ b - 5 - 1 = b - 6 /\ b - 5 - 2 = b - 7 /\ b - 5 - 3 = b - 8
      BY <1>1, <1>12, <1>13
    <2> HIDE DEF rest
    <2> QED
      BY <2>1, <2>2, <1>12, <1>14
  <1>16. /\ cpu' = [gp     |-> Field(st, "gp"),
                    eax    |-> Field(st, "eax"),
                    segs   |-> Field(st, "segs"),
                    eip    |-> rest[top],
                    cs     |-> rest[top - 1],
                    eflags |-> rest[top - 2],
                    esp    |-> IF rest[top - 1] = UserCS THEN rest[top - 3] ELSE Zero]
         /\ stack' = [stack EXCEPT ![on] =
                        SubSeq(rest, 1, top - (IF rest[top - 1] = UserCS THEN 4 ELSE 3))]
         /\ Goes(rest[top])
         /\ saved' = [saved EXCEPT ![on] = Front(@)]
         /\ UNCHANGED on
    BY DEF TrapRet, Pop, Frame, st
  <1>17. cpu' = r
    <2> HIDE DEF rest
    <2>1. cpu' = [gp |-> r.gp, eax |-> r.eax, segs |-> r.segs, eip |-> r.eip, cs |-> r.cs,
                  eflags |-> r.eflags, esp |-> r.esp]
      BY <1>12, <1>14, <1>15, <1>16
    <2> QED
      BY <2>1 DEF Registers
  <1>18. stack' = [stack EXCEPT ![on] = SubSeq(st, 1, b - 8 - EspOf(c))]
    <2>1. top - (IF rest[top - 1] = UserCS THEN 4 ELSE 3) = b - 8 - EspOf(c)
      <3> HIDE DEF rest
      <3> QED
        BY <1>1, <1>12, <1>15
    <2>2. b - 8 - EspOf(c) \in 0..(b - 5)
      BY <1>1, <1>12, <1>13
    <2>3. SubSeq(rest, 1, b - 8 - EspOf(c)) = SubSeq(st, 1, b - 8 - EspOf(c))
      BY <2>2, <1>1, <1>12, <1>13
    <2> HIDE DEF rest
    <2> QED
      BY <2>1, <2>3, <1>16
  <1>19. pc' = "code"
    <2>1. r.eip \in KernelEips \cup {User, Skip(User)}
      BY <1>11 DEF Sane
    <2>2. Code(r.eip)
      BY <2>1 DEF Code, KernelEips, Sched, ForkRet, TrapRetCode, User, Skip
    <2> HIDE DEF rest
    <2> QED
      BY <2>2, <1>15, <1>16 DEF Goes
  <1>20. /\ sv \in Seq(Registers) /\ Len(sv) = k - 1
         /\ \A j \in 1..(k - 1) : sv[j] = saved[on][j]
         /\ saved' = [saved EXCEPT ![on] = sv]
    <2>1. sv = SubSeq(saved[on], 1, k - 1)
      BY DEF Front, k
    <2>2. saved \in [Stacks -> Seq(Registers)]
      BY DEF IInv, TypeOK
    <2>3. saved' = [saved EXCEPT ![on] = sv]
      BY <2>2, <1>1, <1>16
    <2> QED
      BY <2>1, <2>3, <1>1, <1>3
  <1> HIDE DEF sv, rest
  <1> DEFINE ex2 == Append(sv, r)
  <1>21. /\ ex2 \in Seq(Registers) /\ Len(ex2) = k /\ ex2[k] = r
         /\ \A j \in 1..(k - 1) : ex2[j] = sv[j]
    <2>1. k - 1 + 1 = k
      BY <1>1
    <2>2. /\ ex2 \in Seq(Registers) /\ Len(ex2) = Len(sv) + 1 /\ ex2[Len(sv) + 1] = r
          /\ \A j \in 1..Len(sv) : ex2[j] = sv[j]
      BY <1>20
    <2> QED
      BY <2>1, <2>2, <1>20
  <1> HIDE DEF ex2
  <1>22. Fits(SubSeq(st, 1, b - 8 - EspOf(c)), ex2, off, FALSE)
    <2>1. /\ Len(ex) >= 2 /\ ex[Len(ex)].eip = TrapRetCode /\ ex[Len(ex) - 1] = c
          /\ Len(ex2) = Len(ex) - 1 /\ ex2[Len(ex2)] = r
      BY <1>1, <1>2, <1>3, <1>4, <1>21
    <2>2. \A i \in 1..(Len(ex) - 2) : ex2[i] = ex[i]
      <3>1. Len(ex) - 2 = k - 1 /\ \A i \in 1..(k - 1) : i \in 1..k
        BY <1>1
      <3>2. \A i \in 1..(k - 1) : ex2[i] = saved[on][i]
        BY <1>20, <1>21
      <3>3. \A i \in 1..(k - 1) : ex[i] = saved[on][i]
        BY <3>1, <1>1
      <3>4. \A i \in 1..(k - 1) : ex2[i] = ex[i]
        BY <3>2, <3>3
      <3>5. Len(ex) - 2 = k - 1
        BY <3>1
      <3> QED
        BY <3>4, <3>5, Zenon
    <2> QED
      BY <2>1, <2>2, <1>1, <1>5, <1>8, <1>21, FitsReturned, ZenonT(60)
  <1>23. Bottom(on, ex2[1])
    <2>1. CASE k = 1
      <3>1. ex2[1] = r /\ ex[1] = c
        BY <2>1, <1>4, <1>21
      <3>2. Sched # User
        BY Different
      <3> QED
        BY <3>1, <3>2, <1>1, <1>9, <1>10 DEF Bottom
    <2>2. CASE k # 1
      <3>1. 1 \in 1..(k - 1) /\ 1 \in 1..k
        BY <2>2, <1>1, <1>3
      <3>2. ex2[1] = sv[1] /\ sv[1] = saved[on][1]
        BY <3>1, <1>20, <1>21
      <3>3. ex[1] = saved[on][1]
        BY <3>1, <1>1
      <3>4. ex2[1] = ex[1]
        BY <3>2, <3>3
      <3> QED
        BY <3>4, <1>1
    <2> QED
      BY <2>1, <2>2
  <1>24. SubSeq(st, 1, b - 8 - EspOf(c)) \in Seq(Words)
    <2>1. b - 8 - EspOf(c) \in 0..b
      BY <1>1, <1>12, <1>13
    <2> QED
      BY <2>1, <1>1
  <1>25. Len(sv) <= MaxDepth /\ \A j \in 1..Len(sv) : Sane(sv[j])
    <2>1. k <= MaxDepth
      BY <1>1 DEF IInv, TypeOK, k
    <2>2. \A j \in 1..(k - 1) : j \in 1..k
      BY <1>1
    <2> QED
      BY <2>1, <2>2, <1>1, <1>20 DEF HandlersCanReturn
  <1>26. IInv'
    <2>1. Sane(cpu') /\ pc' \in {"code", "halt"} /\ UNCHANGED on
      BY <1>11, <1>16, <1>17, <1>19
    <2>2. Bottom(on, Append(sv, cpu')[1])
      BY <1>17, <1>23 DEF ex2
    <2>3. Fits(SubSeq(st, 1, b - 8 - EspOf(c)), Append(sv, cpu'), off, FALSE)
      BY <1>17, <1>22 DEF ex2
    <2> QED
      BY <2>1, <2>2, <2>3, <1>18, <1>20, <1>24, <1>25, OnOneStack
  <1>27. cpu' \in After(c, Field(Frame, "int_no"))
    BY <1>8, <1>14, <1>17 DEF Frame, st
  <1>28. b - 8 - EspOf(c) \in Nat /\ b - 8 - EspOf(c) + 8 <= b
    BY <1>1, <1>12, <1>13
  <1> QED
    BY <1>16, <1>18, <1>19, <1>26, <1>27, <1>28 DEF c, k, st

-----------------------------------------------------------------------------
(* Every step *)

(* What a step continues, as ResumesInterrupted has it.                    *)
Resumes == Len(saved'[on']) < Len(saved[on']) => cpu' \in Resumed /\ pc' = "code"

(* The steps that put nobody away and continue nobody.                     *)
LEMMA StayStep ==
    ASSUME HandlersCanReturn, IInv,
           \/ UserRuns \/ HandlerHalts \/ DivideError \/ SyscallResult \/ SyscallExit
           \/ HandlerReturns \/ SchedSetIF \/ ForkRetRelease \/ ForkRetReturn \/ Stopped
           \/ UNCHANGED vars
    PROVE  IInv' /\ UNCHANGED <<on, saved>>
  <1>1. CASE UserRuns
    BY <1>1, UserRunsStep DEF UserRuns
  <1>2. CASE HandlerHalts
    BY <1>2, StopStep DEF HandlerHalts
  <1>3. CASE DivideError
    BY <1>3, DivideErrorStep DEF DivideError, Return
  <1>4. CASE SyscallResult
    BY <1>4, SyscallResultStep DEF SyscallResult, Return
  <1>5. CASE SyscallExit
    BY <1>5, StopStep DEF SyscallExit
  <1>6. CASE HandlerReturns
    BY <1>6, HandlerReturnsStep DEF HandlerReturns, Return
  <1>7. CASE SchedSetIF
    BY <1>7, SchedSetIFStep DEF SchedSetIF
  <1>8. CASE ForkRetRelease
    BY <1>8, ForkRetReleaseStep DEF ForkRetRelease
  <1>9. CASE ForkRetReturn
    BY <1>9, ForkRetReturnStep DEF ForkRetReturn
  <1>10. CASE Stopped \/ UNCHANGED vars
    <2>1. UNCHANGED vars
      BY <1>10 DEF Stopped
    <2> QED
      BY <2>1, StopStep DEF vars, IInv
  <1> QED
    BY <1>1, <1>2, <1>3, <1>4, <1>5, <1>6, <1>7, <1>8, <1>9, <1>10

(* The two switches: from the scheduler, and from a system call.           *)
LEMMA Switching ==
    ASSUME HandlersCanReturn, IInv, SchedSwitch \/ SyscallSwitch
    PROVE  \E next \in Stacks : /\ next # on /\ SwitchTo(next) /\ cpu.cs = KernelCS
                              /\ Len(saved[on]) < MaxDepth
  <1>1. Sane(cpu)
    BY Running
  <1>2. CASE SchedSwitch
    <2>1. cpu.eip = Sched /\ on = "sched" /\ SwitchTo("proc")
      BY <1>2 DEF SchedSwitch
    <2>2. saved[on] = <<>>
      BY <2>1, AtBottom
    <2>3. cpu.cs = KernelCS
      BY <2>1, <1>1, Different DEF Sane, KernelEips
    <2>4. Len(saved[on]) < MaxDepth
      BY <2>2 DEF HandlersCanReturn
    <2> QED
      BY <2>1, <2>3, <2>4 DEF Stacks
  <1>3. CASE SyscallSwitch
    <2>1. /\ on = "proc" /\ SwitchTo("sched") /\ Len(saved[on]) < MaxDepth
          /\ cpu.eip[1] = "handler"
      BY <1>3 DEF SyscallSwitch, InHandler
    <2>2. cpu.cs = KernelCS
      BY <2>1, <1>1, Different DEF Sane
    <2> QED
      BY <2>1, <2>2 DEF Stacks
  <1> QED
    BY <1>2, <1>3

(* A switch continues whoever was put away last on the other stack.        *)
LEMMA SwitchSteps ==
    ASSUME HandlersCanReturn, IInv, SchedSwitch \/ SyscallSwitch
    PROVE  IInv' /\ Resumes
  <1>1. PICK next \in Stacks : /\ next # on /\ SwitchTo(next) /\ cpu.cs = KernelCS
                               /\ Len(saved[on]) < MaxDepth
    BY Switching
  <1>2. /\ IInv' /\ on' = next /\ pc' = "code"
        /\ cpu' = [Last(saved[next]) EXCEPT !.eax = cpu.eax]
    BY <1>1, SwitchStep DEF HandlersCanReturn
  <1>3. Resumed = {[Last(saved[next]) EXCEPT !.eax = cpu.eax]}
    BY <1>1, <1>2 DEF Resumed
  <1> QED
    BY <1>2, <1>3 DEF Resumes

(* The invariant is kept by every step, and every return continues what    *)
(* was put away last.                                                      *)
LEMMA NextIInv ==
    ASSUME HandlersCanReturn, IInv, [Next]_vars
    PROVE  IInv' /\ Resumes
  <1>1. CASE \/ UserRuns \/ HandlerHalts \/ DivideError \/ SyscallResult \/ SyscallExit
             \/ HandlerReturns \/ SchedSetIF \/ ForkRetRelease \/ ForkRetReturn \/ Stopped
             \/ UNCHANGED vars
    <2>1. IInv' /\ UNCHANGED <<on, saved>>
      BY <1>1, StayStep
    <2>2. on \in Stacks /\ saved[on] \in Seq(Registers)
      BY Running
    <2> QED
      BY <2>1, <2>2 DEF Resumes
  <1>2. CASE \/ \E n \in UserFaults : UserFault(n)
             \/ \E n \in UserInts : UserInt(n)
             \/ \E n \in KernelFaults : KernelFault(n)
             \/ \E n \in OpenVectors : Interrupt(n)
    <2>1. IInv' /\ UNCHANGED on /\ Len(saved'[on]) = Len(saved[on]) + 1
      BY <1>2, EnterSteps
    <2>2. Len(saved[on]) \in Nat
      BY Running
    <2> QED
      BY <2>1, <2>2 DEF Resumes
  <1>3. CASE SchedSwitch \/ SyscallSwitch
    BY <1>3, SwitchSteps
  <1>4. CASE TrapRet
    <2>1. /\ IInv' /\ UNCHANGED on /\ pc' = "code"
          /\ cpu' \in After(saved[on][Len(saved[on])], Field(Frame, "int_no"))
      BY <1>4, TrapRetStep
    <2> QED
      BY <2>1 DEF Resumes, Resumed, After, Last
  <1> QED
    BY <1>1, <1>2, <1>3, <1>4 DEF Next

(* The stack of a new process, word by word.                               *)
LEMMA FirstStack ==
    /\ NewStack \in Seq(Words) /\ Len(NewStack) = 12
    /\ NewStack[1] = UserEsp /\ NewStack[2] = Flags(1) /\ NewStack[3] = UserCS
    /\ NewStack[4] = User /\ NewStack[5] = Zero /\ NewStack[6] = Zero /\ NewStack[7] = UserDS
    /\ NewStack[8] = Zero /\ NewStack[9] = Zero
    /\ NewStack[10] = TrapRetCode /\ NewStack[11] = ForkRet /\ NewStack[12] = Zero
  <1> DEFINE t1 == FirstFrame
             t2 == <<TrapRetCode>>
             t3 == <<ForkRet, Zero>>
             s1 == Join(t1, t2)
             s2 == Join(s1, t3)
  <1>1. {UserEsp, Flags(1), UserCS, User, Zero, UserDS, TrapRetCode, ForkRet} \subseteq Words
    BY DEF Words, Data, Eips
  <1>2. /\ t1 \in Seq(Words) /\ Len(t1) = 9
        /\ t1[1] = UserEsp /\ t1[2] = Flags(1) /\ t1[3] = UserCS /\ t1[4] = User /\ t1[5] = Zero
        /\ t1[6] = Zero /\ t1[7] = UserDS /\ t1[8] = Zero /\ t1[9] = Zero
    BY <1>1 DEF FirstFrame
  <1>3. /\ t2 \in Seq(Words) /\ Len(t2) = 1 /\ t2[1] = TrapRetCode
        /\ t3 \in Seq(Words) /\ Len(t3) = 2 /\ t3[1] = ForkRet /\ t3[2] = Zero
    BY <1>1
  <1>4. NewStack = s2
    BY DEF NewStack, Context, Join
  <1> HIDE DEF t1, t2, t3
  <1>5. /\ s1 \in Seq(Words) /\ Len(s1) = 9 + 1 /\ \A i \in 1..9 : s1[i] = t1[i]
        /\ \A i \in 1..1 : s1[9 + i] = t2[i]
    <2>1. /\ s1 \in Seq(Words) /\ Len(s1) = Len(t1) + Len(t2)
          /\ \A i \in 1..Len(t1) : s1[i] = t1[i]
          /\ \A i \in 1..Len(t2) : s1[Len(t1) + i] = t2[i]
      BY <1>2, <1>3, JoinFacts
    <2> QED
      BY <2>1, <1>2, <1>3
  <1> HIDE DEF s1
  <1>6. /\ s2 \in Seq(Words) /\ Len(s2) = 10 + 2 /\ \A i \in 1..10 : s2[i] = s1[i]
        /\ \A i \in 1..2 : s2[10 + i] = t3[i]
    <2>1. /\ s2 \in Seq(Words) /\ Len(s2) = Len(s1) + Len(t3)
          /\ \A i \in 1..Len(s1) : s2[i] = s1[i]
          /\ \A i \in 1..Len(t3) : s2[Len(s1) + i] = t3[i]
      BY <1>3, <1>5, JoinFacts
    <2> QED
      BY <2>1, <1>3, <1>5
  <1> HIDE DEF s2
  <1>7. \A i \in 1..9 : s2[i] = t1[i]
    BY <1>5, <1>6
  <1>8. s2[10] = t2[1] /\ s2[11] = t3[1] /\ s2[12] = t3[2]
    <2>1. s1[9 + 1] = t2[1] /\ s2[10] = s1[10] /\ s2[10 + 1] = t3[1] /\ s2[10 + 2] = t3[2]
      BY <1>5, <1>6
    <2> QED
      BY <2>1
  <1> QED
    BY <1>2, <1>3, <1>4, <1>6, <1>7, <1>8

(* The scheduler has put nobody away; the process is new.                  *)
LEMMA InitIInv ==
    ASSUME HandlersCanReturn, Init
    PROVE  IInv
  <1> DEFINE c0 == InKernel(Sched)
             c1 == [InKernel(ForkRet) EXCEPT !.gp = Zero]
             exs == <<c0>>
             exp == <<Start, c1>>
             off == [k \in 0..1 |-> IF k = 0 THEN 0 ELSE 9]
  <1>1. /\ cpu = c0 /\ on = "sched" /\ pc = "code"
        /\ stack = [sched |-> <<>>, proc |-> NewStack]
        /\ saved = [sched |-> <<>>, proc |-> exp]
    BY DEF Init
  <1>2. /\ 0 \in -1..MaxDepth /\ Regs(0) \in Data /\ Zero \in Data
        /\ {Sched, ForkRet, User} \subseteq Eips /\ {Sched, ForkRet} \subseteq KernelEips
    <2>1. 0 \in -1..MaxDepth
      BY DEF HandlersCanReturn
    <2> QED
      BY <2>1 DEF Data, Eips, KernelEips
  <1>3. Sane(c0) /\ c0 \in Registers /\ c0.eip = Sched
    <2>1. c0 = [eip |-> Sched, cs |-> KernelCS, eflags |-> Flags(0), esp |-> Zero,
                segs |-> KernelDS, eax |-> Regs(0), gp |-> Regs(0)]
      BY DEF InKernel, Sched
    <2> QED
      BY <2>1, <1>2 DEF Sane, Registers
  <1>4. /\ Sane(c1) /\ c1 \in Registers /\ c1.eip = ForkRet /\ c1.cs = KernelCS
        /\ c1.eflags = Flags(0) /\ c1.gp = Zero
    <2>1. c1 = [eip |-> ForkRet, cs |-> KernelCS, eflags |-> Flags(0), esp |-> Zero,
                segs |-> KernelDS, eax |-> Regs(0), gp |-> Zero]
      BY DEF InKernel, ForkRet
    <2> QED
      BY <2>1, <1>2 DEF Sane, Registers
  <1>5. /\ Sane(Start) /\ Start \in Registers /\ Start.cs = UserCS /\ Start.esp = UserEsp
        /\ Start.eip = User /\ Start.eflags = Flags(1) /\ Start.segs = UserDS
        /\ Start.eax = Zero /\ Start.gp = Zero
    BY <1>2 DEF Start, Sane, Registers
  <1> HIDE DEF c0, c1
  <1>6. /\ NewStack \in Seq(Words) /\ Len(NewStack) = 12
        /\ NewStack[1] = UserEsp /\ NewStack[2] = Flags(1) /\ NewStack[3] = UserCS
        /\ NewStack[4] = User /\ NewStack[6] = Zero /\ NewStack[7] = UserDS
        /\ NewStack[8] = Zero /\ NewStack[9] = Zero
        /\ NewStack[10] = TrapRetCode /\ NewStack[11] = ForkRet /\ NewStack[12] = Zero
    BY FirstStack
  <1>7. TypeOK
    <2>1. Len(exp) = 2 /\ exp \in Seq(Registers)
      BY <1>4, <1>5
    <2>3. saved["sched"] = <<>> /\ saved["proc"] = exp
      BY <1>1
    <2> HIDE DEF exp
    <2>2. stack \in [Stacks -> Seq(Words)] /\ saved \in [Stacks -> Seq(Registers)]
      <3>1. \A S : \A a, d : a \in S /\ d \in S
                          => [sched |-> a, proc |-> d] \in [{"sched", "proc"} -> S]
        OBVIOUS
      <3>2. <<>> \in Seq(Words) /\ <<>> \in Seq(Registers)
        OBVIOUS
      <3> QED
        BY <3>1, <3>2, <1>1, <1>6, <2>1 DEF Stacks
    <2>4. \A s \in Stacks : Len(saved[s]) <= MaxDepth
      <3>1. Len(saved["sched"]) = 0 /\ Len(saved["proc"]) = 2
        BY <2>1, <2>3
      <3>2. 0 <= MaxDepth /\ 2 <= MaxDepth
        BY DEF HandlersCanReturn
      <3> QED
        BY <3>1, <3>2 DEF Stacks
    <2> QED
      BY <2>2, <2>4, <1>1, <1>3 DEF TypeOK, Stacks
  <1>8. Thread("sched", exs) /\ Shape(<<>>, exs, FALSE)
    <2>1. exs \in Seq(Registers) /\ Len(exs) = 1 /\ exs[1] = c0 /\ exs # <<>>
      BY <1>3
    <2>2. Below(c0) = 0
      BY <1>3, Different DEF Below
    <2>3. off[0] = 0 /\ \A k \in 0..0 : k = 0
      OBVIOUS
    <2> HIDE DEF exs, off
    <2>4. Offsets(off, 0) /\ Layers(<<>>, exs, off, 0)
      BY <2>3 DEF Offsets, Layers
    <2>5. Rest(<<>>, c0, 0, FALSE)
      BY <2>2 DEF Rest
    <2>6. Fits(<<>>, exs, off, FALSE)
      <3>1. Len(exs) - 1 = 0 /\ exs[Len(exs)] = c0
        BY <2>1
      <3> QED
        BY <3>1, <2>3, <2>4, <2>5 DEF Fits
    <2>7. Thread("sched", exs)
      BY <2>1, <1>3 DEF Thread, Bottom
    <2> QED
      BY <2>6, <2>7 DEF Shape
  <1>9. Thread("proc", exp) /\ Shape(NewStack, exp, TRUE)
    <2>1. exp \in Seq(Registers) /\ Len(exp) = 2 /\ exp[1] = Start /\ exp[2] = c1 /\ exp # <<>>
      BY <1>4, <1>5
    <2>2. Below(c1) = 1 /\ Below(Start) = 0 /\ EspOf(Start) = 1
      BY <1>4, <1>5 DEF Below, EspOf, User, ForkRet
    <2>3. off[0] = 0 /\ off[1] = 9 /\ \A k \in 0..1 : k = 0 \/ k = 1
      OBVIOUS
    <2> HIDE DEF exp, off
    <2>4. Offsets(off, 1)
      BY <2>3 DEF Offsets
    <2>5. Layer(NewStack, 1, 0, 9, Start, ForkRet)
      <3>1. NewStack[9 - 3] = Zero /\ ErrorWord(Zero) = 0
        BY <1>6, Different DEF ErrorWord
      <3>2. Holds(NewStack, 9, 0, Start)
        BY <1>5, <1>6 DEF Holds
      <3>3. Outcome(ForkRet, 1, Start, Zero, 0, Start) /\ Vector(Zero, Start)
        BY DEF Outcome, Vector
      <3> QED
        BY <3>1, <3>2, <3>3, <2>2, <1>5 DEF Layer
    <2>6. Layers(NewStack, exp, off, 1)
      <3> SUFFICES ASSUME NEW k \in 1..1
                   PROVE  Layer(NewStack, k, off[k - 1], off[k], exp[k], exp[k + 1].eip)
        BY DEF Layers
      <3>1. k = 1 /\ k - 1 = 0 /\ k + 1 = 2
        OBVIOUS
      <3> QED
        BY <3>1, <2>1, <2>3, <2>5, <1>4
    <2>7. Rest(NewStack, c1, 9, TRUE)
      BY <1>4, <1>6, <2>2 DEF Rest
    <2>8. Fits(NewStack, exp, off, TRUE)
      <3>1. Len(exp) - 1 = 1 /\ exp[Len(exp)] = c1
        BY <2>1
      <3> QED
        BY <3>1, <2>3, <2>4, <2>6, <2>7 DEF Fits
    <2>9. \A k \in 1..2 : Sane(exp[k])
      <3>1. \A k \in 1..2 : k = 1 \/ k = 2
        OBVIOUS
      <3> QED
        BY <3>1, <2>1, <1>4, <1>5
    <2>10. Thread("proc", exp)
      BY <2>1, <2>9, <1>5 DEF Thread, Bottom
    <2> QED
      BY <2>8, <2>10 DEF Shape
  <1>10. Execs("sched") = exs /\ Execs("proc") = exp
    BY <1>1 DEF Execs
  <1>11. stack["sched"] = <<>> /\ stack["proc"] = NewStack
    BY <1>1
  <1> HIDE DEF exs, exp, off
  <1>12. ASSUME NEW s \in Stacks
         PROVE  Thread(s, Execs(s)) /\ Shape(stack[s], Execs(s), s # on)
    <2>1. CASE s = "sched"
      BY <2>1, <1>1, <1>8, <1>10, <1>11
    <2>2. CASE s = "proc"
      BY <2>2, <1>1, <1>9, <1>10, <1>11
    <2> QED
      BY <2>1, <2>2 DEF Stacks
  <1> QED
    BY <1>1, <1>7, <1>12 DEF IInv

-----------------------------------------------------------------------------
(* What the invariant says of the properties *)

(* An empty stack of frames is an empty stack.                             *)
LEMMA NoWordLeft ==
    ASSUME IInv
    PROVE  StackUnwound
  <1>1. ASSUME NEW s \in Stacks, saved[s] = <<>>
        PROVE  stack[s] = <<>>
    <2>1. s = on
      <3>1. s # on => Execs(s) = <<>>
        BY <1>1 DEF Execs
      <3> QED
        BY <3>1, <1>1 DEF IInv, Thread
    <2>2. Execs(on)[1] = cpu
      <3>1. Len(saved[on]) = 0
        BY <1>1, <2>1
      <3>2. Execs(on)[Len(saved[on]) + 1] = cpu
        BY <1>1, Running
      <3> QED
        BY <3>1, <3>2
    <2>3. Bottom(on, cpu)
      BY <1>1, <2>2, Running
    <2> QED
      BY <1>1, <2>1, <2>3, AtBottom DEF Bottom
  <1> QED
    BY <1>1 DEF StackUnwound

(* The handler's own layer holds the registers of who was interrupted.     *)
LEMMA FieldsNameInterrupted ==
    ASSUME IInv
    PROVE  FrameNamesInterrupted
  <1>1. ASSUME InHandler, IntNo \notin HaltVectors,
               NEW field \in {"gp", "eax", "segs", "eip", "cs", "eflags"}
        PROVE  Field(Frame, field) = Last(saved[on])[field]
    <2> DEFINE st == stack[on]
               b  == Len(st)
               c  == saved[on][Len(saved[on])]
    <2>1. b \in Nat /\ b >= 8 /\ Holds(st, b, 0, c)
      BY <1>1, HandlerFinds
    <2>2. st \in Seq(Words)
      BY <1>1, Running
    <2>3. /\ st[b] = c.gp /\ st[b - 1] = c.eax /\ st[b - 2] = c.segs
          /\ st[b - 5] = c.eip /\ st[b - 6] = c.cs /\ st[b - 7] = c.eflags
      <3>1. b - 5 - 0 = b - 5 /\ b - 6 - 0 = b - 6 /\ b - 7 - 0 = b - 7
        BY <2>1
      <3> QED
        BY <3>1, <2>1 DEF Holds
    <2>4. /\ Field(st, "gp") = c.gp /\ Field(st, "eax") = c.eax /\ Field(st, "segs") = c.segs
          /\ Field(st, "eip") = c.eip /\ Field(st, "cs") = c.cs
          /\ Field(st, "eflags") = c.eflags
      BY <2>1, <2>2, <2>3, FieldsOfFrame
    <2>5. Last(saved[on]) = c /\ Frame = st
      BY DEF Last, Frame
    <2> HIDE DEF st, c
    <2> QED
      BY <2>4, <2>5
  <1> QED
    BY <1>1 DEF FrameNamesInterrupted

-----------------------------------------------------------------------------
(* Frames of a kind *)

(* Where the vectors of V lie on stack s.                                  *)
Frames(s, V) == {i \in 1..Len(stack[s]) : \E n \in V : stack[s][i] = No(n)}

(* No register is mistaken for a vector.                                   *)
LEMMA RegistersAreNoVectors ==
    ASSUME NEW c \in Registers
    PROVE  \A n : No(n) \notin {c.eip, c.cs, c.eflags, c.esp, c.segs, c.eax, c.gp, Zero}
  <1>1. \A n : No(n)[1] = "no"
    BY DEF No
  <1>2. c.eip[1] # "no"
    BY DEF Registers, Eips, User, Skip, Sched, ForkRet, TrapRetCode
  <1>3. c.eax[1] # "no" /\ c.gp[1] # "no"
    BY DEF Registers, Data, Zero, Count, MinusOne, Regs, Call
  <1>4. c.cs[1] # "no" /\ c.eflags[1] # "no" /\ c.esp[1] # "no" /\ c.segs[1] # "no"
    BY DEF Registers, UserCS, KernelCS, Flags, UserEsp, Zero, UserDS, KernelDS
  <1>5. Zero[1] # "no"
    BY DEF Zero
  <1> QED
    BY <1>1, <1>2, <1>3, <1>4, <1>5

(* What is pushed for a trap has one word for the vector.                  *)
LEMMA FramesOfFramed ==
    ASSUME NEW low \in Seq(Words), NEW c \in Registers, NEW n, No(n) \in Words,
           NEW err \in Seq(Words), Len(err) \in {0, 1},
           \A i \in 1..Len(err) : \A k : err[i] # No(k),
           NEW i \in 1..Len(Framed(low, err, c, No(n))), NEW k,
           Framed(low, err, c, No(n))[i] = No(k)
    PROVE  i \in 1..Len(low) \/ (i = Len(Framed(low, err, c, No(n))) - 3 /\ k = n)
  <1> DEFINE st == Framed(low, err, c, No(n))
             m  == Len(low)
             e  == Len(err)
             b  == Len(st)
  <1>1. /\ st \in Seq(Words) /\ b = Len(low) + 8 + e
        /\ st[b] = c.gp /\ st[b - 1] = c.eax /\ st[b - 2] = c.segs
        /\ st[b - 3] = No(n) /\ st[b - 5 - e] = c.eip
        /\ st[b - 6 - e] = c.cs /\ st[b - 7 - e] = c.eflags
    BY FrameOnStack
  <1>2. st[b - 4] = Zero /\ (e = 1 => st[b - 5] = err[1])
    <2> DEFINE s1 == Join(low, <<c.eflags, c.cs, c.eip>>)
               s2 == Join(s1, err)
               s3 == Join(s2, <<Zero, No(n)>>)
               t4 == <<c.segs, c.eax, c.gp>>
    <2>1. /\ s1 \in Seq(Words) /\ Len(s1) = m + 3
      <3>1. <<c.eflags, c.cs, c.eip>> \in Seq(Words) /\ Len(<<c.eflags, c.cs, c.eip>>) = 3
        BY RegisterWords
      <3> QED
        BY <3>1, JoinFacts
    <2> HIDE DEF s1
    <2>2. /\ s2 \in Seq(Words) /\ Len(s2) = m + 3 + e
          /\ \A j \in 1..e : s2[m + 3 + j] = err[j]
      <3>1. /\ s2 \in Seq(Words) /\ Len(s2) = Len(s1) + Len(err)
            /\ \A j \in 1..Len(err) : s2[Len(s1) + j] = err[j]
        BY <2>1, JoinFacts
      <3> QED
        BY <3>1, <2>1
    <2> HIDE DEF s2
    <2>3. /\ s3 \in Seq(Words) /\ Len(s3) = m + 3 + e + 2 /\ s3[m + 3 + e + 1] = Zero
          /\ \A j \in 1..(m + 3 + e) : s3[j] = s2[j]
      <3> DEFINE t3 == <<Zero, No(n)>>
      <3>1. t3 \in Seq(Words) /\ Len(t3) = 2 /\ t3[1] = Zero
        BY DEF Words, Data
      <3> HIDE DEF t3
      <3>2. /\ s3 \in Seq(Words) /\ Len(s3) = Len(s2) + Len(t3)
            /\ \A j \in 1..Len(s2) : s3[j] = s2[j]
            /\ \A j \in 1..Len(t3) : s3[Len(s2) + j] = t3[j]
        BY <2>2, <3>1, JoinFacts DEF t3
      <3>3. 1 \in 1..2
        OBVIOUS
      <3> QED
        BY <3>1, <3>2, <3>3, <2>2
    <2> HIDE DEF s3
    <2>4. \A j \in 1..(m + 3 + e + 2) : st[j] = s3[j]
      <3>1. t4 \in Seq(Words)
        BY RegisterWords
      <3>2. st = Join(s3, t4)
        BY DEF Framed, s3, s2, s1
      <3> HIDE DEF t4, st
      <3>3. \A j \in 1..Len(s3) : st[j] = s3[j]
        BY <3>1, <3>2, <2>3, JoinFacts, ZenonT(60)
      <3> QED
        BY <3>3, <2>3
    <2>5. m \in Nat /\ e \in {0, 1}
      OBVIOUS
    <2> HIDE DEF st, m, e, b
    <2>6. b - 4 = m + 3 + e + 1 /\ (e = 1 => b - 5 = m + 3 + 1)
      BY <1>1, <2>5 DEF m
    <2>7. m + 3 + e + 1 \in 1..(m + 3 + e + 2)
      BY <2>5
    <2>8. st[b - 4] = Zero
      BY <2>3, <2>4, <2>6, <2>7
    <2>9. ASSUME e = 1 PROVE st[b - 5] = err[1]
      <3> DEFINE x == m + 3 + 1
      <3>1. x \in 1..(m + 3 + e) /\ x \in 1..(m + 3 + e + 2) /\ 1 \in 1..e
        BY <2>5, <2>9
      <3>2. b - 5 = x
        BY <2>6, <2>9
      <3>3. s2[x] = err[1]
        BY <3>1, <2>2
      <3> HIDE DEF x
      <3>4. s3[x] = s2[x]
        BY <3>1, <2>3
      <3>5. st[x] = s3[x]
        BY <3>1, <2>4
      <3> QED
        BY <3>2, <3>3, <3>4, <3>5
    <2> QED
      BY <2>8, <2>9
  <1>3. m \in Nat /\ e \in {0, 1} /\ b = m + 8 + e /\ b \in Nat
    BY <1>1
  <1>4. st[i] = No(k) /\ i \in 1..b
    OBVIOUS
  <1>5. e = 1 => err[1] # No(k)
    OBVIOUS
  <1> HIDE DEF st, m, e, b
  <1>6. \/ i \in 1..m \/ i = b - 7 - e \/ i = b - 6 - e \/ i = b - 5 - e
        \/ (e = 1 /\ i = b - 5)
        \/ i = b - 4 \/ i = b - 3 \/ i = b - 2 \/ i = b - 1 \/ i = b
    BY <1>3, <1>4
  <1>7. i \in 1..m \/ i = b - 3
    <2>1. \A x : x # No(k) => st[i] # x
      BY <1>4
    <2>2. /\ c.eflags # No(k) /\ c.cs # No(k) /\ c.eip # No(k)
          /\ c.segs # No(k) /\ c.eax # No(k) /\ c.gp # No(k) /\ Zero # No(k)
      BY RegistersAreNoVectors
    <2>3. i # b - 7 - e /\ i # b - 6 - e /\ i # b - 5 - e
      BY <1>1, <2>1, <2>2
    <2>4. ~(e = 1 /\ i = b - 5) /\ i # b - 4
      BY <1>2, <1>5, <2>1, <2>2
    <2>5. i # b - 2 /\ i # b - 1 /\ i # b
      BY <1>1, <2>1, <2>2
    <2> QED
      BY <1>6, <2>3, <2>4, <2>5
  <1>8. i = b - 3 => k = n
    BY <1>1, <1>4, Different, SMTT(60)
  <1> QED
    BY <1>7, <1>8 DEF st, m, b

(* An entry adds the frame of its vector, and nothing else.                *)
LEMMA EnterFrames ==
    ASSUME IInv, NEW n \in Vectors, Enter(n), NEW V, NEW s \in Stacks
    PROVE  /\ Len(stack'[on]) \in Nat /\ Len(stack'[on]) >= Len(stack[on]) + 8
           /\ \A i \in 1..Len(stack[s]) : stack'[s][i] = stack[s][i]
           /\ stack'[on][Len(stack'[on]) - 3] = No(n)
           /\ Frames(s, V)' =
                 Frames(s, V) \cup (IF s = on /\ n \in V THEN {Len(stack'[on]) - 3} ELSE {})
  <1> DEFINE low == IF cpu.cs = UserCS THEN <<cpu.esp>> ELSE stack[on]
             err == IF n \in WithError THEN <<Err(n)>> ELSE <<>>
             st  == stack[on]
             st2 == Framed(low, err, cpu, No(n))
             b   == Len(st2)
  <1>1. /\ on \in Stacks /\ st \in Seq(Words) /\ cpu \in Registers
        /\ stack \in [Stacks -> Seq(Words)]
    BY Running DEF IInv, TypeOK
  <1>2. stack' = [stack EXCEPT ![on] = st2]
    BY DEF Enter, HardwareFrame, Stub, Framed, Join
  <1>3. /\ low \in Seq(Words) /\ Len(st) <= Len(low)
        /\ \A i \in 1..Len(st) : low[i] = st[i]
        /\ \A i \in 1..Len(low) : \A k : low[i] = No(k) => i \in 1..Len(st)
    <2>1. CASE cpu.cs = UserCS
      <3>1. st = <<>>
        BY <2>1, AtBottom
      <3>2. low = <<cpu.esp>> /\ <<cpu.esp>> \in Seq(Words) /\ Len(<<cpu.esp>>) = 1
        BY <2>1, <1>1, RegisterWords
      <3>3. \A k : cpu.esp # No(k)
        BY <1>1, RegistersAreNoVectors
      <3> QED
        BY <3>1, <3>2, <3>3
    <2>2. CASE cpu.cs # UserCS
      BY <2>2, <1>1
    <2> QED
      BY <2>1, <2>2
  <1>4. /\ err \in Seq(Words) /\ Len(err) \in {0, 1}
        /\ \A i \in 1..Len(err) : \A k : err[i] # No(k)
    <2>1. CASE n \in WithError
      <3>1. Err(n) \in Words
        BY <2>1 DEF Words
      <3>2. \A k : Err(n) # No(k)
        BY DEF Err, No
      <3> QED
        BY <2>1, <3>1, <3>2
    <2>2. CASE n \notin WithError
      BY <2>2
    <2> QED
      BY <2>1, <2>2
  <1>5. No(n) \in Words
    BY DEF Words
  <1> HIDE DEF low, err
  <1>6. /\ st2 \in Seq(Words) /\ b = Len(low) + 8 + Len(err)
        /\ \A i \in 1..Len(low) : st2[i] = low[i]
        /\ st2[b - 3] = No(n)
    <2>1. /\ cpu \in Registers /\ low \in Seq(Words) /\ err \in Seq(Words)
          /\ Len(err) \in {0, 1} /\ No(n) \in Words
      BY <1>1, <1>3, <1>4, <1>5
    <2>2. /\ st2 \in Seq(Words) /\ Len(st2) = Len(low) + 8 + Len(err)
          /\ \A i \in 1..Len(low) : st2[i] = low[i]
          /\ st2[Len(st2) - 3] = No(n)
      BY <2>1, FrameOnStack, SMTT(60)
    <2> QED
      BY <2>2
  <1>7. \A i \in 1..b : \A k : st2[i] = No(k) => i \in 1..Len(low) \/ (i = b - 3 /\ k = n)
    BY <1>1, <1>3, <1>4, <1>5, FramesOfFramed, SMTT(60)
  <1> HIDE DEF st2
  <1>8. /\ b \in Nat /\ b >= Len(st) + 8 /\ b >= Len(low) + 8 /\ Len(st) \in Nat
        /\ \A i \in 1..Len(st) : i \in 1..Len(low) /\ i \in 1..b
        /\ b - 3 \in 1..b /\ b - 3 \notin 1..Len(st)
    BY <1>1, <1>3, <1>4, <1>6, SMTT(60)
  <1>9. \A i \in 1..Len(st) : st2[i] = st[i]
    BY <1>3, <1>6, <1>8
  <1>10. \A i \in 1..b : \A k : st2[i] = No(k) => i \in 1..Len(st) \/ (i = b - 3 /\ k = n)
    BY <1>3, <1>6, <1>7
  <1>11. stack'[on] = st2 /\ (s # on => stack'[s] = stack[s])
    BY <1>1, <1>2
  <1>12. CASE s # on
    BY <1>6, <1>8, <1>11, <1>12 DEF Frames
  <1>13. CASE s = on
    <2>1. \A i : i \in Frames(s, V)' <=> i \in 1..b /\ \E k \in V : st2[i] = No(k)
      BY <1>11, <1>13 DEF Frames
    <2>2. \A i : i \in Frames(s, V) <=> i \in 1..Len(st) /\ \E k \in V : st[i] = No(k)
      BY <1>13 DEF Frames
    <2>3. ASSUME NEW i
          PROVE  i \in Frames(s, V)' <=> i \in Frames(s, V) \/ (n \in V /\ i = b - 3)
      <3>1. CASE i \in 1..Len(st)
        <4>1. i \in 1..b /\ st2[i] = st[i] /\ i # b - 3
          BY <3>1, <1>8, <1>9
        <4> QED
          BY <3>1, <4>1, <2>1, <2>2
      <3>2. CASE i = b - 3
        <4>1. i \in 1..b /\ st2[i] = No(n) /\ i \notin 1..Len(st)
          BY <3>2, <1>6, <1>8
        <4>2. (\E k \in V : st2[i] = No(k)) <=> n \in V
          BY <4>1, Different
        <4> QED
          BY <3>2, <4>1, <4>2, <2>1, <2>2
      <3>3. CASE i \notin 1..Len(st) /\ i # b - 3
        <4>1. ~(i \in 1..b /\ \E k \in V : st2[i] = No(k))
          BY <3>3, <1>10
        <4> QED
          BY <3>3, <4>1, <2>1, <2>2
      <3> QED
        BY <3>1, <3>2, <3>3
    <2>4. Frames(s, V)' = Frames(s, V) \cup (IF n \in V THEN {b - 3} ELSE {})
      BY <2>3
    <2> QED
      BY <2>4, <1>6, <1>8, <1>9, <1>11, <1>13
  <1> QED
    BY <1>12, <1>13

(* What remains of a stack keeps its frames.                               *)
LEMMA FramesOfRest ==
    ASSUME NEW st \in Seq(Words), NEW m \in 0..Len(st)
    PROVE  /\ Len(SubSeq(st, 1, m)) = m
           /\ \A i \in 1..m : SubSeq(st, 1, m)[i] = st[i] /\ i \in 1..Len(st)
  OBVIOUS

(* What trap_ret, the return of fork_ret and switch_to leave.              *)
LEMMA FramesPopped ==
    ASSUME IInv, NEW s \in Stacks, NEW V, NEW m \in 0..Len(stack[s]),
           stack'[s] = SubSeq(stack[s], 1, m)
    PROVE  Frames(s, V)' = Frames(s, V) \cap 1..m
  <1>1. stack[s] \in Seq(Words)
    BY DEF IInv, TypeOK
  <1>2. /\ Len(SubSeq(stack[s], 1, m)) = m
        /\ \A i \in 1..m : SubSeq(stack[s], 1, m)[i] = stack[s][i] /\ i \in 1..Len(stack[s])
    BY <1>1, FramesOfRest
  <1> QED
    BY <1>2 DEF Frames

(* Handlers write eax, which is no vector, and the divide error eip.       *)
LEMMA FramesOfReturn ==
    ASSUME IInv, DivideError \/ SyscallResult \/ HandlerReturns, NEW V, NEW s \in Stacks
    PROVE  Frames(s, V)' = Frames(s, V) /\ Len(stack'[s]) = Len(stack[s])
           /\ \A i \in 1..Len(stack[s]) : \A k : stack'[s][i] = No(k) <=> stack[s][i] = No(k)
  <1> DEFINE st == stack[on]
             b  == Len(st)
             c  == saved[on][Len(saved[on])]
  <1>1. InHandler /\ IntNo \notin HaltVectors
    BY DEF DivideError, SyscallResult, HandlerReturns, HaltVectors
  <1>2. /\ b \in Nat /\ b >= 8 /\ c \in Registers /\ Holds(st, b, 0, c)
    BY <1>1, HandlerFinds
  <1>3. st \in Seq(Words) /\ on \in Stacks /\ stack \in [Stacks -> Seq(Words)]
    BY Running DEF IInv, TypeOK
  <1>4. /\ b - 5 - 0 = b - 5 /\ b - 1 \in 1..b /\ b - 5 \in 1..b
    BY <1>2
  <1>5. \A k : st[b - 1] # No(k) /\ st[b - 5] # No(k)
    BY <1>2, <1>4, RegistersAreNoVectors DEF Holds
  <1>6. \E frame \in Seq(Words) :
           /\ stack' = [stack EXCEPT ![on] = frame] /\ Len(frame) = b
           /\ \A i \in 1..b : i # b - 1 /\ i # b - 5 => frame[i] = st[i]
           /\ \A k : frame[b - 1] # No(k) /\ frame[b - 5] # No(k)
    <2>1. CASE HandlerReturns
      BY <2>1, <1>3, <1>5 DEF HandlerReturns, Return, Frame
    <2>2. CASE SyscallResult
      <3>1. PICK x \in Results(Field(Frame, "eax")) : Return(Set(Frame, "eax", x))
        BY <2>2 DEF SyscallResult
      <3>2. x \in {MinusOne, Count}
        BY <3>1 DEF Results, sys_write, sys_open, sys_read
      <3>3. x \in Words /\ \A k : x # No(k)
        BY <3>2 DEF Words, Data, MinusOne, Count, No
      <3> DEFINE frame == [st EXCEPT ![b - 1] = x]
      <3>4. stack' = [stack EXCEPT ![on] = frame]
        BY <3>1, <3>3, <1>2, <1>3, FieldsOfFrame, ZenonT(60) DEF Return, Frame
      <3>5. /\ frame \in Seq(Words) /\ Len(frame) = b /\ frame[b - 1] = x
            /\ \A i \in 1..b : i # b - 1 => frame[i] = st[i]
        BY <3>3, <1>3, <1>4, OneWord
      <3>6. b - 5 # b - 1
        BY <1>2
      <3> HIDE DEF frame, st
      <3> QED
        BY <3>3, <3>4, <3>5, <3>6, <1>4, <1>5
    <2>3. CASE DivideError
      <3> DEFINE y == Skip(Field(Frame, "eip"))
                 st1 == [st EXCEPT ![b - 1] = Zero]
                 frame == [st1 EXCEPT ![b - 5] = y]
      <3>1. y \in Words /\ \A k : y # No(k)
        <4>1. IntNo = 0
          BY <2>3 DEF DivideError
        <4>2. c.eip = User
          BY <4>1, <1>1, HandlerFinds
        <4>3. Field(st, "eip") = User
          BY <4>2, <1>2, <1>3, <1>4, FieldsOfFrame DEF Holds
        <4>4. y = Skip(User)
          BY <4>3 DEF Frame
        <4>5. Skip(User) \in Words /\ \A k : Skip(User) # No(k)
          BY DEF Words, Eips, Skip, User, No
        <4> QED
          BY <4>4, <4>5
      <3>2. Zero \in Words /\ \A k : Zero # No(k)
        BY DEF Words, Data, Zero, No
      <3>3. /\ st1 \in Seq(Words) /\ Len(st1) = b /\ st1[b - 1] = Zero
            /\ \A i \in 1..b : i # b - 1 => st1[i] = st[i]
        BY <3>2, <1>3, <1>4, OneWord
      <3>4. Return(Set(Set(st, "eax", Zero), "eip", y))
        BY <2>3 DEF DivideError, Frame
      <3>5. Set(st, "eax", Zero) = st1
        BY <3>2, <1>2, <1>3, FieldsOfFrame
      <3> HIDE DEF y, st1
      <3>6. Set(st1, "eip", y) = frame
        <4>1. Len(st1) >= 8
          BY <1>2, <3>3
        <4>2. Set(st1, "eip", y) = [st1 EXCEPT ![Len(st1) - 5] = y]
          BY <4>1, <3>1, <3>3, FieldsOfFrame
        <4> QED
          BY <4>2, <3>3
      <3>7. /\ frame \in Seq(Words) /\ Len(frame) = b /\ frame[b - 5] = y
            /\ \A i \in 1..b : i # b - 5 => frame[i] = st1[i]
        <4>1. b - 5 \in 1..Len(st1)
          BY <1>4, <3>3
        <4>2. /\ frame \in Seq(Words) /\ Len(frame) = Len(st1) /\ frame[b - 5] = y
              /\ \A i \in 1..Len(st1) : i # b - 5 => frame[i] = st1[i]
          BY <4>1, <3>1, <3>3, OneWord
        <4> QED
          BY <4>2, <3>3
      <3>8. stack' = [stack EXCEPT ![on] = frame]
        BY <3>4, <3>5, <3>6 DEF Return
      <3>9. b - 5 # b - 1
        BY <1>2
      <3>10. frame[b - 1] = Zero
        BY <3>3, <3>7, <3>9, <1>4
      <3> HIDE DEF frame, st
      <3>11. \A i \in 1..b : i # b - 1 /\ i # b - 5 => frame[i] = st[i]
        BY <3>3, <3>7
      <3>12. \A k : frame[b - 1] # No(k) /\ frame[b - 5] # No(k)
        BY <3>1, <3>2, <3>7, <3>10
      <3> QED
        BY <3>7, <3>8, <3>11, <3>12
    <2> QED
      BY <2>1, <2>2, <2>3
  <1>7. PICK frame \in Seq(Words) :
           /\ stack' = [stack EXCEPT ![on] = frame] /\ Len(frame) = b
           /\ \A i \in 1..b : i # b - 1 /\ i # b - 5 => frame[i] = st[i]
           /\ \A k : frame[b - 1] # No(k) /\ frame[b - 5] # No(k)
    BY <1>6
  <1>8. \A i \in 1..b : \A k : frame[i] = No(k) <=> st[i] = No(k)
    BY <1>5, <1>7
  <1>9. stack'[on] = frame /\ (s # on => stack'[s] = stack[s])
    BY <1>3, <1>7
  <1>10. CASE s # on
    BY <1>9, <1>10 DEF Frames
  <1>11. CASE s = on
    BY <1>7, <1>8, <1>9, <1>11 DEF Frames
  <1> QED
    BY <1>10, <1>11

(* trap_ret takes the frame on top away, ...                               *)
LEMMA FramesOfTrapRet ==
    ASSUME HandlersCanReturn, IInv, TrapRet, NEW V, NEW s \in Stacks
    PROVE  /\ Frames(s, V)' \subseteq Frames(s, V)
           /\ s = on => Len(stack[s]) - 3 \notin Frames(s, V)'
  <1>1. PICK m \in Nat : /\ m + 8 <= Len(stack[on])
                         /\ stack' = [stack EXCEPT ![on] = SubSeq(stack[on], 1, m)]
    BY TrapRetStep
  <1>2. on \in Stacks /\ stack \in [Stacks -> Seq(Words)] /\ Len(stack[on]) \in Nat
    BY Running DEF IInv, TypeOK
  <1>3. CASE s # on
    <2>1. stack'[s] = stack[s]
      BY <1>1, <1>2, <1>3
    <2> QED
      BY <2>1, <1>3 DEF Frames
  <1>4. CASE s = on
    <2>1. stack'[s] = SubSeq(stack[s], 1, m) /\ m \in 0..Len(stack[s])
      BY <1>1, <1>2, <1>4
    <2>2. Frames(s, V)' = Frames(s, V) \cap 1..m
      BY <2>1, FramesPopped
    <2>3. Len(stack[s]) - 3 \notin 1..m
      BY <1>1, <1>2, <1>4
    <2> QED
      BY <2>2, <2>3
  <1> QED
    BY <1>3, <1>4

(* ... fork_ret takes the address of trap_ret, which is no frame.          *)
LEMMA FramesOfForkRet ==
    ASSUME IInv, ForkRetReturn, NEW V, NEW s \in Stacks
    PROVE  Frames(s, V)' \subseteq Frames(s, V)
  <1>1. /\ Len(stack[on]) >= 1
        /\ stack' = [stack EXCEPT ![on] = SubSeq(stack[on], 1, Len(stack[on]) - 1)]
    BY ForkRetReturnStep DEF ForkRetReturn, Pop
  <1>2. on \in Stacks /\ stack \in [Stacks -> Seq(Words)] /\ Len(stack[on]) \in Nat
    BY Running DEF IInv, TypeOK
  <1>3. CASE s # on
    <2>1. stack'[s] = stack[s]
      BY <1>1, <1>2, <1>3
    <2> QED
      BY <2>1 DEF Frames
  <1>4. CASE s = on
    <2> DEFINE m == Len(stack[s]) - 1
    <2>1. stack'[s] = SubSeq(stack[s], 1, m) /\ m \in 0..Len(stack[s])
      BY <1>1, <1>2, <1>4
    <2> HIDE DEF m
    <2>2. Frames(s, V)' = Frames(s, V) \cap 1..m
      BY <2>1, FramesPopped
    <2> QED
      BY <2>2
  <1> QED
    BY <1>3, <1>4

(* switch_to moves its context from one stack to the other, and no frame.  *)
LEMMA FramesOfSwitch ==
    ASSUME HandlersCanReturn, IInv, SchedSwitch \/ SyscallSwitch, NEW V, NEW s \in Stacks
    PROVE  Frames(s, V)' \subseteq Frames(s, V)
  <1>1. PICK next \in Stacks : /\ next # on /\ SwitchTo(next) /\ cpu.cs = KernelCS
                               /\ Len(saved[on]) < MaxDepth
    BY Switching
  <1>2. Len(stack[next]) >= 2
    BY <1>1, SwitchStep DEF HandlersCanReturn
  <1>3. /\ on \in Stacks /\ stack \in [Stacks -> Seq(Words)] /\ Len(stack[next]) \in Nat
        /\ stack[on] \in Seq(Words) /\ cpu \in Registers
    BY Running DEF IInv, TypeOK
  <1> DEFINE sto == stack[on] \o Context(cpu.eip, cpu.gp)
             m   == Len(stack[next]) - 2
  <1>4. stack' = [stack EXCEPT ![on] = sto, ![next] = SubSeq(stack[next], 1, m)]
    BY <1>1, <1>3 DEF SwitchTo, Pop
  <1>5. m \in 0..Len(stack[next])
    BY <1>2, <1>3
  <1> HIDE DEF m
  <1>6. \A i \in 1..Len(sto) : \A k :
           sto[i] = No(k) => i \in 1..Len(stack[on]) /\ sto[i] = stack[on][i]
    <2>1. /\ Len(sto) = Len(stack[on]) + 2 /\ sto[Len(stack[on]) + 1] = cpu.eip
          /\ sto[Len(stack[on]) + 2] = cpu.gp /\ Len(stack[on]) \in Nat
          /\ \A i \in 1..Len(stack[on]) : sto[i] = stack[on][i]
      <3>1. cpu.eip \in Words /\ cpu.gp \in Words
        BY <1>3, RegisterWords
      <3> QED
        BY <3>1, <1>3 DEF Context
    <2>2. \A k : cpu.eip # No(k) /\ cpu.gp # No(k)
      BY <1>3, RegistersAreNoVectors
    <2> HIDE DEF sto
    <2>3. \A i \in 1..Len(sto) : \/ i \in 1..Len(stack[on])
                                 \/ i = Len(stack[on]) + 1 \/ i = Len(stack[on]) + 2
      BY <2>1
    <2> QED
      BY <2>1, <2>2, <2>3
  <1> HIDE DEF sto
  <1>7. CASE s = on
    <2>1. stack'[s] = sto
      BY <1>1, <1>3, <1>4, <1>7
    <2> QED
      BY <2>1, <1>6, <1>7 DEF Frames
  <1>8. CASE s = next
    <2>1. stack'[s] = SubSeq(stack[s], 1, m) /\ m \in 0..Len(stack[s])
      BY <1>1, <1>3, <1>4, <1>5, <1>8
    <2>2. Frames(s, V)' = Frames(s, V) \cap 1..m
      BY <2>1, FramesPopped
    <2> QED
      BY <2>2
  <1> QED
    BY <1>1, <1>3, <1>7, <1>8 DEF Stacks

(* A new process has no frame of an interrupt.                             *)
LEMMA FramesAtFirst ==
    ASSUME Init, NEW V, NEW s \in Stacks
    PROVE  Frames(s, V) = {}
  <1>1. stack = [sched |-> <<>>, proc |-> NewStack]
    BY DEF Init
  <1>2. CASE s = "sched"
    <2>1. stack[s] = <<>>
      BY <1>1, <1>2
    <2> QED
      BY <2>1 DEF Frames
  <1>3. CASE s = "proc"
    <2>1. stack[s] = NewStack
      BY <1>1, <1>3
    <2>2. \A n : No(n) \notin {UserEsp, Flags(1), UserCS, User, Zero, UserDS, TrapRetCode,
                                ForkRet}
      BY DEF No, UserEsp, Flags, UserCS, User, Zero, UserDS, TrapRetCode, ForkRet
    <2>3. \A i \in 1..12 : \/ i = 1 \/ i = 2 \/ i = 3 \/ i = 4 \/ i = 5 \/ i = 6
                           \/ i = 7 \/ i = 8 \/ i = 9 \/ i = 10 \/ i = 11 \/ i = 12
      OBVIOUS
    <2>4. \A i \in 1..12 : NewStack[i] \in {UserEsp, Flags(1), UserCS, User, Zero, UserDS,
                                            TrapRetCode, ForkRet}
      BY <2>3, FirstStack
    <2>5. Len(NewStack) = 12
      BY FirstStack
    <2> QED
      BY <2>1, <2>2, <2>4, <2>5 DEF Frames
  <1> QED
    BY <1>2, <1>3 DEF Stacks

-----------------------------------------------------------------------------
(* Theorems *)

(* However traps, interrupts and switches are interleaved, each stack is   *)
(* one frame per trap in progress, from which the registers of whoever was *)
(* interrupted can be read.                                                *)
THEOREM FramesAccountedFor ==
    ASSUME HandlersCanReturn
    PROVE  Spec => []IInv
  <1>1. Init => IInv
    BY InitIInv
  <1>2. IInv /\ [Next]_vars => IInv'
    BY NextIInv
  <1> QED
    BY <1>1, <1>2, PTL DEF Spec

(* The variables keep their types, esp never leaves the stacks, and no     *)
(* trap goes deeper than the bound.                                        *)
THEOREM TypesCorrect ==
    ASSUME HandlersCanReturn
    PROVE  Spec => []TypeOK
  <1>1. IInv => TypeOK
    BY DEF IInv
  <1> QED
    BY <1>1, FramesAccountedFor, PTL

(* trap_ret, the return of fork_ret and switch_to leave no word behind.    *)
THEOREM StacksUnwound ==
    ASSUME HandlersCanReturn
    PROVE  Spec => []StackUnwound
  <1>1. IInv => StackUnwound
    BY NoWordLeft
  <1> QED
    BY <1>1, FramesAccountedFor, PTL

(* The handlers, syscall_handlers in particular, see the registers of who  *)
(* was interrupted in the fields of struct trap_frame.                     *)
THEOREM FramesNameInterrupted ==
    ASSUME HandlersCanReturn
    PROVE  Spec => []FrameNamesInterrupted
  <1>1. IInv => FrameNamesInterrupted
    BY FieldsNameInterrupted
  <1> QED
    BY <1>1, FramesAccountedFor, PTL

(* Whatever interrupts whatever, the return continues exactly what was     *)
(* interrupted or switched away from.                                      *)
THEOREM ResumesWhatWasInterrupted ==
    ASSUME HandlersCanReturn
    PROVE  Spec => ResumesInterrupted
  <1>1. IInv /\ [Next]_vars =>
          [Len(saved'[on']) < Len(saved[on']) => cpu' \in Resumed /\ pc' = "code"]_vars
    BY NextIInv DEF Resumes
  <1> QED
    BY <1>1, FramesAccountedFor, PTL DEF Spec, ResumesInterrupted
=============================================================================
