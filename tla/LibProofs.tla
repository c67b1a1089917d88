------------------------------ MODULE LibProofs ------------------------------
(***************************************************************************)
(* Theorems about what the kernel computes by itself: the linked queue     *)
(* (Queue), the information of the boot loader (Multiboot), the string     *)
(* functions (Strings) and formatted output (Format), for every set of     *)
(* nodes, word size, memory and screen.                                    *)
(*                                                                         *)
(* What a loop or a recursive function computes is shown by induction in   *)
(* the form of the least element (Least, Induct); that the functions which *)
(* the models define by recursion exist and are unique are Recursion and   *)
(* Unique.                                                                 *)
(***************************************************************************)
EXTENDS Queue, Strings, Format, Multiboot, WellFoundedInduction, FiniteSetTheorems, SequenceTheorems, TLAPS

(* A set of naturals that is not empty has a least element. *)
LEMMA Least ==
    ASSUME NEW S \in SUBSET Nat, S # {}
    PROVE  \E m \in S : \A k \in S : m <= k
<1> DEFINE R == OpToRel(<, Nat)
<1>1. IsWellFoundedOn(R, Nat)
  BY NatLessThanWellFounded
<1>2. \A i, j \in Nat : i < j => <<i, j>> \in R
  BY DEF OpToRel
<1> HIDE DEF R
<1>3. PICK m \in S : \A k \in S : ~(<<k, m>> \in R)
  BY <1>1, WFMin
<1>4. ASSUME NEW k \in S PROVE m <= k
  <2>1. m \in Nat /\ k \in Nat /\ ~(<<k, m>> \in R)
    BY <1>3
  <2>2. ~(k < m)
    BY <1>2, <2>1
  <2> QED
    BY <2>1, <2>2
<1> QED
  BY <1>4

(* Induction: a set of naturals with 0 and with the successors of its     *)
(* elements is all of them.                                               *)
LEMMA Induct ==
    ASSUME NEW S \in SUBSET Nat, 0 \in S, \A n \in S : n + 1 \in S
    PROVE  S = Nat
<1> SUFFICES ASSUME Nat \ S # {} PROVE FALSE
  OBVIOUS
<1>1. PICK m \in Nat \ S : \A k \in Nat \ S : m <= k
  BY Least
<1>2. m - 1 \in S
  BY <1>1
<1>3. m \in S
  BY <1>2
<1> QED
  BY <1>1, <1>3

(* f is what n rounds make of a, of which g[k] is round k. *)
Unrolls(f, n, V, a, g) ==
    f \in [0..n -> V] /\ f[0] = a /\ \A k \in 1..n : f[k] = g[k][f[k - 1]]

(* Primitive recursion: the function that the recursive definitions of the *)
(* models choose exists.                                                   *)
LEMMA Recursion ==
    ASSUME NEW n \in Nat, NEW V, NEW a \in V, NEW g \in [1..n -> [V -> V]]
    PROVE  \E f : Unrolls(f, n, V, a, g)
<1> DEFINE S == {m \in Nat : m <= n => \E f : Unrolls(f, m, V, a, g)}
<1>1. 0 \in S
  <2>1. Unrolls([k \in 0..0 |-> a], 0, V, a, g)
    BY DEF Unrolls
  <2> QED
    BY <2>1
<1>2. ASSUME NEW m \in S PROVE m + 1 \in S
  <2>1. m \in Nat /\ m + 1 \in Nat
    OBVIOUS
  <2>2. ASSUME m + 1 <= n PROVE \E f : Unrolls(f, m + 1, V, a, g)
    <3>1. PICK f : Unrolls(f, m, V, a, g)
      BY <2>1, <2>2
    <3> DEFINE h == [k \in 0..(m + 1) |-> IF k = m + 1 THEN g[m + 1][f[m]] ELSE f[k]]
    <3>2. f[m] \in V /\ m + 1 \in 1..n
      BY <2>1, <2>2, <3>1 DEF Unrolls
    <3>3. g[m + 1][f[m]] \in V
      BY <3>2
    <3>4. h \in [0..(m + 1) -> V] /\ h[0] = a
      BY <2>1, <3>1, <3>3 DEF Unrolls
    <3>5. ASSUME NEW k \in 1..(m + 1) PROVE h[k] = g[k][h[k - 1]]
      <4>1. CASE k = m + 1
        BY <2>1, <4>1
      <4>2. CASE k # m + 1
        <5>1. k \in 1..m /\ k - 1 \in 0..m /\ k - 1 # m + 1 /\ k - 1 \in 0..(m + 1)
          BY <2>1, <4>2
        <5>2. h[k] = f[k] /\ h[k - 1] = f[k - 1]
          BY <5>1, <4>2
        <5> QED
          BY <5>1, <5>2, <3>1 DEF Unrolls
      <4> QED
        BY <4>1, <4>2
    <3>6. Unrolls(h, m + 1, V, a, g)
      <4> HIDE DEF h
      <4> QED
        BY <3>4, <3>5 DEF Unrolls
    <3> QED
      BY <3>6
  <2> QED
    BY <2>1, <2>2
<1>3. S = Nat
  <2> HIDE DEF S
  <2>1. S \in SUBSET Nat
    BY DEF S
  <2> QED
    BY <1>1, <1>2, <2>1, Induct
<1>4. n \in S
  BY <1>3
<1>5. n <= n
  OBVIOUS
<1> QED
  BY <1>4, <1>5

(* Whatever takes the same rounds from the same start is the same. *)
LEMMA Unique ==
    ASSUME NEW n \in Nat, NEW V, NEW a \in V, NEW f, NEW g, Unrolls(f, n, V, a, g),
           NEW h, h[0] = a, \A i \in 1..n : h[i - 1] \in V => h[i] = g[i][h[i - 1]]
    PROVE  \A i \in 0..n : h[i] = f[i]
<1> DEFINE S == {i \in Nat : i <= n => h[i] = f[i]}
<1>1. 0 \in S
  BY DEF Unrolls
<1>2. ASSUME NEW i \in S PROVE i + 1 \in S
  <2>1. i \in Nat /\ i + 1 \in Nat
    OBVIOUS
  <2>2. ASSUME i + 1 <= n PROVE h[i + 1] = f[i + 1]
    <3>1. h[i] = f[i]
      BY <2>1, <2>2
    <3>2. i + 1 \in 1..n /\ (i + 1) - 1 = i /\ i \in 0..n
      BY <2>1, <2>2
    <3>3. f[i + 1] = g[i + 1][f[i]] /\ f[i] \in V
      BY <3>2 DEF Unrolls
    <3>4. h[i] \in V => h[i + 1] = g[i + 1][h[i]]
      BY <3>2
    <3> QED
      BY <3>1, <3>3, <3>4
  <2> QED
    BY <2>1, <2>2
<1>3. S = Nat
  <2> HIDE DEF S
  <2>1. S \in SUBSET Nat
    BY DEF S
  <2> QED
    BY <1>1, <1>2, <2>1, Induct
<1>4. ASSUME NEW i \in 0..n PROVE h[i] = f[i]
  <2>1. i \in S /\ i <= n
    BY <1>3
  <2> QED
    BY <2>1
<1> QED
  BY <1>4

-----------------------------------------------------------------------------
(* The queue *)

(* The links from head spell q. *)
Chain(q) ==
    /\ q \in Seq(Nodes)
    /\ \A i, j \in 1..Len(q) : q[i] = q[j] => i = j
    /\ head = IF q = <<>> THEN NULL ELSE q[1]
    /\ tail = IF q = <<>> THEN NULL ELSE q[Len(q)]
    /\ \A i \in 1..Len(q) : next[q[i]] = IF i = Len(q) THEN NULL ELSE q[i + 1]

QueueTypeOK == head \in Nodes \cup {NULL} /\ next \in [Nodes -> Nodes \cup {NULL}]
QueueIInv   == QueueTypeOK /\ Chain(Contents)

(* Walk is the function its definition says. *)
LEMMA WalkIs ==
    ASSUME QueueTypeOK
    PROVE  /\ Walk[0] = head
           /\ \A k \in 1..Cardinality(Nodes) :
                Walk[k] = IF Walk[k - 1] = NULL THEN NULL ELSE next[Walk[k - 1]]
<1> DEFINE N == Cardinality(Nodes)
           V == Nodes \cup {NULL}
           g == [k \in 1..N |-> [v \in V |-> IF v = NULL THEN NULL ELSE next[v]]]
<1>1. N \in Nat
  BY NodesAssumption, FS_CardinalityType
<1>2. g \in [1..N -> [V -> V]] /\ head \in V
  BY DEF QueueTypeOK
<1>3. PICK f : Unrolls(f, N, V, head, g)
  <2> HIDE DEF g, V, N
  <2> QED
    BY <1>1, <1>2, Recursion
<1>4. f = [k \in 0..N |-> IF k = 0 THEN head
                          ELSE IF f[k - 1] = NULL THEN NULL ELSE next[f[k - 1]]]
  <2>1. ASSUME NEW k \in 1..N
        PROVE  f[k] = IF f[k - 1] = NULL THEN NULL ELSE next[f[k - 1]]
    <3>1. f[k - 1] \in V
      BY <1>1, <1>3 DEF Unrolls
    <3> QED
      BY <1>3, <3>1 DEF Unrolls
  <2>2. f = [k \in 0..N |-> f[k]] /\ f[0] = head
    BY <1>3 DEF Unrolls
  <2> HIDE DEF g, V, N
  <2>3. \A k \in 0..N : k = 0 \/ k \in 1..N
    BY <1>1
  <2> QED
    BY <2>1, <2>2, <2>3
<1>5. Walk = [k \in 0..N |-> IF k = 0 THEN head
                             ELSE IF Walk[k - 1] = NULL THEN NULL ELSE next[Walk[k - 1]]]
  BY <1>4 DEF Walk
<1> QED
  BY <1>1, <1>5

(* A chain of links is what Walk meets. *)
LEMMA ChainWalk ==
    ASSUME QueueTypeOK, NEW q, Chain(q)
    PROVE  /\ Len(q) \in 0..Cardinality(Nodes)
           /\ \A k \in 0..Cardinality(Nodes) :
                Walk[k] = IF k < Len(q) THEN q[k + 1] ELSE NULL
<1> DEFINE N == Cardinality(Nodes)
           L == Len(q)
           S == {k \in Nat : k <= N => Walk[k] = IF k < L THEN q[k + 1] ELSE NULL}
<1>1. N \in Nat /\ L \in Nat /\ \A i \in 1..L : q[i] \in Nodes /\ q[i] # NULL
  BY NodesAssumption, FS_CardinalityType, LenProperties, ElementOfSeq DEF Chain
<1>2. L <= N
  <2> DEFINE f == [i \in 1..L |-> q[i]]
  <2>1. f \in Injection(1..L, Nodes)
    BY <1>1 DEF Chain, Injection, IsInjective
  <2>2. 1 \in Int /\ L \in Int
    BY <1>1
  <2>3. Cardinality(1..L) = IF 1 > L THEN 0 ELSE (L - 1) + 1
    BY <2>2, FS_Interval
  <2> HIDE DEF f, L
  <2>4. Cardinality(1..L) <= Cardinality(Nodes)
    BY <2>1, FS_Injection, NodesAssumption
  <2> QED
    BY <1>1, <2>3, <2>4
<1>3. 0 \in S
  BY <1>1, WalkIs DEF Chain
<1>4. ASSUME NEW k \in S PROVE k + 1 \in S
  <2>1. k \in Nat
    OBVIOUS
  <2> SUFFICES ASSUME k + 1 <= N
               PROVE  Walk[k + 1] = IF k + 1 < L THEN q[(k + 1) + 1] ELSE NULL
    BY <2>1
  <2>2. Walk[k] = IF k < L THEN q[k + 1] ELSE NULL
    BY <1>1, <2>1
  <2>3. Walk[k + 1] = IF Walk[k] = NULL THEN NULL ELSE next[Walk[k]]
    <3>1. k + 1 \in 1..N /\ (k + 1) - 1 = k
      BY <1>1, <2>1
    <3> HIDE DEF S
    <3> QED
      BY <3>1, WalkIs
  <2>4. CASE k < L
    <3>1. k + 1 \in 1..L
      BY <1>1, <2>1, <2>4
    <3>2. Walk[k + 1] = IF k + 1 = L THEN NULL ELSE q[(k + 1) + 1]
      BY <1>1, <2>2, <2>3, <2>4, <3>1 DEF Chain
    <3> QED
      BY <1>1, <2>1, <3>1, <3>2
  <2>5. CASE ~(k < L)
    BY <1>1, <2>1, <2>2, <2>3, <2>5
  <2> QED
    BY <2>4, <2>5
<1>5. S = Nat
  <2> HIDE DEF S
  <2>1. S \in SUBSET Nat
    BY DEF S
  <2> QED
    BY <1>3, <1>4, <2>1, Induct
<1>6. ASSUME NEW k \in 0..N PROVE Walk[k] = IF k < L THEN q[k + 1] ELSE NULL
  <2>1. k \in S /\ k <= N
    BY <1>1, <1>5
  <2> QED
    BY <2>1
<1> QED
  BY <1>1, <1>2, <1>6

(* There is no other chain than the contents. *)
LEMMA ChainIsContents ==
    ASSUME QueueTypeOK, NEW q, Chain(q)
    PROVE  Contents = q
<1> DEFINE N == Cardinality(Nodes)
           L == Len(q)
<1>1. N \in Nat /\ L \in 0..N /\ \A i \in 1..L : q[i] \in Nodes /\ q[i] # NULL
  BY NodesAssumption, FS_CardinalityType, LenProperties, ElementOfSeq, ChainWalk DEF Chain
<1>2. \A k \in 0..N : Walk[k] = IF k < L THEN q[k + 1] ELSE NULL
  BY ChainWalk
<1>3. {k \in 0..(N - 1) : Walk[k] # NULL} = 0..(L - 1)
  <2>1. ASSUME NEW k \in 0..(N - 1) PROVE Walk[k] # NULL <=> k < L
    <3>1. k \in 0..N
      BY <1>1
    <3>2. k < L => k + 1 \in 1..L
      BY <1>1
    <3> QED
      BY <1>1, <1>2, <3>1, <3>2
  <2> QED
    BY <1>1, <2>1
<1>4. Length = L
  <2>1. 0 \in Int /\ L - 1 \in Int /\ L \in Nat
    BY <1>1
  <2>2. Cardinality(0..(L - 1)) = IF 0 > L - 1 THEN 0 ELSE ((L - 1) - 0) + 1
    BY <2>1, FS_Interval
  <2>3. Length = Cardinality(0..(L - 1))
    BY <1>3 DEF Length
  <2> QED
    BY <2>1, <2>2, <2>3
<1>5. ASSUME NEW k \in 1..L PROVE Walk[k - 1] = q[k]
  <2>1. k - 1 \in 0..N /\ k - 1 < L /\ (k - 1) + 1 = k
    BY <1>1
  <2> QED
    BY <1>2, <2>1
<1>6. q = [k \in 1..L |-> q[k]]
  BY LenProperties DEF Chain
<1> QED
  BY <1>4, <1>5, <1>6 DEF Contents

(* The same, of every chain at once. *)
LEMMA AllChains == QueueTypeOK => \A s : Chain(s) => Contents = s
  BY ChainIsContents

(* A chain after a step is the contents after it. *)
LEMMA NextChain ==
    ASSUME QueueTypeOK', NEW q, Chain(q)'
    PROVE  QueueIInv' /\ Contents' = q
<1>1. (QueueTypeOK => \A s : Chain(s) => Contents = s)'
  BY AllChains, PTL
<1>2. Contents' = q
  BY <1>1
<1> QED
  BY <1>2 DEF QueueIInv

(* What is read of the contents from the pointers. *)
LEMMA QueueEnds ==
    ASSUME QueueIInv
    PROVE  /\ Contents \in Seq(Nodes)
           /\ head = NULL <=> Contents = <<>>
           /\ tail = NULL <=> Contents = <<>>
           /\ Contents # <<>> => head = Head(Contents)
           /\ \A n : Queued(n) <=> Fifo!Member(n)
<1>1. Contents \in Seq(Nodes) /\ Chain(Contents)
  BY DEF QueueIInv, Chain
<1>2. ASSUME Contents # <<>>
      PROVE  /\ Len(Contents) \in Nat \ {0}
             /\ Contents[1] \in Nodes /\ Contents[Len(Contents)] \in Nodes
  <2>1. Len(Contents) \in Nat \ {0}
    BY <1>1, <1>2, EmptySeq
  <2> QED
    BY <1>1, <2>1, ElementOfSeq
<1>3. Contents # <<>> => head = Head(Contents)
  BY <1>1, <1>2 DEF Chain
<1> QED
  BY <1>1, <1>2, <1>3, NodesAssumption DEF Chain, Queued, Fifo!Member

(* Nothing is queued at the start. *)
LEMMA QueueInitIInv ==
    ASSUME QueueInit([Nodes -> Nodes \cup {NULL}])
    PROVE  QueueIInv /\ Contents = <<>>
<1>1. QueueTypeOK
  BY DEF QueueInit, QueueTypeOK
<1>2. Chain(<<>>)
  BY EmptySeq DEF QueueInit, Chain
<1> QED
  BY <1>1, <1>2, ChainIsContents DEF QueueIInv

(* A node behind the last one. *)
LEMMA EnqueueAppends ==
    ASSUME QueueIInv, NEW n \in Nodes, Enqueue(n)
    PROVE  QueueIInv' /\ Contents' = Append(Contents, n)
<1>1. PICK q : q = Contents
  OBVIOUS
<1>2. Chain(q) /\ q \in Seq(Nodes) /\ QueueTypeOK
  BY <1>1 DEF QueueIInv, Chain
<1> DEFINE r == Append(q, n)
           L == Len(q)
<1>3. /\ r \in Seq(Nodes) /\ r # <<>> /\ Len(r) = L + 1 /\ L \in Nat
      /\ \A i \in 1..L : r[i] = q[i] /\ q[i] \in Nodes
      /\ r[L + 1] = n
  BY <1>2, AppendProperties, LenProperties, ElementOfSeq
<1>4. \A i \in 1..L : q[i] # n
  BY <1>1, <1>2, <1>3, LenProperties DEF Enqueue, Queued
<1>5. (tail = NULL <=> q = <<>>) /\ (q # <<>> => L # 0 /\ tail = q[L] /\ tail \in Nodes)
  BY <1>1, <1>2, <1>3, QueueEnds, EmptySeq, ElementOfSeq DEF Chain
<1>6. /\ next' \in [Nodes -> Nodes \cup {NULL}]
      /\ head' = IF q = <<>> THEN n ELSE head
      /\ tail' = n
      /\ next'[n] = NULL
      /\ q # <<>> => next'[q[L]] = n
      /\ \A i \in 1..L : i # L => next'[q[i]] = next[q[i]]
  <2>1. CASE q = <<>>
    BY <1>2, <1>3, <1>5, <2>1, EmptySeq DEF Enqueue, QueueTypeOK
  <2>2. CASE q # <<>>
    <3>1. /\ next' = [next EXCEPT ![n] = NULL, ![tail] = n]
          /\ head' = head /\ tail' = n /\ tail # n /\ tail = q[L] /\ L \in 1..L
      BY <1>3, <1>4, <1>5, <2>2 DEF Enqueue
    <3>2. \A i \in 1..L : i # L => q[i] # tail /\ q[i] # n /\ q[i] \in Nodes
      BY <1>2, <1>3, <1>4, <3>1 DEF Chain
    <3> QED
      BY <1>2, <1>5, <2>2, <3>1, <3>2 DEF QueueTypeOK
  <2> QED
    BY <2>1, <2>2
<1>7. \A i, j \in 1..Len(r) : r[i] = r[j] => i = j
  BY <1>2, <1>3, <1>4 DEF Chain
<1>8. head' = r[1] /\ tail' = r[Len(r)]
  <2>1. q = <<>> => L = 0
    BY EmptySeq
  <2> QED
    BY <1>2, <1>3, <1>5, <1>6, <2>1 DEF Chain
<1>9. ASSUME NEW i \in 1..Len(r)
      PROVE  next'[r[i]] = IF i = Len(r) THEN NULL ELSE r[i + 1]
  <2>1. CASE i = L + 1
    BY <1>3, <1>6, <2>1
  <2>2. CASE i = L
    BY <1>3, <1>6, <2>2, EmptySeq
  <2>3. CASE i # L + 1 /\ i # L
    <3>1. i \in 1..L /\ i + 1 \in 1..L
      BY <1>3, <2>3
    <3> QED
      BY <1>2, <1>3, <1>6, <2>3, <3>1 DEF Chain
  <2> QED
    BY <2>1, <2>2, <2>3
<1>10. QueueTypeOK' /\ Chain(r)'
  <2> HIDE DEF r, L
  <2>1. head' \in Nodes \cup {NULL}
    BY <1>2, <1>6 DEF QueueTypeOK
  <2> QED
    BY <1>3, <1>6, <1>7, <1>8, <1>9, <2>1 DEF QueueTypeOK, Chain
<1>11. QueueIInv' /\ Contents' = r
  <2> HIDE DEF r
  <2> QED
    BY <1>10, NextChain
<1> QED
  BY <1>1, <1>11

(* The first node leaves. *)
LEMMA DequeueTakesHead ==
    ASSUME QueueIInv, Dequeue
    PROVE  QueueIInv' /\ Contents # <<>> /\ ret' = Head(Contents) /\ Contents' = Tail(Contents)
<1>1. PICK q : q = Contents
  OBVIOUS
<1>2. Chain(q) /\ q \in Seq(Nodes) /\ QueueTypeOK
  BY <1>1 DEF QueueIInv, Chain
<1>3. q # <<>> /\ head = q[1] /\ ret' = Head(q)
  BY <1>1, <1>2, QueueEnds DEF Dequeue, Chain
<1> DEFINE r == Tail(q)
           L == Len(q)
<1>4. /\ r \in Seq(Nodes) /\ Len(r) = L - 1 /\ L \in Nat \ {0}
      /\ \A i \in 1..Len(r) : r[i] = q[i + 1]
      /\ \A i \in 1..L : q[i] \in Nodes /\ q[i] # NULL
  BY <1>2, <1>3, HeadTailProperties, EmptySeq, ElementOfSeq, NodesAssumption
<1>r. r = Tail(q)
  OBVIOUS
<1> HIDE DEF r
<1>5. r = <<>> <=> L = 1
  BY <1>4, EmptySeq
<1>6. /\ next' \in [Nodes -> Nodes \cup {NULL}]
      /\ \A i \in 1..L : i # 1 => next'[q[i]] = next[q[i]]
  <2>1. \A i \in 1..L : i # 1 => q[i] # head
    BY <1>2, <1>3, <1>4 DEF Chain
  <2> QED
    BY <1>2, <1>4, <2>1 DEF Dequeue, QueueTypeOK
<1>7. next[head] = IF L = 1 THEN NULL ELSE q[2]
  <2>1. 1 \in 1..L /\ 1 + 1 = 2
    BY <1>4
  <2>2. next[q[1]] = IF 1 = L THEN NULL ELSE q[1 + 1]
    BY <1>2, <2>1 DEF Chain
  <2> QED
    BY <1>3, <2>1, <2>2
<1>8. head' = (IF r = <<>> THEN NULL ELSE r[1]) /\ head' \in Nodes \cup {NULL}
  BY <1>4, <1>5, <1>7 DEF Dequeue
<1>9. tail' = IF r = <<>> THEN NULL ELSE r[Len(r)]
  <2>1. CASE r = <<>>
    BY <1>8, <2>1 DEF Dequeue
  <2>2. CASE r # <<>>
    <3>1. Len(r) \in 1..Len(r) /\ 1 \in 1..Len(r)
      BY <1>4, <1>5, <2>2
    <3>2. r[Len(r)] = q[L] /\ r[1] # NULL
      BY <1>4, <3>1
    <3> QED
      BY <1>2, <1>3, <1>8, <2>2, <3>2 DEF Dequeue, Chain
  <2> QED
    BY <2>1, <2>2
<1>10. \A i, j \in 1..Len(r) : r[i] = r[j] => i = j
  BY <1>2, <1>4 DEF Chain
<1>11. ASSUME NEW i \in 1..Len(r)
       PROVE  next'[r[i]] = IF i = Len(r) THEN NULL ELSE r[i + 1]
  <2>1. i + 1 \in 1..L /\ i + 1 # 1 /\ (i # Len(r) => i + 1 \in 1..Len(r))
    BY <1>4
  <2>2. next'[r[i]] = IF i + 1 = L THEN NULL ELSE q[(i + 1) + 1]
    BY <1>2, <1>4, <1>6, <2>1 DEF Chain
  <2> QED
    BY <1>4, <2>1, <2>2
<1>12. QueueTypeOK' /\ Chain(r)'
  <2> HIDE DEF L
  <2> QED
    BY <1>4, <1>6, <1>8, <1>9, <1>10, <1>11 DEF QueueTypeOK, Chain
<1>13. QueueIInv' /\ Contents' = r
  <2> QED
    BY <1>12, NextChain
<1> QED
  BY <1>1, <1>r, <1>3, <1>13

(* Calls that only look leave the contents. *)
LEMMA LookKeeps ==
    ASSUME QueueIInv, UNCHANGED <<head, tail, next>>
    PROVE  QueueIInv' /\ Contents' = Contents
<1>1. Contents' = Contents
  BY DEF Contents, Length, Walk
<1> QED
  BY <1>1 DEF QueueIInv, QueueTypeOK, Chain

(* Each call keeps the chain and does what the sequence would. *)
LEMMA QueueStep ==
    ASSUME QueueIInv, [QueueNext]_queueVars
    PROVE  QueueIInv' /\ [Fifo!Next]_<<Contents, ret>>
<1>1. ASSUME NEW n \in Nodes, Enqueue(n)
      PROVE  QueueIInv' /\ Fifo!Enqueue(n)
  <2>1. ~Fifo!Member(n) /\ ret' = NULL
    BY <1>1, QueueEnds DEF Enqueue
  <2> QED
    BY <1>1, <2>1, EnqueueAppends DEF Fifo!Enqueue
<1>2. CASE DequeueNone
  <2>1. Contents = <<>>
    BY <1>2, QueueEnds DEF DequeueNone
  <2> QED
    BY <1>2, <2>1, LookKeeps DEF DequeueNone, Fifo!Next, Fifo!Dequeue
<1>3. CASE Dequeue
  BY <1>3, DequeueTakesHead DEF Fifo!Next, Fifo!Dequeue
<1>4. CASE QueueEmpty
  <2>1. ret' = (Contents = <<>>)
    BY <1>4, QueueEnds DEF QueueEmpty, queue_empty
  <2> QED
    BY <1>4, <2>1, LookKeeps DEF QueueEmpty, Fifo!Next, Fifo!Empty
<1>5. CASE QueuePeek
  <2>1. ret' = IF Contents = <<>> THEN NULL ELSE Head(Contents)
    BY <1>5, QueueEnds DEF QueuePeek, queue_empty
  <2> QED
    BY <1>5, <2>1, LookKeeps DEF QueuePeek, Fifo!Next, Fifo!Peek
<1>6. CASE CheckQueueInit
  <2>1. ret' = (Contents = <<>>)
    BY <1>6, QueueEnds DEF CheckQueueInit
  <2> QED
    BY <1>6, <2>1, LookKeeps DEF CheckQueueInit, Fifo!Next, Fifo!Empty
<1>7. CASE QueueReset
  <2>1. QueueTypeOK' /\ Chain(<<>>)'
    BY <1>7, EmptySeq DEF QueueReset, QueueIInv, QueueTypeOK, Chain
  <2>2. QueueIInv' /\ Contents' = <<>>
    BY <2>1, NextChain
  <2> QED
    BY <1>7, <2>2 DEF QueueReset, Fifo!Next, Fifo!Clear
<1>8. CASE UNCHANGED queueVars
  BY <1>8, LookKeeps DEF queueVars
<1> QED
  BY <1>1, <1>2, <1>3, <1>4, <1>5, <1>6, <1>7, <1>8 DEF QueueNext, Fifo!Next

(* The chain from head to tail holds the queued nodes, each once, whatever *)
(* the links of the others hold.                                           *)
THEOREM QueueInvariant == QueueSpec => []QueueIInv
<1>1. QueueInit([Nodes -> Nodes \cup {NULL}]) => QueueIInv
  BY QueueInitIInv
<1>2. QueueIInv /\ [QueueNext]_queueVars => QueueIInv'
  BY QueueStep
<1> QED
  BY <1>1, <1>2, PTL DEF QueueSpec

(* Through head, tail and the links the calls behave like a sequence of    *)
(* nodes: the linked queue implements FifoSpec.                            *)
THEOREM QueueRefinesFifo == QueueSpec => QueueIsFifo
<1>1. QueueInit([Nodes -> Nodes \cup {NULL}]) => QueueIInv /\ Fifo!Init
  BY QueueInitIInv DEF QueueInit, Fifo!Init
<1>2. QueueIInv /\ [QueueNext]_queueVars => QueueIInv' /\ [Fifo!Next]_<<Contents, ret>>
  BY QueueStep
<1> QED
  BY <1>1, <1>2, PTL DEF QueueSpec, QueueIsFifo, Fifo!Spec

-----------------------------------------------------------------------------
(* The boot information *)

Word64 == 0..(WORD * WORD - 1)
Region == [addr : Word64, len : Word64, type : {RAM, 2}]

(* Arithmetic in 32 and in 64 bits. *)
LEMMA Words ==
    /\ WORD \in Nat \ {0} /\ WORD * WORD \in Nat /\ WORD <= WORD * WORD
    /\ \A n \in Nat : n % WORD \in 0..(WORD - 1)
    /\ \A n \in 0..(WORD - 1) : n % WORD = n /\ n % (WORD * WORD) = n /\ n \in Word64
    /\ \A a, b \in Nat : Add64(a, b) \in Word64
    /\ \A a, b \in Nat : a + b < WORD => Add64(a, b) = a + b
    /\ 0 \in Word64 /\ Word64 \subseteq Nat
<1>1. WORD \in Nat \ {0}
  BY WordAssumption
<1> DEFINE P == WORD * WORD
<1>2. P \in Nat /\ WORD <= P
  BY <1>1
<1> HIDE DEF P
<1>3. \A n \in Nat : n % WORD \in 0..(WORD - 1) /\ n % P \in 0..(P - 1)
  BY <1>1, <1>2
<1>4. \A n \in 0..(WORD - 1) : n % WORD = n /\ n % P = n
  BY <1>1, <1>2
<1>5. Word64 = 0..(P - 1) /\ \A a, b \in Nat : Add64(a, b) = (a + b) % P
  BY DEF Word64, Add64, P
<1>6. \A n \in 0..(WORD - 1) : n \in Word64
  BY <1>1, <1>2, <1>5
<1>7. /\ \A a, b \in Nat : Add64(a, b) \in Word64
      /\ \A a, b \in Nat : a + b < WORD => Add64(a, b) = a + b
  <2>1. ASSUME NEW a \in Nat, NEW b \in Nat
        PROVE  Add64(a, b) \in Word64 /\ (a + b < WORD => Add64(a, b) = a + b)
    <3>1. a + b \in Nat /\ (a + b < WORD => a + b \in 0..(WORD - 1))
      BY <1>1
    <3> QED
      BY <1>3, <1>4, <1>5, <3>1
  <2> QED
    BY <2>1
<1>8. 0 \in Word64 /\ Word64 \subseteq Nat
  BY <1>1, <1>2, <1>5
<1>9. WORD * WORD = P
  BY DEF P
<1> QED
  BY <1>1, <1>2, <1>3, <1>4, <1>6, <1>7, <1>8, <1>9

(* How Total adds up the entries e in S. *)
Adds(e, S) ==
    [k \in 1..Len(e) |-> [v \in Word64 |-> IF k \in S THEN Add64(v, e[k].len) ELSE v]]
Sums(f, e, S) == Unrolls(f, Len(e), Word64, 0, Adds(e, S))

(* There are such sums. *)
LEMMA SumExists ==
    ASSUME NEW e \in Seq(Region), NEW S
    PROVE  Len(e) \in Nat /\ \E f : Sums(f, e, S)
<1>1. Len(e) \in Nat /\ \A k \in 1..Len(e) : e[k].len \in Nat
  <2>1. Len(e) \in Nat /\ \A k \in 1..Len(e) : e[k] \in Region
    BY LenProperties, ElementOfSeq
  <2>2. \A r \in Region : r.len \in Nat
    BY Words DEF Region
  <2> QED
    BY <2>1, <2>2
<1>2. Adds(e, S) \in [1..Len(e) -> [Word64 -> Word64]]
  <2>1. ASSUME NEW k \in 1..Len(e), NEW v \in Word64
        PROVE  (IF k \in S THEN Add64(v, e[k].len) ELSE v) \in Word64
    BY <1>1, Words
  <2> QED
    BY <2>1 DEF Adds
<1> QED
  BY <1>1, <1>2, Words, Recursion DEF Sums

TotalsAreSums ==
    entries \in Seq(Region) => \A f, S : Sums(f, entries, S) => Total(S) = f[Len(entries)]

(* Total is the last of the sums. *)
LEMMA TotalIs == TotalsAreSums
<1> SUFFICES ASSUME entries \in Seq(Region), NEW f, NEW S, Sums(f, entries, S)
             PROVE  Total(S) = f[Len(entries)]
  BY DEF TotalsAreSums
<1> DEFINE n == Len(entries)
           sum[i \in 0..n] ==
               IF i = 0 THEN 0
               ELSE IF i \in S THEN Add64(sum[i - 1], entries[i].len) ELSE sum[i - 1]
<1>1. n \in Nat
  BY SumExists
<1>2. ASSUME NEW k \in 1..n
      PROVE  /\ f[k - 1] \in Word64
             /\ f[k] = IF k \in S THEN Add64(f[k - 1], entries[k].len) ELSE f[k - 1]
  <2>1. k - 1 \in 0..n
    BY <1>1
  <2> QED
    BY <2>1 DEF Sums, Unrolls, Adds
<1>3. f = [i \in 0..n |-> IF i = 0 THEN 0
                          ELSE IF i \in S THEN Add64(f[i - 1], entries[i].len) ELSE f[i - 1]]
  <2>1. f = [i \in 0..n |-> f[i]] /\ f[0] = 0
    BY DEF Sums, Unrolls
  <2>2. \A i \in 0..n : i = 0 \/ i \in 1..n
    BY <1>1
  <2> HIDE DEF n
  <2> QED
    BY <1>2, <2>1, <2>2
<1>4. sum = [i \in 0..n |-> IF i = 0 THEN 0
                            ELSE IF i \in S THEN Add64(sum[i - 1], entries[i].len)
                                 ELSE sum[i - 1]]
  <2> HIDE DEF n
  <2> QED
    BY <1>3
<1>5. sum[0] = 0 /\ \A i \in 1..n : sum[i - 1] \in Word64 => sum[i] = Adds(entries, S)[i][sum[i - 1]]
  <2> HIDE DEF sum
  <2>1. 0 \in 0..n /\ \A i \in 1..n : i \in 0..n /\ i # 0
    BY <1>1
  <2>2. sum[0] = 0
    BY <1>4, <2>1
  <2>3. ASSUME NEW i \in 1..n, sum[i - 1] \in Word64
        PROVE  sum[i] = Adds(entries, S)[i][sum[i - 1]]
    <3>1. sum[i] = IF i \in S THEN Add64(sum[i - 1], entries[i].len) ELSE sum[i - 1]
      BY <1>4, <2>1
    <3> QED
      BY <2>3, <3>1 DEF Adds
  <2> QED
    BY <2>2, <2>3
<1>6. sum[n] = f[n]
  <2> HIDE DEF sum
  <2>1. Unrolls(f, n, Word64, 0, Adds(entries, S)) /\ 0 \in Word64
    BY Words DEF Sums
  <2> HIDE DEF n
  <2>2. \A i \in 0..n : sum[i] = f[i]
    BY <1>1, <1>5, <2>1, Unique
  <2> QED
    BY <1>1, <2>2
<1> QED
  BY <1>6 DEF Total

(* The next entry adds its length to the totals it is in. *)
LEMMA TotalGrows ==
    ASSUME entries \in Seq(Region), NEW e \in Region, entries' = Append(entries, e),
           NEW S, NEW T, \A i \in 1..Len(entries) : i \in S <=> i \in T
    PROVE  /\ Total(S) \in Word64
           /\ Total(T)' = IF Len(entries) + 1 \in T THEN Add64(Total(S), e.len) ELSE Total(S)
<1>1. PICK d : d = entries
  OBVIOUS
<1> DEFINE c == Append(d, e)
           n == Len(d)
<1>2. /\ d \in Seq(Region) /\ c \in Seq(Region) /\ n \in Nat /\ Len(c) = n + 1
      /\ \A i \in 1..n : c[i] = d[i]
      /\ c[n + 1] = e
  BY <1>1, AppendProperties, LenProperties
<1> HIDE DEF c
<1>3. PICK f, h : Sums(f, d, S) /\ Sums(h, c, T)
  BY <1>2, SumExists
<1>4. Total(S) = f[n]
  BY <1>1, <1>3, TotalIs DEF TotalsAreSums
<1>5. Total(T)' = h[n + 1]
  <2>1. TotalsAreSums'
    BY TotalIs, PTL
  <2>2. entries' = c
    BY <1>1 DEF c
  <2>3. Sums(h, entries', T) /\ entries' \in Seq(Region)
    BY <1>2, <1>3, <2>2
  <2>4. Total(T)' = h[Len(entries')]
    BY <2>1, <2>3 DEF TotalsAreSums
  <2> QED
    BY <1>2, <2>2, <2>4
<1>6. f[n] \in Word64 /\ f[n] = h[n]
  <2>1. f[n] \in Word64
    <3>1. f \in [0..n -> Word64] /\ n \in 0..n
      BY <1>2, <1>3 DEF Sums, Unrolls
    <3> QED
      BY <3>1
  <2>2. h[0] = 0 /\ \A i \in 1..n : h[i - 1] \in Word64 => h[i] = Adds(d, S)[i][h[i - 1]]
    <3>1. \A i \in 1..n : i \in 1..(n + 1) /\ Adds(c, T)[i] = Adds(d, S)[i]
      BY <1>1, <1>2 DEF Adds
    <3> QED
      BY <1>2, <1>3, <3>1 DEF Sums, Unrolls
  <2>3. Unrolls(f, n, Word64, 0, Adds(d, S)) /\ 0 \in Word64
    BY <1>3, Words DEF Sums
  <2>4. n \in Nat
    BY <1>2
  <2> HIDE DEF n
  <2>5. \A i \in 0..n : h[i] = f[i]
    BY <2>2, <2>3, <2>4, Unique, SMTT(30)
  <2> QED
    BY <1>2, <2>1, <2>5
<1>7. h[n + 1] = IF n + 1 \in T THEN Add64(h[n], e.len) ELSE h[n]
  <2>1. n + 1 \in 1..Len(c) /\ (n + 1) - 1 = n
    BY <1>2
  <2>2. h[n + 1] = Adds(c, T)[n + 1][h[n]]
    BY <1>3, <2>1 DEF Sums, Unrolls
  <2> QED
    BY <1>2, <1>6, <2>1, <2>2 DEF Adds
<1> QED
  BY <1>1, <1>4, <1>5, <1>6, <1>7

(* No entries, no bytes. *)
LEMMA NoTotals == entries = <<>> => \A S : Total(S) = 0
<1> SUFFICES ASSUME entries = <<>>, NEW S PROVE Total(S) = 0
  OBVIOUS
<1>1. entries \in Seq(Region) /\ Len(entries) = 0
  BY EmptySeq
<1>2. PICK f : Sums(f, entries, S)
  BY <1>1, SumExists
<1>3. Total(S) = f[0]
  BY <1>1, <1>2, TotalIs DEF TotalsAreSums
<1> QED
  BY <1>2, <1>3 DEF Sums, Unrolls

(* The larger of two numbers. *)
LEMMA MaxOfTwo == \A a, b \in Int : Max({a, b}) = IF a >= b THEN a ELSE b
<1> SUFFICES ASSUME NEW a \in Int, NEW b \in Int
             PROVE  Max({a, b}) = IF a >= b THEN a ELSE b
  OBVIOUS
<1> DEFINE m == IF a >= b THEN a ELSE b
<1>1. m \in {a, b} /\ \A x \in {a, b} : m >= x
  OBVIOUS
<1>2. ASSUME NEW n \in {a, b}, \A x \in {a, b} : n >= x PROVE n = m
  BY <1>2
<1> HIDE DEF m
<1>3. Max({a, b}) = m
  BY <1>1, <1>2 DEF Max
<1> QED
  BY <1>3 DEF m

(* What is known in the course of the pass.  Extremes are stated without   *)
(* Min and Max.                                                            *)
MemInfo ==
    [map : [0..(SLOTS - 1) -> Region \cup {<<>>}], memory_map_count : Nat,
     total_physical : Nat, total_available : Nat,
     first_usable : Nat, last_usable : Nat, basic : BOOLEAN, kernel : BOOLEAN]

BootTypeOK ==
    /\ tag \in Nat /\ placed \in Nat /\ count \in Nat /\ left \in Nat
    /\ entries \in Seq(Region)
    /\ mem_info \in MemInfo
    /\ step \in {"magic", "tag", "entry", "done"}

FirstIs ==
    IF Regions = {} THEN mem_info.first_usable = 0
    ELSE /\ \E i \in Regions : mem_info.first_usable = entries[i].addr
         /\ \A i \in Regions : mem_info.first_usable <= entries[i].addr

LastIs ==
    (\A x \in Ends : x < WORD) =>
        /\ mem_info.last_usable \in Ends \cup {0}
        /\ \A x \in Ends : x <= mem_info.last_usable

Exact ==
    /\ mem_info.memory_map_count = Len(entries) + left
    /\ \A i \in All : mem_info.map[i - 1] = entries[i]
    /\ mem_info.total_physical = Total(All)
    /\ mem_info.total_available = Total({i \in All : entries[i].type = RAM})
    /\ FirstIs
    /\ LastIs

BootIInv ==
    /\ BootTypeOK
    /\ tag = placed /\ tag % 8 = 0
    /\ step = "entry" <=> left > 0
    /\ Len(entries) + left <= SLOTS => Exact

(* The next multiple of 8 is where the code looks for the next tag.        *)
LEMMA Aligned ==
    ASSUME NEW a \in Nat, a % 8 = 0, NEW size \in Nat
    PROVE  /\ Align8(a + size) = a + (size + 7) - ((size + 7) % 8)
           /\ Align8(a + size) \in Nat
           /\ Align8(a + size) % 8 = 0
<1> DEFINE b == a + (size + 7) - ((size + 7) % 8)
           S == {c \in (a + size)..((a + size) + 7) : c % 8 = 0}
<1>1. b \in S /\ b \in Nat
  OBVIOUS
<1>2. \A c \in S : b <= c
  OBVIOUS
<1>3. \A c \in S : c \in Int
  OBVIOUS
<1>4. Align8(a + size) = Min(S)
  BY DEF Align8
<1>5. b % 8 = 0
  BY <1>1
<1> HIDE DEF b, S
<1>6. \A c \in S : (\A d \in S : c <= d) => c = b
  BY <1>1, <1>2, <1>3
<1>7. Min(S) = b
  BY <1>1, <1>2, <1>6 DEF Min
<1> QED
  BY <1>1, <1>4, <1>5, <1>7 DEF b

(* The numbers of a region. *)
LEMMA RegionIs == \A r \in Region : r.addr \in Nat /\ r.len \in Nat
<1>1. \A r \in Region : r.addr \in Word64 /\ r.len \in Word64
  BY DEF Region
<1> QED
  BY <1>1, Words

(* What the code makes of one entry.                                       *)
LEMMA EntryInfo ==
    ASSUME NEW info \in MemInfo, NEW i \in Nat, NEW e \in Region,
           NEW m, m = Bounded(Counted(Stored(info, i, e), e), e)
    PROVE  /\ m \in MemInfo
           /\ i < SLOTS =>
                /\ m.map = [info.map EXCEPT ![i] = e]
                /\ m.memory_map_count = info.memory_map_count
                /\ m.total_physical = Add64(info.total_physical, e.len)
                /\ m.total_available = IF e.type = RAM THEN Add64(info.total_available, e.len)
                                       ELSE info.total_available
                /\ m.first_usable =
                     IF Usable(e) /\ (info.first_usable = 0 \/ Low32(e.addr) < info.first_usable)
                     THEN Low32(e.addr) ELSE info.first_usable
                /\ m.last_usable =
                     IF Usable(e) /\ Low32(Add64(e.addr, e.len)) > info.last_usable
                     THEN Low32(Add64(e.addr, e.len)) ELSE info.last_usable
<1> DEFINE a == e.addr
           l == e.len
           s == Stored(info, i, e)
           c == Counted(s, e)
<1>1. a \in Nat /\ l \in Nat /\ e.type \in Nat
  <2>1. a \in Word64 /\ l \in Word64 /\ e.type \in {1, 2}
    BY DEF Region, RAM
  <2> HIDE DEF a, l
  <2> QED
    BY <2>1, Words
<1>2. /\ Low32(a) \in Nat /\ Low32(l) \in Nat /\ High32(a) \in Nat /\ High32(l) \in Nat
      /\ Low32(Add64(a, l)) \in Nat
  <2>1. \A n \in Nat : Low32(n) \in Nat /\ High32(n) \in Nat
    BY WordAssumption DEF Low32, High32
  <2>2. Add64(a, l) \in Nat
    BY <1>1, Words
  <2> QED
    BY <1>1, <2>1, <2>2
<1>3. /\ High32(a) + WORD * Low32(l) \in Nat
      /\ High32(l) + WORD * e.type \in Nat
  <2>1. \A x, y \in Nat : x + WORD * y \in Nat
    BY WordAssumption
  <2> QED
    BY <1>1, <1>2, <2>1
<1>4. /\ s \in MemInfo
      /\ i < SLOTS => /\ s.map = [info.map EXCEPT ![i] = e]
                      /\ s.memory_map_count = info.memory_map_count
                      /\ s.total_physical = info.total_physical
                      /\ s.total_available = info.total_available
                      /\ s.first_usable = info.first_usable
                      /\ s.last_usable = info.last_usable
  <2>1. CASE i < SLOTS
    <3>1. s = [info EXCEPT !.map[i] = e]
      BY <2>1 DEF Stored
    <3>2. i \in 0..(SLOTS - 1)
      BY <2>1, WordAssumption
    <3> HIDE DEF s
    <3> QED
      BY <3>1, <3>2 DEF MemInfo
  <2>2. CASE ~(i < SLOTS)
    <3>1. s = [info EXCEPT !.memory_map_count = Low32(a),
                           !.total_physical = High32(a) + WORD * Low32(l),
                           !.total_available = High32(l) + WORD * e.type,
                           !.first_usable = 0]
      BY <2>2 DEF Stored
    <3> HIDE DEF s
    <3> QED
      BY <1>2, <1>3, <2>2, <3>1 DEF MemInfo
  <2> QED
    BY <2>1, <2>2
<1>5. /\ c \in MemInfo
      /\ c.map = s.map /\ c.memory_map_count = s.memory_map_count
      /\ c.total_physical = Add64(s.total_physical, l)
      /\ c.total_available = IF e.type = RAM THEN Add64(s.total_available, l)
                             ELSE s.total_available
      /\ c.first_usable = s.first_usable /\ c.last_usable = s.last_usable
  <2>1. c = [s EXCEPT !.total_physical = Add64(s.total_physical, l),
                      !.total_available = IF e.type = RAM THEN Add64(s.total_available, l)
                                          ELSE s.total_available]
    BY DEF Counted
  <2> HIDE DEF c, s
  <2>2. Add64(s.total_physical, l) \in Nat /\ Add64(s.total_available, l) \in Nat
    <3>1. s.total_physical \in Nat /\ s.total_available \in Nat
      BY <1>4 DEF MemInfo
    <3> QED
      BY <1>1, <3>1, Words
  <2> QED
    BY <1>4, <2>1, <2>2 DEF MemInfo
<1>6. /\ m \in MemInfo
      /\ m.map = c.map /\ m.memory_map_count = c.memory_map_count
      /\ m.total_physical = c.total_physical /\ m.total_available = c.total_available
      /\ m.first_usable =
           IF Usable(e) /\ (c.first_usable = 0 \/ Low32(a) < c.first_usable)
           THEN Low32(a) ELSE c.first_usable
      /\ m.last_usable =
           IF Usable(e) /\ Low32(Add64(a, l)) > c.last_usable
           THEN Low32(Add64(a, l)) ELSE c.last_usable
  <2>1. CASE ~Usable(e)
    BY <1>5, <2>1 DEF Bounded
  <2>2. CASE Usable(e)
    <3>1. c.first_usable \in Nat /\ c.last_usable \in Nat
      BY <1>5 DEF MemInfo
    <3> DEFINE u == Max({c.last_usable, Low32(Add64(a, l))})
               f == IF c.first_usable = 0 \/ Low32(a) < c.first_usable
                    THEN Low32(a) ELSE c.first_usable
    <3>2. u = IF c.last_usable >= Low32(Add64(a, l)) THEN c.last_usable
              ELSE Low32(Add64(a, l))
      BY <1>2, <3>1, MaxOfTwo
    <3>3. m = [c EXCEPT !.first_usable = f, !.last_usable = u]
      BY <2>2 DEF Bounded
    <3>4. f \in Nat /\ u \in Nat
      BY <1>2, <3>1, <3>2
    <3> HIDE DEF c, u, f
    <3>5. /\ m \in MemInfo /\ m.map = c.map /\ m.memory_map_count = c.memory_map_count
          /\ m.total_physical = c.total_physical /\ m.total_available = c.total_available
          /\ m.first_usable = f /\ m.last_usable = u
      BY <1>5, <3>3, <3>4 DEF MemInfo
    <3>6. u = IF Low32(Add64(a, l)) > c.last_usable THEN Low32(Add64(a, l)) ELSE c.last_usable
      BY <1>2, <3>1, <3>2
    <3> QED
      BY <2>2, <3>5, <3>6 DEF f
  <2> QED
    BY <2>1, <2>2
<1> HIDE DEF s, c
<1> QED
  BY <1>4, <1>5, <1>6

(* One more entry. *)
LEMMA EntryStep ==
    ASSUME BootIInv, Entry
    PROVE  BootIInv'
<1>1. PICK a \in Starts, l \in Lengths, type \in {RAM, 2} :
        LET e == [addr |-> a, len |-> l, type |-> type]
        IN /\ mem_info' = Bounded(Counted(Stored(mem_info, Len(entries), e), e), e)
           /\ entries' = Append(entries, e)
  BY DEF Entry
<1> DEFINE e == [addr |-> a, len |-> l, type |-> type]
<1>2. /\ e \in Region /\ e.addr = a /\ e.len = l /\ e.type = type
      /\ a \in Nat /\ l \in Nat
  BY WordAssumption, Words DEF Region, Word64
<1>3. PICK d, n : d = entries /\ n = Len(entries)
  OBVIOUS
<1> DEFINE c == Append(d, e)
<1>4. mem_info' = Bounded(Counted(Stored(mem_info, n, e), e), e) /\ entries' = c
  BY <1>1, <1>3
<1> HIDE DEF e
<1>5. /\ d \in Seq(Region) /\ c \in Seq(Region) /\ n \in Nat /\ Len(c) = n + 1 /\ n = Len(d)
      /\ \A i \in 1..n : c[i] = d[i] /\ d[i] \in Region
      /\ c[n + 1] = e
  BY <1>2, <1>3, AppendProperties, LenProperties, ElementOfSeq DEF BootIInv, BootTypeOK
<1> HIDE DEF c
<1>6. /\ step = "entry" /\ left > 0 /\ left \in Nat /\ left' = left - 1
      /\ step' = IF left = 1 THEN "tag" ELSE "entry"
      /\ UNCHANGED <<tag, placed, count>>
  BY DEF Entry, BootIInv, BootTypeOK
<1>7. BootTypeOK'
  <2>1. mem_info' \in MemInfo
    BY <1>2, <1>4, <1>5, EntryInfo DEF BootIInv, BootTypeOK
  <2> QED
    BY <1>4, <1>5, <1>6, <2>1 DEF BootIInv, BootTypeOK
<1>8. (step' = "entry" <=> left' > 0) /\ n + 1 + left' = n + left
  BY <1>5, <1>6
<1>9. ASSUME Len(c) + left' <= SLOTS PROVE Exact'
  <2>1. Exact /\ n < SLOTS /\ mem_info \in MemInfo
    BY <1>3, <1>5, <1>6, <1>8, <1>9, WordAssumption DEF BootIInv, BootTypeOK
  <2>2. PICK i, m : i = mem_info /\ m = mem_info'
    OBVIOUS
  <2>3. /\ m.map = [i.map EXCEPT ![n] = e]
        /\ m.memory_map_count = i.memory_map_count
        /\ m.total_physical = Add64(i.total_physical, e.len)
        /\ m.total_available = IF e.type = RAM THEN Add64(i.total_available, e.len)
                               ELSE i.total_available
        /\ m.first_usable =
             IF Usable(e) /\ (i.first_usable = 0 \/ Low32(e.addr) < i.first_usable)
             THEN Low32(e.addr) ELSE i.first_usable
        /\ m.last_usable =
             IF Usable(e) /\ Low32(Add64(e.addr, e.len)) > i.last_usable
             THEN Low32(Add64(e.addr, e.len)) ELSE i.last_usable
    BY <1>2, <1>4, <1>5, <2>1, <2>2, EntryInfo
  <2>4. /\ i.map \in [0..(SLOTS - 1) -> Region \cup {<<>>}]
        /\ i.first_usable \in Nat /\ i.last_usable \in Nat
    BY <2>1, <2>2 DEF MemInfo
  <2>5. All = 1..n /\ All' = 1..(n + 1)
    BY <1>3, <1>4, <1>5, LenProperties DEF All, BootIInv, BootTypeOK
  <2>6. m.memory_map_count = Len(c) + left'
    BY <1>3, <1>5, <1>8, <2>1, <2>2, <2>3, <1>6 DEF Exact
  <2>7. ASSUME NEW k \in 1..(n + 1) PROVE m.map[k - 1] = c[k]
    <3>1. CASE k = n + 1
      <4>1. k - 1 = n /\ n \in 0..(SLOTS - 1)
        BY <1>5, <2>1, <3>1, WordAssumption
      <4> QED
        BY <1>5, <2>3, <2>4, <3>1, <4>1
    <3>2. CASE k # n + 1
      <4>1. k \in 1..n /\ k - 1 # n /\ k - 1 \in 0..(SLOTS - 1)
        BY <1>5, <2>1, <3>2, WordAssumption
      <4>2. i.map[k - 1] = d[k]
        BY <1>3, <2>1, <2>2, <2>5, <4>1 DEF Exact
      <4> QED
        BY <1>5, <2>3, <2>4, <4>1, <4>2
    <3> QED
      BY <3>1, <3>2
  <2>8. m.total_physical = Total(All)'
    <3>1. PICK T : T = All'
      OBVIOUS
    <3>2. Total(T)' = IF n + 1 \in T THEN Add64(Total(All), e.len) ELSE Total(All)
      <4>1. PICK S : S = All
        OBVIOUS
      <4>2. \A k \in 1..Len(entries) : k \in S <=> k \in T
        BY <1>3, <1>5, <2>5, <3>1, <4>1
      <4>3. Total(T)' = IF Len(entries) + 1 \in T THEN Add64(Total(S), e.len) ELSE Total(S)
        BY <1>2, <1>3, <1>4, <4>2, TotalGrows DEF BootIInv, BootTypeOK, c
      <4> QED
        BY <1>3, <4>1, <4>3
    <3>3. n + 1 \in T
      BY <1>5, <2>5, <3>1
    <3>4. Total(All)' = Total(T)'
      BY <3>1 DEF Total
    <3> QED
      BY <2>1, <2>2, <2>3, <3>2, <3>3, <3>4 DEF Exact
  <2>9. m.total_available = Total({k \in All : entries[k].type = RAM})'
    <3>1. PICK T, S : /\ T = {k \in All' : entries'[k].type = RAM}
                      /\ S = {k \in All : entries[k].type = RAM}
      OBVIOUS
    <3>2. \A k \in 1..Len(entries) : k \in S <=> k \in T
      BY <1>3, <1>4, <1>5, <2>5, <3>1
    <3>3. Total(T)' = IF Len(entries) + 1 \in T THEN Add64(Total(S), e.len) ELSE Total(S)
      BY <1>2, <1>3, <1>4, <3>2, TotalGrows DEF BootIInv, BootTypeOK, c
    <3>4. Len(entries) + 1 \in T <=> e.type = RAM
      BY <1>3, <1>4, <1>5, <2>5, <3>1
    <3>5. Total({k \in All : entries[k].type = RAM})' = Total(T)'
      BY <3>1 DEF Total
    <3> QED
      BY <2>1, <2>2, <2>3, <3>1, <3>3, <3>4, <3>5 DEF Exact
  <2>10. PICK R, Q : R = Regions /\ Q = Regions'
    OBVIOUS
  <2>11. /\ R = {k \in 1..n : Usable(d[k])}
         /\ Q = {k \in 1..(n + 1) : Usable(c[k])}
    BY <1>3, <1>4, <2>5, <2>10 DEF Regions, Usable
  <2>12. /\ R \subseteq 1..n /\ Q = R \cup (IF Usable(e) THEN {n + 1} ELSE {})
         /\ \A k \in R : c[k] = d[k] /\ d[k] \in Region
    BY <1>5, <2>11
  <2>13. Usable(e) => Low32(e.addr) = e.addr /\ e.addr >= 1 /\ e.addr \in Nat
    <3>1. ASSUME Usable(e) PROVE e.addr \in 0..(WORD - 1) /\ e.addr >= 1
      BY <1>2, <3>1, WordAssumption DEF Usable
    <3> QED
      BY <3>1, Words DEF Low32
  <2>14. FirstIs'
    <3>1. IF R = {} THEN i.first_usable = 0
          ELSE /\ \E k \in R : i.first_usable = d[k].addr
               /\ \A k \in R : i.first_usable <= d[k].addr
      BY <1>3, <2>1, <2>2, <2>10 DEF Exact, FirstIs
    <3>2. \A k \in R : d[k].addr \in Nat /\ d[k].addr >= 1
      <4>1. ASSUME NEW k \in R PROVE d[k].addr \in Nat /\ d[k].addr >= 1
        <5>1. Usable(d[k]) /\ d[k].addr \in Nat
          BY <2>11, <2>12, RegionIs
        <5> QED
          BY <5>1, WordAssumption DEF Usable
      <4> QED
        BY <4>1
    <3>3. \A k \in R : k \in Q /\ c[k].addr = d[k].addr /\ k # n + 1
      BY <1>5, <2>12
    <3>4. CASE ~Usable(e)
      <4>1. m.first_usable = i.first_usable /\ Q = R
        BY <2>3, <2>12, <3>4
      <4>2. IF Q = {} THEN m.first_usable = 0
            ELSE /\ \E k \in Q : m.first_usable = c[k].addr
                 /\ \A k \in Q : m.first_usable <= c[k].addr
        BY <3>1, <3>3, <4>1
      <4> QED
        BY <1>4, <2>2, <2>10, <4>2 DEF FirstIs
    <3>5. CASE Usable(e)
      <4>1. /\ Q = R \cup {n + 1} /\ c[n + 1] = e
            /\ m.first_usable = IF i.first_usable = 0 \/ e.addr < i.first_usable
                                THEN e.addr ELSE i.first_usable
            /\ e.addr \in Nat
        BY <1>5, <2>3, <2>12, <2>13, <3>5
      <4>2. \E k \in Q : m.first_usable = c[k].addr
        BY <3>1, <3>3, <4>1
      <4>3. \A k \in Q : m.first_usable <= c[k].addr
        BY <2>4, <3>1, <3>2, <3>3, <4>1
      <4> QED
        BY <1>4, <2>2, <2>10, <4>2, <4>3 DEF FirstIs
    <3> QED
      BY <3>4, <3>5
  <2>15. LastIs'
    <3> DEFINE E == {d[k].addr + d[k].len : k \in R}
               F == {c[k].addr + c[k].len : k \in Q}
    <3>1. Ends = E /\ Ends' = F
      BY <1>3, <1>4, <2>10 DEF Ends
    <3>2. (\A x \in E : x < WORD) => /\ i.last_usable \in E \cup {0}
                                     /\ \A x \in E : x <= i.last_usable
      BY <2>1, <2>2, <3>1 DEF Exact, LastIs
    <3>3. F = E \cup (IF Usable(e) THEN {e.addr + e.len} ELSE {})
      <4>1. \A k \in R : k \in Q /\ c[k].addr + c[k].len = d[k].addr + d[k].len
        BY <2>12
      <4> QED
        BY <1>5, <2>12, <4>1
    <3>4. \A x \in E : x \in Nat
      <4>1. \A k \in R : d[k].addr \in Nat /\ d[k].len \in Nat
        BY <2>12, RegionIs
      <4> QED
        BY <4>1
    <3> HIDE DEF E, F
    <3>5. ASSUME \A x \in F : x < WORD
          PROVE  m.last_usable \in F \cup {0} /\ \A x \in F : x <= m.last_usable
      <4>1. CASE ~Usable(e)
        BY <2>3, <3>2, <3>3, <3>5, <4>1
      <4>2. CASE Usable(e)
        <5>1. e.addr + e.len \in F /\ e.addr + e.len < WORD
          BY <3>3, <3>5, <4>2
        <5>2. Low32(Add64(e.addr, e.len)) = e.addr + e.len /\ e.addr + e.len \in Nat
          <6>1. e.addr + e.len \in 0..(WORD - 1)
            BY <1>2, <5>1, WordAssumption
          <6>2. Add64(e.addr, e.len) = e.addr + e.len
            BY <1>2, <5>1, Words
          <6>3. (e.addr + e.len) % WORD = e.addr + e.len
            BY <6>1, Words
          <6> QED
            BY <6>1, <6>2, <6>3 DEF Low32
        <5>3. i.last_usable \in E \cup {0} /\ \A x \in E : x <= i.last_usable
          BY <3>2, <3>3, <3>5
        <5>4. m.last_usable = IF e.addr + e.len > i.last_usable THEN e.addr + e.len
                              ELSE i.last_usable
          BY <2>3, <4>2, <5>2
        <5> QED
          BY <2>4, <3>3, <3>4, <4>2, <5>2, <5>3, <5>4
      <4> QED
        BY <4>1, <4>2
    <3> QED
      BY <2>2, <3>1, <3>5 DEF LastIs
  <2> QED
    BY <1>4, <2>2, <2>5, <2>6, <2>7, <2>8, <2>9, <2>14, <2>15 DEF Exact
<1> QED
  BY <1>4, <1>5, <1>6, <1>7, <1>8, <1>9 DEF BootIInv

(* Tags and states that the statistics do not depend on. *)
LEMMA ExactKept ==
    ASSUME Exact, UNCHANGED <<left, entries>>,
           mem_info'.map = mem_info.map,
           mem_info'.memory_map_count = mem_info.memory_map_count,
           mem_info'.total_physical = mem_info.total_physical,
           mem_info'.total_available = mem_info.total_available,
           mem_info'.first_usable = mem_info.first_usable,
           mem_info'.last_usable = mem_info.last_usable
    PROVE  Exact'
<1>1. All' = All /\ Regions' = Regions /\ Ends' = Ends
  BY DEF All, Regions, Ends
<1>2. FirstIs' /\ LastIs'
  BY <1>1 DEF Exact, FirstIs, LastIs
<1>3. /\ Total(All)' = Total(All)
      /\ Total({i \in All : entries[i].type = RAM})' = Total({i \in All : entries[i].type = RAM})
  BY <1>1 DEF Total
<1> QED
  BY <1>1, <1>2, <1>3 DEF Exact

(* Nothing is known when the boot code starts. *)
LEMMA BootInitIInv == BootInit => BootIInv
<1> SUFFICES ASSUME BootInit PROVE BootIInv
  OBVIOUS
<1>1. entries \in Seq(Region) /\ Len(entries) = 0 /\ All = {}
  BY EmptySeq, LenProperties DEF BootInit, All
<1>2. mem_info \in MemInfo
  BY WordAssumption DEF BootInit, Empty, MemInfo
<1>3. Exact
  <2>1. Regions = {}
    BY <1>1 DEF Regions
  <2>2. FirstIs /\ LastIs
    BY <2>1 DEF BootInit, Empty, FirstIs, LastIs, Ends
  <2>3. Total(All) = 0 /\ Total({i \in All : entries[i].type = RAM}) = 0
    BY NoTotals DEF BootInit
  <2> QED
    BY <1>1, <2>2, <2>3 DEF Exact, BootInit, Empty
<1> QED
  BY <1>1, <1>2, <1>3 DEF BootIInv, BootTypeOK, BootInit

(* The loader and the code go the same way to the next tag. *)
LEMMA NextTagMeets ==
    ASSUME BootIInv, NEW size \in Nat, NextTag(size), Loaded(size)
    PROVE  tag' = placed' /\ tag' % 8 = 0 /\ tag' \in Nat /\ count' \in Nat
<1>1. PICK a : a = tag
  OBVIOUS
<1>2. a \in Nat /\ a % 8 = 0 /\ a = placed
  BY <1>1 DEF BootIInv, BootTypeOK
<1>3. tag' = Align8(a + size) /\ placed' = Align8(a + size)
  BY <1>1, <1>2, Aligned DEF NextTag, Loaded
<1>4. count' \in Nat
  BY DEF Loaded, BootIInv, BootTypeOK
<1> QED
  BY <1>2, <1>3, <1>4, Aligned

(* Each step of the pass over the tags keeps the invariant. *)
LEMMA BootStep == BootIInv /\ [BootNext]_bootVars => BootIInv'
<1> SUFFICES ASSUME BootIInv, [BootNext]_bootVars PROVE BootIInv'
  OBVIOUS
<1> USE DEF BootIInv, BootTypeOK
<1>1. ASSUME UNCHANGED <<tag, placed, count, left, entries, mem_info>>,
             step' # "entry", left = 0, step' \in {"magic", "tag", "done"}
      PROVE  BootIInv'
  <2>1. Len(entries) + left <= SLOTS => Exact'
    BY <1>1, ExactKept
  <2> QED
    BY <1>1, <2>1
<1>2. CASE WrongMagic
  BY <1>1, <1>2 DEF WrongMagic
<1>3. CASE RightMagic
  BY <1>1, <1>3 DEF RightMagic
<1>4. CASE OtherTag
  <2>1. PICK size \in Sizes : NextTag(size) /\ Loaded(size)
    BY <1>4 DEF OtherTag
  <2>2. tag' = placed' /\ tag' % 8 = 0 /\ tag' \in Nat /\ count' \in Nat
    BY <2>1, NextTagMeets, WordAssumption
  <2>3. UNCHANGED <<left, entries, mem_info, step>>
    BY <1>4 DEF OtherTag
  <2>4. Len(entries) + left <= SLOTS => Exact'
    BY <2>3, ExactKept
  <2> QED
    BY <2>2, <2>3, <2>4
<1>5. CASE BasicTag
  <2>1. tag' = placed' /\ tag' % 8 = 0 /\ tag' \in Nat /\ count' \in Nat
    BY <1>5, NextTagMeets DEF BasicTag
  <2>2. UNCHANGED <<left, entries, step>> /\ mem_info' = [mem_info EXCEPT !.basic = TRUE]
    BY <1>5 DEF BasicTag
  <2>3. mem_info' \in MemInfo
    BY <2>2 DEF MemInfo
  <2>4. Len(entries) + left <= SLOTS => Exact'
    BY <2>2, ExactKept DEF MemInfo
  <2> QED
    BY <2>1, <2>2, <2>3, <2>4
<1>6. CASE MapTag
  <2>1. PICK n \in 0..MaxEntries :
          /\ NextTag(16 + 24 * n) /\ Loaded(16 + 24 * n)
          /\ left' = n
          /\ step' = IF n = 0 THEN "tag" ELSE "entry"
          /\ mem_info' = [mem_info EXCEPT !.memory_map_count = n,
                              !.total_physical = 0, !.total_available = 0,
                              !.first_usable = 0, !.last_usable = 0]
    BY <1>6 DEF MapTag
  <2>2. n \in Nat /\ 16 + 24 * n \in Nat
    BY WordAssumption
  <2>3. tag' = placed' /\ tag' % 8 = 0 /\ tag' \in Nat /\ count' \in Nat
    BY <2>1, <2>2, NextTagMeets
  <2>4. entries' = <<>> /\ Len(entries') = 0 /\ entries' \in Seq(Region) /\ All' = {}
    BY <1>6, EmptySeq, LenProperties DEF MapTag, All
  <2>5. /\ mem_info' \in MemInfo /\ mem_info'.memory_map_count = n
        /\ mem_info'.total_physical = 0 /\ mem_info'.total_available = 0
        /\ mem_info'.first_usable = 0 /\ mem_info'.last_usable = 0
    BY <2>1, <2>2 DEF MemInfo
  <2>6. Exact'
    <3>1. Regions' = {}
      BY <2>4 DEF Regions
    <3>2. FirstIs' /\ LastIs'
      BY <2>5, <3>1 DEF FirstIs, LastIs, Ends
    <3>3. Total(All)' = 0 /\ Total({i \in All : entries[i].type = RAM})' = 0
      <4>1. (entries = <<>> => \A S : Total(S) = 0)'
        BY NoTotals, PTL
      <4> QED
        BY <2>4, <4>1
    <3> QED
      BY <2>1, <2>2, <2>4, <2>5, <3>2, <3>3 DEF Exact
  <2> QED
    BY <2>1, <2>2, <2>3, <2>4, <2>5, <2>6
<1>7. CASE EndTag
  <2>1. /\ UNCHANGED <<tag, placed, count, left, entries>> /\ step' = "done"
        /\ step = "tag" /\ mem_info' = [mem_info EXCEPT !.kernel = TRUE]
    BY <1>7 DEF EndTag, AtTag
  <2>2. mem_info' \in MemInfo
    BY <2>1 DEF MemInfo
  <2>3. Len(entries) + left <= SLOTS => Exact'
    BY <2>1, ExactKept DEF MemInfo
  <2> QED
    BY <2>1, <2>2, <2>3
<1>8. CASE Entry
  BY <1>8, EntryStep
<1>9. CASE UNCHANGED bootVars
  <2>1. Len(entries) + left <= SLOTS => Exact'
    BY <1>9, ExactKept DEF bootVars
  <2> QED
    BY <1>9, <2>1 DEF bootVars
<1> QED
  BY <1>2, <1>3, <1>4, <1>5, <1>6, <1>7, <1>8, <1>9 DEF BootNext

(* The extremes of MemInfoExact. *)
LEMMA BootIInvExact == BootIInv => MemInfoExact
<1> SUFFICES ASSUME BootIInv PROVE MemInfoExact
  OBVIOUS
<1>1. ASSUME step \in {"tag", "done"}, Len(entries) <= SLOTS
      PROVE  Exact /\ left = 0 /\ Len(entries) \in Nat
  BY <1>1, LenProperties DEF BootIInv, BootTypeOK
<1>2. ASSUME NEW i \in Regions PROVE entries[i].addr \in Nat /\ entries[i].len \in Nat
  <2>1. entries[i] \in Region
    BY LenProperties, ElementOfSeq DEF Regions, All, BootIInv, BootTypeOK
  <2> QED
    BY <2>1, RegionIs
<1>3. ASSUME Exact, Regions # {}
      PROVE  mem_info.first_usable = Min({entries[i].addr : i \in Regions})
  <2> DEFINE S == {entries[i].addr : i \in Regions}
             m == mem_info.first_usable
  <2>1. m \in S /\ (\A x \in S : m <= x) /\ \A x \in S : x \in Nat
    BY <1>2, <1>3 DEF Exact, FirstIs
  <2> HIDE DEF S, m
  <2>2. \A x \in S : (\A y \in S : x <= y) => x = m
    BY <2>1
  <2>3. Min(S) = m
    BY <2>1, <2>2 DEF Min
  <2> QED
    BY <2>3 DEF S, m
<1>4. ASSUME Exact, \A x \in Ends : x < WORD
      PROVE  mem_info.last_usable = Max(Ends \cup {0})
  <2> DEFINE S == Ends \cup {0}
             m == mem_info.last_usable
  <2>1. \A x \in S : x \in Nat
    BY <1>2 DEF Ends
  <2>2. m \in S /\ \A x \in S : m >= x
    BY <1>4, <2>1 DEF Exact, LastIs, MemInfo, BootIInv, BootTypeOK
  <2> HIDE DEF S, m
  <2>3. \A x \in S : (\A y \in S : x >= y) => x = m
    BY <2>1, <2>2
  <2>4. Max(S) = m
    BY <2>2, <2>3 DEF Max
  <2> QED
    BY <2>4 DEF S, m
<1>5. tag = placed
  BY DEF BootIInv
<1>6. ASSUME Exact PROVE mem_info.first_usable =
          (IF Regions = {} THEN 0 ELSE Min({entries[i].addr : i \in Regions}))
  BY <1>3, <1>6 DEF Exact, FirstIs
<1> QED
  BY <1>1, <1>4, <1>5, <1>6 DEF MemInfoExact, Exact

(* The code looks for the tags where the loader has put them, and between  *)
(* the entries of a map mem_info tells of those read.                      *)
THEOREM BootInvariant == BootSpec => []BootIInv
<1> QED
  BY BootInitIInv, BootStep, PTL DEF BootSpec

(* After the map mem_info says of the memory what the loader said.         *)
THEOREM MemoryInformation == BootSpec => []MemInfoExact
<1> QED
  BY BootInvariant, BootIInvExact, PTL

-----------------------------------------------------------------------------
(* The string library: loops *)

(* Memory, its addresses and its bytes. *)
LEMMA Memories ==
    /\ MEM \in Nat /\ Addr = 1..MEM /\ Addr \subseteq Nat
    /\ BYTE \in Nat /\ BYTE >= 2
    /\ \A m \in Memory, a \in Addr : m[a] \in Nat /\ m[a] \in 0..(BYTE - 1)
    /\ \A c \in Nat : Char(c) \in 0..(BYTE - 1)
    /\ Char(NUL) = NUL /\ NUL = 0 /\ NULLP = 0 /\ NULLP \notin Addr
<1>1. MEM \in Nat /\ BYTE \in Nat /\ BYTE >= 2
  BY MemoryAssumption
<1>2. \A c \in Nat : c % BYTE \in 0..(BYTE - 1)
  BY <1>1
<1>3. 0 % BYTE = 0
  BY <1>1
<1>4. \A m \in Memory, a \in Addr : m[a] \in 0..(BYTE - 1)
  BY DEF Memory
<1>5. \A m \in Memory, a \in Addr : m[a] \in Nat /\ m[a] \in 0..(BYTE - 1)
  BY <1>1, <1>4
<1>6. Addr = 1..MEM /\ Addr \subseteq Nat /\ NULLP \notin Addr
  BY <1>1 DEF Addr, NULLP
<1> QED
  BY <1>1, <1>2, <1>3, <1>5, <1>6 DEF Char, NUL, NULLP

(* Where a loop stops first. *)
LEMMA FirstStop ==
    ASSUME NEW k \in Nat, NEW S, k \in S
    PROVE  \E r \in 0..k : r \in S /\ \A j \in 0..(r - 1) : j \notin S
<1> DEFINE T == {i \in Nat : i \in S}
<1>1. T \in SUBSET Nat /\ T # {}
  OBVIOUS
<1>2. PICK r \in T : \A i \in T : r <= i
  <2> HIDE DEF T
  <2> QED
    BY <1>1, Least
<1>3. r \in 0..k /\ r \in S
  BY <1>2
<1>4. ASSUME NEW j \in 0..(r - 1) PROVE j \notin S
  BY <1>2, <1>3
<1> QED
  BY <1>3, <1>4

(* m after the n bytes from s have been moved to d. *)
Moved(m, d, s, n) ==
    [a \in Addr |-> IF a \in d..(d + n - 1) THEN m[s + (a - d)] ELSE m[a]]

Fits(d, s, n) ==
    /\ d \in Addr /\ s \in Addr /\ n \in Nat
    /\ d + n - 1 <= MEM /\ s + n - 1 <= MEM

(* Upward, no byte is overwritten before it has been read.                 *)
LEMMA CopyUpMoves ==
    ASSUME NEW m \in Memory, NEW d, NEW s, NEW n, Fits(d, s, n), d <= s \/ s + n <= d
    PROVE  CopyUp(m, d, s, n) = Moved(m, d, s, n)
<1>1. d \in 1..MEM /\ s \in 1..MEM /\ n \in Nat /\ d + n - 1 <= MEM /\ s + n - 1 <= MEM /\ MEM \in Nat
  BY Memories DEF Fits
<1> DEFINE h == [k \in 0..n |-> Moved(m, d, s, k)]
           g == [k \in 1..n |-> [v \in Memory |-> [v EXCEPT ![d + k - 1] = v[s + k - 1]]]]
<1>2. ASSUME NEW k \in 0..n PROVE Moved(m, d, s, k) \in Memory
  <2>1. ASSUME NEW a \in Addr
        PROVE  (IF a \in d..(d + k - 1) THEN m[s + (a - d)] ELSE m[a]) \in 0..(BYTE - 1)
    <3>1. a \in d..(d + k - 1) => s + (a - d) \in Addr
      BY <1>1 DEF Addr
    <3> QED
      BY <3>1, Memories
  <2> QED
    BY <2>1 DEF Moved, Memory
<1>3. Moved(m, d, s, 0) = m
  <2>1. \A a \in Addr : a \notin d..(d + 0 - 1)
    BY <1>1
  <2>2. m = [a \in Addr |-> m[a]]
    BY DEF Memory
  <2> QED
    BY <2>1, <2>2 DEF Moved
<1>4. ASSUME NEW k \in 1..n
      PROVE  Moved(m, d, s, k) =
               [Moved(m, d, s, k - 1) EXCEPT ![d + k - 1] = Moved(m, d, s, k - 1)[s + k - 1]]
  <2>1. /\ k \in Nat /\ k - 1 \in 0..n /\ k \in 0..n
        /\ d + k - 1 \in Addr /\ s + k - 1 \in Addr
    BY <1>1 DEF Addr
  <2>2. Moved(m, d, s, k - 1)[s + k - 1] = m[s + k - 1]
    <3>1. s + k - 1 \notin d..(d + (k - 1) - 1)
      BY <1>1, <2>1
    <3> QED
      BY <2>1, <3>1 DEF Moved
  <2>3. ASSUME NEW a \in Addr
        PROVE  Moved(m, d, s, k)[a] =
                 IF a = d + k - 1 THEN m[s + k - 1] ELSE Moved(m, d, s, k - 1)[a]
    <3>1. CASE a = d + k - 1
      <4>1. a \in d..(d + k - 1) /\ s + (a - d) = s + k - 1
        BY <1>1, <2>1, <3>1
      <4> QED
        BY <3>1, <4>1 DEF Moved
    <3>2. CASE a # d + k - 1
      <4>1. a \in d..(d + k - 1) <=> a \in d..(d + (k - 1) - 1)
        BY <1>1, <2>1, <3>2 DEF Addr
      <4> QED
        BY <3>2, <4>1 DEF Moved
    <3> QED
      BY <3>1, <3>2
  <2>4. /\ Moved(m, d, s, k) = [a \in Addr |-> Moved(m, d, s, k)[a]]
        /\ Moved(m, d, s, k - 1) = [a \in Addr |-> Moved(m, d, s, k - 1)[a]]
    BY DEF Moved
  <2> QED
    BY <2>1, <2>2, <2>3, <2>4
<1> DEFINE f[k \in 0..n] == IF k = 0 THEN m
                            ELSE [f[k - 1] EXCEPT ![d + k - 1] = f[k - 1][s + k - 1]]
<1>5. h = [k \in 0..n |-> IF k = 0 THEN m
                          ELSE [h[k - 1] EXCEPT ![d + k - 1] = h[k - 1][s + k - 1]]]
  <2>1. ASSUME NEW k \in 0..n
        PROVE  h[k] = IF k = 0 THEN m
                      ELSE [h[k - 1] EXCEPT ![d + k - 1] = h[k - 1][s + k - 1]]
    <3>1. CASE k = 0
      BY <1>3, <3>1
    <3>2. CASE k # 0
      <4>1. k \in 1..n /\ k - 1 \in 0..n
        BY <1>1, <3>2
      <4>2. h[k] = Moved(m, d, s, k) /\ h[k - 1] = Moved(m, d, s, k - 1)
        BY <4>1
      <4> HIDE DEF h
      <4> QED
        BY <1>4, <3>2, <4>1, <4>2
    <3> QED
      BY <3>1, <3>2
  <2>2. h = [k \in 0..n |-> h[k]]
    OBVIOUS
  <2> HIDE DEF h
  <2> QED
    BY <2>1, <2>2
<1>6. f = [k \in 0..n |-> IF k = 0 THEN m
                          ELSE [f[k - 1] EXCEPT ![d + k - 1] = f[k - 1][s + k - 1]]]
  <2> HIDE DEF h
  <2> QED
    BY <1>5
<1>7. Unrolls(h, n, Memory, m, g)
  <2>1. h \in [0..n -> Memory] /\ h[0] = m
    BY <1>1, <1>2, <1>3
  <2>2. ASSUME NEW k \in 1..n PROVE h[k] = g[k][h[k - 1]]
    <3>1. k \in 0..n /\ k - 1 \in 0..n /\ k # 0
      BY <1>1
    <3>2. h[k - 1] \in Memory
      BY <2>1, <3>1
    <3>3. h[k] = [h[k - 1] EXCEPT ![d + k - 1] = h[k - 1][s + k - 1]]
      <4> HIDE DEF h
      <4> QED
        BY <1>5, <3>1
    <3> HIDE DEF h
    <3> QED
      BY <3>2, <3>3
  <2> HIDE DEF h, g
  <2> QED
    BY <2>1, <2>2 DEF Unrolls
<1>8. f[0] = m /\ \A k \in 1..n : f[k - 1] \in Memory => f[k] = g[k][f[k - 1]]
  <2>0. 0 \in 0..n /\ \A k \in 1..n : k \in 0..n /\ k # 0
    BY <1>1
  <2> HIDE DEF f
  <2>1. f[0] = m
    BY <1>6, <2>0
  <2>2. ASSUME NEW k \in 1..n, f[k - 1] \in Memory PROVE f[k] = g[k][f[k - 1]]
    <3>1. f[k] = [f[k - 1] EXCEPT ![d + k - 1] = f[k - 1][s + k - 1]]
      BY <1>6, <2>0
    <3> QED
      BY <2>2, <3>1
  <2> QED
    BY <2>1, <2>2
<1>9. f[n] = h[n]
  <2> HIDE DEF f, g, h
  <2>1. \A k \in 0..n : f[k] = h[k]
    BY <1>1, <1>7, <1>8, Unique
  <2>2. n \in 0..n
    BY <1>1
  <2> QED
    BY <2>1, <2>2
<1>10. h[n] = Moved(m, d, s, n)
  BY <1>1
<1>11. CopyUp(m, d, s, n) = f[n]
  BY DEF CopyUp
<1> QED
  BY <1>9, <1>10, <1>11

(* The last k of the n bytes have been moved. *)
Lower(m, d, s, n, k) ==
    [a \in Addr |-> IF a \in (d + n - k)..(d + n - 1) THEN m[s + (a - d)] ELSE m[a]]

(* And downward.*)
LEMMA CopyDownMoves ==
    ASSUME NEW m \in Memory, NEW d, NEW s, NEW n, Fits(d, s, n), s <= d
    PROVE  CopyDown(m, d, s, n) = Moved(m, d, s, n)
<1>1. d \in 1..MEM /\ s \in 1..MEM /\ n \in Nat /\ d + n - 1 <= MEM /\ s + n - 1 <= MEM /\ MEM \in Nat
  BY Memories DEF Fits
<1> DEFINE h == [k \in 0..n |-> Lower(m, d, s, n, k)]
           g == [k \in 1..n |-> [v \in Memory |-> [v EXCEPT ![d + n - k] = v[s + n - k]]]]
<1>2. ASSUME NEW k \in 0..n PROVE Lower(m, d, s, n, k) \in Memory
  <2>1. ASSUME NEW a \in Addr
        PROVE  (IF a \in (d + n - k)..(d + n - 1) THEN m[s + (a - d)] ELSE m[a]) \in 0..(BYTE - 1)
    <3>1. a \in (d + n - k)..(d + n - 1) => s + (a - d) \in Addr
      BY <1>1 DEF Addr
    <3> QED
      BY <3>1, Memories
  <2> QED
    BY <2>1 DEF Lower, Memory
<1>3. Lower(m, d, s, n, 0) = m
  <2>1. \A a \in Addr : a \notin (d + n - 0)..(d + n - 1)
    BY <1>1
  <2>2. m = [a \in Addr |-> m[a]]
    BY DEF Memory
  <2> QED
    BY <2>1, <2>2 DEF Lower
<1>4. ASSUME NEW k \in 1..n
      PROVE  Lower(m, d, s, n, k) =
               [Lower(m, d, s, n, k - 1) EXCEPT ![d + n - k] = Lower(m, d, s, n, k - 1)[s + n - k]]
  <2>1. /\ k \in Nat /\ k - 1 \in 0..n /\ k \in 0..n
        /\ d + n - k \in Addr /\ s + n - k \in Addr
    BY <1>1 DEF Addr
  <2>2. Lower(m, d, s, n, k - 1)[s + n - k] = m[s + n - k]
    <3>1. s + n - k \notin (d + n - (k - 1))..(d + n - 1)
      BY <1>1, <2>1
    <3> QED
      BY <2>1, <3>1 DEF Lower
  <2>3. ASSUME NEW a \in Addr
        PROVE  Lower(m, d, s, n, k)[a] =
                 IF a = d + n - k THEN m[s + n - k] ELSE Lower(m, d, s, n, k - 1)[a]
    <3>1. CASE a = d + n - k
      <4>1. a \in (d + n - k)..(d + n - 1) /\ s + (a - d) = s + n - k
        BY <1>1, <2>1, <3>1
      <4> QED
        BY <3>1, <4>1 DEF Lower
    <3>2. CASE a # d + n - k
      <4>1. a \in (d + n - k)..(d + n - 1) <=> a \in (d + n - (k - 1))..(d + n - 1)
        BY <1>1, <2>1, <3>2 DEF Addr
      <4> QED
        BY <3>2, <4>1 DEF Lower
    <3> QED
      BY <3>1, <3>2
  <2>4. /\ Lower(m, d, s, n, k) = [a \in Addr |-> Lower(m, d, s, n, k)[a]]
        /\ Lower(m, d, s, n, k - 1) = [a \in Addr |-> Lower(m, d, s, n, k - 1)[a]]
    BY DEF Lower
  <2> QED
    BY <2>1, <2>2, <2>3, <2>4
<1> DEFINE f[k \in 0..n] == IF k = 0 THEN m
                            ELSE [f[k - 1] EXCEPT ![d + n - k] = f[k - 1][s + n - k]]
<1>5. h = [k \in 0..n |-> IF k = 0 THEN m
                          ELSE [h[k - 1] EXCEPT ![d + n - k] = h[k - 1][s + n - k]]]
  <2>1. ASSUME NEW k \in 0..n
        PROVE  h[k] = IF k = 0 THEN m
                      ELSE [h[k - 1] EXCEPT ![d + n - k] = h[k - 1][s + n - k]]
    <3>1. CASE k = 0
      BY <1>3, <3>1
    <3>2. CASE k # 0
      <4>1. k \in 1..n /\ k - 1 \in 0..n
        BY <1>1, <3>2
      <4>2. h[k] = Lower(m, d, s, n, k) /\ h[k - 1] = Lower(m, d, s, n, k - 1)
        BY <4>1
      <4> HIDE DEF h
      <4> QED
        BY <1>4, <3>2, <4>1, <4>2
    <3> QED
      BY <3>1, <3>2
  <2>2. h = [k \in 0..n |-> h[k]]
    OBVIOUS
  <2> HIDE DEF h
  <2> QED
    BY <2>1, <2>2
<1>6. f = [k \in 0..n |-> IF k = 0 THEN m
                          ELSE [f[k - 1] EXCEPT ![d + n - k] = f[k - 1][s + n - k]]]
  <2> HIDE DEF h
  <2> QED
    BY <1>5
<1>7. Unrolls(h, n, Memory, m, g)
  <2>1. h \in [0..n -> Memory] /\ h[0] = m
    BY <1>1, <1>2, <1>3
  <2>2. ASSUME NEW k \in 1..n PROVE h[k] = g[k][h[k - 1]]
    <3>1. k \in 0..n /\ k - 1 \in 0..n /\ k # 0
      BY <1>1
    <3>2. h[k - 1] \in Memory
      BY <2>1, <3>1
    <3>3. h[k] = [h[k - 1] EXCEPT ![d + n - k] = h[k - 1][s + n - k]]
      <4> HIDE DEF h
      <4> QED
        BY <1>5, <3>1
    <3> HIDE DEF h
    <3> QED
      BY <3>2, <3>3
  <2> HIDE DEF h, g
  <2> QED
    BY <2>1, <2>2 DEF Unrolls
<1>8. f[0] = m /\ \A k \in 1..n : f[k - 1] \in Memory => f[k] = g[k][f[k - 1]]
  <2>0. 0 \in 0..n /\ \A k \in 1..n : k \in 0..n /\ k # 0
    BY <1>1
  <2> HIDE DEF f
  <2>1. f[0] = m
    BY <1>6, <2>0
  <2>2. ASSUME NEW k \in 1..n, f[k - 1] \in Memory PROVE f[k] = g[k][f[k - 1]]
    <3>1. f[k] = [f[k - 1] EXCEPT ![d + n - k] = f[k - 1][s + n - k]]
      BY <1>6, <2>0
    <3> QED
      BY <2>2, <3>1
  <2> QED
    BY <2>1, <2>2
<1>9. f[n] = h[n]
  <2> HIDE DEF f, g, h
  <2>1. \A k \in 0..n : f[k] = h[k]
    BY <1>1, <1>7, <1>8, Unique
  <2>2. n \in 0..n
    BY <1>1
  <2> QED
    BY <2>1, <2>2
<1>10. h[n] = Moved(m, d, s, n)
  <2>1. h[n] = Lower(m, d, s, n, n)
    BY <1>1
  <2>2. d + n - n = d
    BY <1>1
  <2> QED
    BY <2>1, <2>2 DEF Moved, Lower
<1>11. CopyDown(m, d, s, n) = f[n]
  BY DEF CopyDown
<1> QED
  BY <1>9, <1>10, <1>11

(* The bytes that Put writes. *)
LEMMA PutBytes ==
    ASSUME NEW m, NEW d \in Int, NEW s \in Int, NEW n \in Nat
    PROVE  Put(m, d, Bytes(m, s, n)) = Moved(m, d, s, n)
<1>1. DOMAIN Bytes(m, s, n) = 1..n /\ \A k \in 1..n : Bytes(m, s, n)[k] = m[s + k - 1]
  BY DEF Bytes
<1>2. ASSUME NEW a \in Addr
      PROVE  /\ a - d + 1 \in 1..n <=> a \in d..(d + n - 1)
             /\ s + (a - d + 1) - 1 = s + (a - d)
  BY Memories
<1> QED
  BY <1>1, <1>2 DEF Put, Moved

-----------------------------------------------------------------------------
(* The string library: sequences *)

(* Prefixes of one length agree where their elements do. *)
LEMMA SamePrefix ==
    ASSUME NEW S, NEW q \in Seq(S), NEW t \in Seq(S),
           NEW k \in Nat, k <= Len(q), k <= Len(t)
    PROVE  SubSeq(q, 1, k) = SubSeq(t, 1, k) <=> \A i \in 1..k : q[i] = t[i]
<1>1. /\ Len(q) \in Nat /\ Len(t) \in Nat
      /\ \A i \in 1..k : q[i] \in S /\ t[i] \in S
  BY LenProperties, ElementOfSeq
<1>2. /\ SubSeq(q, 1, k) \in Seq(S) /\ SubSeq(t, 1, k) \in Seq(S)
      /\ Len(SubSeq(q, 1, k)) = k /\ Len(SubSeq(t, 1, k)) = k
      /\ \A i \in 1..k : SubSeq(q, 1, k)[i] = q[i] /\ SubSeq(t, 1, k)[i] = t[i]
  <2>1. 1 \in Int /\ k \in Int /\ (IF 1 <= k THEN (k - 1) + 1 ELSE 0) = k
        /\ \A i \in 1..((k - 1) + 1) : (1 + i) - 1 = i
    OBVIOUS
  <2>2. /\ SubSeq(q, 1, k) \in Seq(S)
        /\ Len(SubSeq(q, 1, k)) = IF 1 <= k THEN (k - 1) + 1 ELSE 0
        /\ \A i \in 1..((k - 1) + 1) : SubSeq(q, 1, k)[i] = q[(1 + i) - 1]
    BY <1>1, <2>1, SubSeqProperties
  <2>3. /\ SubSeq(t, 1, k) \in Seq(S)
        /\ Len(SubSeq(t, 1, k)) = IF 1 <= k THEN (k - 1) + 1 ELSE 0
        /\ \A i \in 1..((k - 1) + 1) : SubSeq(t, 1, k)[i] = t[(1 + i) - 1]
    BY <1>1, <2>1, SubSeqProperties
  <2> QED
    BY <2>1, <2>2, <2>3
<1> DEFINE x == SubSeq(q, 1, k)
           y == SubSeq(t, 1, k)
<1> HIDE DEF x, y
<1>3. x = y <=> \A i \in 1..k : q[i] = t[i]
  <2>1. x = [i \in 1..k |-> x[i]] /\ y = [i \in 1..k |-> y[i]]
    BY <1>2, LenProperties DEF x, y
  <2> QED
    BY <1>2, <2>1 DEF x, y
<1> QED
  BY <1>3 DEF x, y

(* A prefix, index by index. *)
LEMMA PrefixIs ==
    ASSUME NEW S, NEW q \in Seq(S), NEW t \in Seq(S)
    PROVE  IsPrefix(q, t) <=> Len(q) <= Len(t) /\ \A i \in 1..Len(q) : q[i] = t[i]
<1>1. Len(q) \in Nat /\ Len(t) \in Nat
  BY LenProperties
<1> QED
  BY <1>1, SamePrefix DEF IsPrefix

(* The first difference decides the order.                                 *)
LEMMA OrderIs ==
    ASSUME NEW q \in Seq(Nat), NEW t \in Seq(Nat),
           NEW k \in Nat, k <= Len(q), k <= Len(t), \A i \in 1..k : q[i] = t[i]
    PROVE  /\ k = Len(q) /\ k = Len(t) => Order(q, t) = 0
           /\ k = Len(q) /\ k < Len(t) => Order(q, t) = -1
           /\ k < Len(q) /\ k = Len(t) => Order(q, t) = 1
           /\ k < Len(q) /\ k < Len(t) /\ q[k + 1] < t[k + 1] => Order(q, t) = -1
           /\ k < Len(q) /\ k < Len(t) /\ q[k + 1] > t[k + 1] => Order(q, t) = 1
<1> DEFINE Differ(j) == SubSeq(q, 1, j - 1) = SubSeq(t, 1, j - 1) /\ q[j] < t[j]
           Both == DOMAIN q \cap DOMAIN t
<1>1. /\ Len(q) \in Nat /\ Len(t) \in Nat
      /\ DOMAIN q = 1..Len(q) /\ DOMAIN t = 1..Len(t)
      /\ \A i \in 1..Len(q) : q[i] \in Nat
      /\ \A i \in 1..Len(t) : t[i] \in Nat
      /\ q = [i \in 1..Len(q) |-> q[i]] /\ t = [i \in 1..Len(t) |-> t[i]]
  BY LenProperties, ElementOfSeq
<1>2. IsPrefix(q, t) <=> Len(q) <= Len(t) /\ \A i \in 1..Len(q) : q[i] = t[i]
  BY PrefixIs
<1>3. ASSUME NEW j \in Both
      PROVE  Differ(j) <=> (\A i \in 1..(j - 1) : q[i] = t[i]) /\ q[j] < t[j]
  <2>1. j - 1 \in Nat /\ j - 1 <= Len(q) /\ j - 1 <= Len(t)
    BY <1>1, <1>3
  <2> QED
    BY <2>1, SamePrefix
<1>4. Order(q, t) = IF q = t THEN 0
                    ELSE IF IsPrefix(q, t) \/ \E j \in Both : Differ(j) THEN -1 ELSE 1
  BY DEF Order
<1> HIDE DEF Differ
<1>5. ASSUME k = Len(q), k = Len(t) PROVE Order(q, t) = 0
  <2>1. q = t
    BY <1>1, <1>5
  <2> QED
    BY <1>4, <2>1
<1>6. ASSUME k = Len(q), k < Len(t) PROVE Order(q, t) = -1
  BY <1>1, <1>2, <1>4, <1>6
<1>7. ASSUME k < Len(q), k = Len(t) \/ (k < Len(t) /\ q[k + 1] > t[k + 1])
      PROVE  Order(q, t) = 1
  <2>1. q # t
    <3>1. k + 1 \in 1..Len(q) /\ (k < Len(t) => k + 1 \in 1..Len(t))
      BY <1>1, <1>7
    <3>2. k < Len(t) => q[k + 1] # t[k + 1]
      BY <1>1, <1>7, <3>1
    <3> QED
      BY <1>1, <1>7, <3>2
  <2>2. ~IsPrefix(q, t)
    <3>1. k + 1 \in 1..Len(q) /\ (k < Len(t) => k + 1 \in 1..Len(t))
      BY <1>1, <1>7
    <3> QED
      BY <1>1, <1>2, <1>7, <3>1
  <2>3. ASSUME NEW j \in Both, Differ(j) PROVE FALSE
    <3>1. (\A i \in 1..(j - 1) : q[i] = t[i]) /\ q[j] < t[j] /\ j \in 1..Len(q) /\ j \in 1..Len(t)
      BY <1>1, <1>3, <2>3
    <3>2. CASE j <= k
      <4>1. j \in 1..k
        BY <3>1, <3>2
      <4> QED
        BY <1>1, <3>1, <4>1
    <3>3. CASE j = k + 1
      BY <1>1, <1>7, <3>1, <3>3
    <3>4. CASE j > k + 1
      <4>1. k + 1 \in 1..(j - 1) /\ k + 1 \in 1..Len(q) /\ k + 1 \in 1..Len(t) /\ k < Len(t)
        BY <1>1, <3>1, <3>4
      <4> QED
        BY <1>1, <1>7, <3>1, <4>1
    <3> QED
      BY <1>1, <3>1, <3>2, <3>3, <3>4
  <2> QED
    BY <1>4, <2>1, <2>2, <2>3
<1>8. ASSUME k < Len(q), k < Len(t), q[k + 1] < t[k + 1] PROVE Order(q, t) = -1
  <2>1. k + 1 \in 1..Len(q) /\ k + 1 \in 1..Len(t) /\ (k + 1) - 1 = k
    BY <1>1, <1>8
  <2>2. Differ(k + 1) /\ k + 1 \in Both
    BY <1>1, <1>3, <1>8, <2>1
  <2>3. q # t
    BY <1>1, <1>8, <2>1
  <2> QED
    BY <1>4, <2>2, <2>3
<1> QED
  BY <1>1, <1>5, <1>6, <1>7, <1>8

-----------------------------------------------------------------------------
(* The string library: memory functions *)

(* A function on 1..n is a sequence of length n. *)
LEMMA FunctionSeq ==
    ASSUME NEW S, NEW n \in Nat, NEW q \in [1..n -> S]
    PROVE  q \in Seq(S) /\ Len(q) = n /\ DOMAIN q = 1..n
<1>1. q \in Seq(S)
  OBVIOUS
<1>2. Len(q) \in Nat /\ DOMAIN q = 1..Len(q) /\ DOMAIN q = 1..n
  BY <1>1, LenProperties
<1>3. Len(q) = n
  BY <1>2
<1> QED
  BY <1>1, <1>2, <1>3

(* Bytes of the memory. *)
LEMMA BytesIs ==
    ASSUME NEW m \in Memory, NEW s \in Nat, NEW n \in Nat, s >= 1, s + n - 1 <= MEM
    PROVE  /\ Bytes(m, s, n) \in Seq(Nat)
           /\ Len(Bytes(m, s, n)) = n
           /\ DOMAIN Bytes(m, s, n) = 1..n
           /\ \A i \in 1..n : /\ Bytes(m, s, n)[i] = m[s + i - 1]
                              /\ Bytes(m, s, n)[i] \in Nat
<1>1. ASSUME NEW i \in 1..n PROVE s + i - 1 \in Addr /\ m[s + i - 1] \in Nat
  <2>1. s + i - 1 \in Addr
    BY Memories
  <2> QED
    BY <2>1, Memories
<1>2. Bytes(m, s, n) \in [1..n -> Nat]
  BY <1>1 DEF Bytes
<1>3. \A i \in 1..n : Bytes(m, s, n)[i] = m[s + i - 1]
  BY DEF Bytes
<1>4. \A i \in 1..n : Bytes(m, s, n)[i] \in Nat
  BY <1>2
<1>5. PICK q : q = Bytes(m, s, n)
  OBVIOUS
<1>6. q \in Seq(Nat) /\ Len(q) = n /\ DOMAIN q = 1..n
  BY <1>2, <1>5, FunctionSeq
<1> QED
  BY <1>3, <1>4, <1>5, <1>6

(* What memmove and memcpy do to a memory.                                 *)
LEMMA MoveIs ==
    ASSUME NEW m \in Memory, NEW d, NEW s, NEW n \in Nat,
           d = NULLP \/ Within(d, n), s = NULLP \/ Within(s, n)
    PROVE  /\ memmove(m, d, s, n) = IF d = NULLP \/ s = NULLP THEN m
                                    ELSE Put(m, d, Bytes(m, s, n))
           /\ d = NULLP \/ s = NULLP \/ Apart(d, n, s, n) =>
                memcpy(m, d, s, n) = IF d = NULLP \/ s = NULLP THEN m
                                     ELSE Put(m, d, Bytes(m, s, n))
<1>1. CASE d = NULLP \/ s = NULLP
  BY <1>1 DEF memmove, memcpy
<1>2. CASE d # NULLP /\ s # NULLP
  <2>1. Fits(d, s, n) /\ d \in Nat /\ s \in Nat
    BY <1>2, Memories DEF Within, Fits
  <2>2. Put(m, d, Bytes(m, s, n)) = Moved(m, d, s, n)
    BY <2>1, PutBytes
  <2>3. d < s => memmove(m, d, s, n) = Moved(m, d, s, n)
    BY <1>2, <2>1, CopyUpMoves DEF memmove
  <2>4. d > s => memmove(m, d, s, n) = Moved(m, d, s, n)
    BY <1>2, <2>1, CopyDownMoves DEF memmove
  <2>5. d = s => memmove(m, d, s, n) = m /\ m = Moved(m, d, s, n)
    <3>1. \A a \in Addr : s + (a - s) = a
      BY <2>1, Memories
    <3>2. m = [a \in Addr |-> m[a]]
      BY DEF Memory
    <3>3. d = s => m = Moved(m, d, s, n)
      BY <3>1, <3>2 DEF Moved
    <3> QED
      BY <3>3 DEF memmove
  <2>6. Apart(d, n, s, n) => memcpy(m, d, s, n) = Moved(m, d, s, n)
    <3>1. Apart(d, n, s, n) => d <= s \/ s + n <= d
      BY <2>1 DEF Apart
    <3> QED
      BY <1>2, <2>1, <3>1, CopyUpMoves DEF memcpy
  <2> QED
    BY <1>2, <2>1, <2>2, <2>3, <2>4, <2>5, <2>6
<1> QED
  BY <1>1, <1>2

(* memset writes n copies of one byte. *)
LEMMA FillIs ==
    ASSUME NEW m \in Memory, NEW d \in Addr, NEW c, NEW n \in Nat
    PROVE  Fill(m, d, c, n) = Put(m, d, [k \in 1..n |-> Char(c)])
<1>1. \A a \in Addr : a - d + 1 \in 1..n <=> a \in d..(d + n - 1)
  BY Memories
<1> QED
  BY <1>1 DEF Fill, Put

(* memcmp is the order of the two blocks of bytes. *)
LEMMA MemcmpIs ==
    ASSUME NEW m \in Memory, NEW d, NEW s, NEW n \in Nat,
           d = NULLP \/ Within(d, n), s = NULLP \/ Within(s, n)
    PROVE  memcmp(m, d, s, n) = IF d = NULLP \/ s = NULLP THEN -1
                                ELSE Order(Bytes(m, d, n), Bytes(m, s, n))
<1>1. CASE d = NULLP \/ s = NULLP
  BY <1>1 DEF memcmp
<1>2. CASE d # NULLP /\ s # NULLP
  <2>0. /\ d \in Addr /\ d + n - 1 <= MEM /\ s \in Addr /\ s + n - 1 <= MEM
        /\ Addr = 1..MEM /\ MEM \in Nat
    BY <1>2, Memories DEF Within
  <2>1. /\ d \in Addr /\ d \in Nat /\ d >= 1 /\ d + n - 1 <= MEM
        /\ s \in Addr /\ s \in Nat /\ s >= 1 /\ s + n - 1 <= MEM
        /\ n \in 0..MEM /\ MEM \in Nat
    BY <2>0
  <2> DEFINE S == {i \in Nat : i = n \/ m[d + i] # m[s + i]}
             q == Bytes(m, d, n)
             t == Bytes(m, s, n)
  <2>2. PICK r \in 0..n : r \in S /\ \A j \in 0..(r - 1) : j \notin S
    <3>1. n \in S
      OBVIOUS
    <3> HIDE DEF S
    <3> QED
      BY <3>1, FirstStop
  <2>3. /\ r \in 0..MEM /\ (r = n \/ m[d + r] # m[s + r])
        /\ \A j \in 0..(r - 1) : ~(j = n \/ m[d + j] # m[s + j])
    BY <2>1, <2>2
  <2>4. Rounds(LAMBDA i : i = n \/ m[d + i] # m[s + i]) = r
    BY <2>1, <2>3 DEF Rounds
  <2>5. memcmp(m, d, s, n) = IF r = n THEN 0 ELSE Difference(m, d, s, r)
    BY <1>2, <2>4 DEF memcmp
  <2>61. /\ q \in Seq(Nat) /\ Len(q) = n
         /\ \A i \in 1..n : q[i] = m[d + i - 1] /\ q[i] \in Nat
    BY <2>1, BytesIs
  <2>62. /\ t \in Seq(Nat) /\ Len(t) = n
         /\ \A i \in 1..n : t[i] = m[s + i - 1] /\ t[i] \in Nat
    BY <2>1, BytesIs
  <2>6. /\ q \in Seq(Nat) /\ t \in Seq(Nat) /\ Len(q) = n /\ Len(t) = n
        /\ \A i \in 1..n : /\ q[i] = m[d + i - 1] /\ t[i] = m[s + i - 1]
                           /\ q[i] \in Nat /\ t[i] \in Nat
    BY <2>61, <2>62
  <2> HIDE DEF q, t
  <2>7. \A i \in 1..r : q[i] = t[i]
    <3>1. ASSUME NEW i \in 1..r PROVE q[i] = t[i]
      <4>1. i - 1 \in 0..(r - 1) /\ i \in 1..n /\ d + (i - 1) = d + i - 1 /\ s + (i - 1) = s + i - 1
        BY <2>1, <2>2
      <4>2. m[d + (i - 1)] = m[s + (i - 1)]
        BY <2>3, <4>1
      <4> QED
        BY <2>6, <4>1, <4>2
    <3> QED
      BY <3>1
  <2>8. CASE r = n
    BY <1>2, <2>1, <2>5, <2>6, <2>7, <2>8, OrderIs DEF q, t
  <2>9. CASE r # n
    <3>1. r + 1 \in 1..n /\ r < n /\ r \in Nat
      BY <2>1, <2>2, <2>9
    <3>2. d + (r + 1) - 1 = d + r /\ s + (r + 1) - 1 = s + r
      BY <2>1, <3>1
    <3>3. q[r + 1] = m[d + r] /\ t[r + 1] = m[s + r] /\ q[r + 1] \in Nat /\ t[r + 1] \in Nat
      BY <2>6, <3>1, <3>2
    <3>4. m[d + r] # m[s + r]
      BY <2>3, <2>9
    <3>5. Difference(m, d, s, r) = IF q[r + 1] < t[r + 1] THEN -1 ELSE 1
      BY <3>3, <3>4 DEF Difference
    <3>6. Order(q, t) = IF q[r + 1] < t[r + 1] THEN -1 ELSE 1
      <4>0. r \in Nat /\ r <= Len(q) /\ r <= Len(t) /\ r < Len(q) /\ r < Len(t)
        BY <2>6, <3>1
      <4>1. /\ q[r + 1] < t[r + 1] => Order(q, t) = -1
            /\ q[r + 1] > t[r + 1] => Order(q, t) = 1
        BY <2>6, <2>7, <4>0, OrderIs
      <4> QED
        BY <3>3, <3>4, <4>1
    <3> QED
      BY <1>2, <2>5, <2>9, <3>5, <3>6 DEF q, t
  <2> QED
    BY <2>8, <2>9
<1> QED
  BY <1>1, <1>2

-----------------------------------------------------------------------------
(* The string library: strings *)

(* The string at s has l bytes. *)
Span(m, s, l) ==
    /\ s \in Addr /\ l \in Nat /\ s + l <= MEM
    /\ m[s + l] = NUL
    /\ \A j \in 0..(l - 1) : m[s + j] # NUL

(* Every string has a length. *)
LEMMA StringHasLength ==
    ASSUME NEW m \in Memory, NEW s, IsString(m, s)
    PROVE  \E l : Span(m, s, l)
<1>1. PICK a \in s..MEM : m[a] = NUL
  BY DEF IsString
<1>2. s \in Addr /\ s \in Nat /\ MEM \in Nat
  BY Memories DEF IsString
<1> DEFINE k == a - s
           S == {i \in Nat : m[s + i] = NUL}
<1>3. k \in Nat /\ k \in S /\ s + k <= MEM
  BY <1>1, <1>2
<1>4. PICK r \in 0..k : r \in S /\ \A j \in 0..(r - 1) : j \notin S
  <2> HIDE DEF S, k
  <2> QED
    BY <1>3, FirstStop
<1>5. r \in Nat /\ s + r <= MEM /\ m[s + r] = NUL /\ \A j \in 0..(r - 1) : m[s + j] # NUL
  BY <1>2, <1>3, <1>4
<1> QED
  BY <1>2, <1>5 DEF Span

(* strlen finds it, and the bytes before the end are the string. *)
LEMMA SpanIs ==
    ASSUME NEW m \in Memory, NEW s, NEW l, Span(m, s, l)
    PROVE  /\ strlen(m, s) = l
           /\ Str(m, s) = Bytes(m, s, l)
           /\ Str(m, s) \in Seq(Nat) /\ Len(Str(m, s)) = l
           /\ \A i \in 1..l : /\ Str(m, s)[i] = m[s + i - 1] /\ Str(m, s)[i] # NUL
                              /\ Str(m, s)[i] \in Nat
<1>1. /\ s \in 1..MEM /\ s \in Nat /\ l \in Nat /\ l \in 0..MEM /\ s + l <= MEM /\ MEM \in Nat
      /\ m[s + l] = NUL /\ \A j \in 0..(l - 1) : m[s + j] # NUL
  BY Memories DEF Span
<1>2. \A k \in 0..MEM : m[s + k] = NUL /\ (\A j \in 0..(k - 1) : m[s + j] # NUL) => k = l
  BY <1>1
<1>3. strlen(m, s) = l
  BY <1>1, <1>2 DEF strlen, Rounds
<1>4. (CHOOSE k \in 0..MEM : m[s + k] = NUL /\ \A j \in 0..(k - 1) : m[s + j] # NUL) = l
  BY <1>1, <1>2
<1>5. Str(m, s) = Bytes(m, s, l)
  BY <1>4 DEF Str
<1>6. /\ Bytes(m, s, l) \in Seq(Nat) /\ Len(Bytes(m, s, l)) = l
      /\ \A i \in 1..l : Bytes(m, s, l)[i] = m[s + i - 1] /\ Bytes(m, s, l)[i] \in Nat
  <2>1. s >= 1 /\ s + l - 1 <= MEM
    BY <1>1
  <2> QED
    BY <1>1, <2>1, BytesIs
<1>7. ASSUME NEW i \in 1..l PROVE m[s + i - 1] # NUL
  <2>1. i - 1 \in 0..(l - 1) /\ s + (i - 1) = s + i - 1
    BY <1>1
  <2> QED
    BY <1>1, <2>1
<1> QED
  BY <1>3, <1>5, <1>6, <1>7

(* w is m but for the n bytes of q from d on. *)
Overlays(w, m, d, q, n) ==
    /\ d \in Int /\ n \in Nat /\ DOMAIN q = 1..n
    /\ w = [a \in Addr |-> w[a]]
    /\ \A a \in Addr : w[a] = IF a \in d..(d + n - 1) THEN q[a - d + 1] ELSE m[a]

(* That is what Put says. *)
LEMMA PutIs ==
    ASSUME NEW w, NEW m, NEW d, NEW q, NEW n, Overlays(w, m, d, q, n)
    PROVE  w = Put(m, d, q)
<1>1. \A a \in Addr : a - d + 1 \in 1..n <=> a \in d..(d + n - 1)
  BY Memories DEF Overlays
<1> QED
  BY <1>1 DEF Put, Overlays

(* strcpy copies the string with its end. *)
LEMMA StrcpyIs ==
    ASSUME NEW m \in Memory, NEW d, NEW s, NEW l, Span(m, s, l),
           Within(d, l + 1), Apart(d, l + 1, s, l + 1)
    PROVE  strcpy(m, d, s) = Put(m, d, Append(Str(m, s), NUL))
<1>1. /\ s \in Addr /\ s \in Nat /\ l \in Nat /\ s + l <= MEM /\ MEM \in Nat
      /\ d \in Addr /\ d \in Nat /\ d + (l + 1) - 1 <= MEM /\ m[s + l] = NUL
  BY Memories DEF Span, Within
<1>2. strcpy(m, d, s) = CopyUp(m, d, s, l + 1)
  BY SpanIs DEF strcpy
<1>3. CopyUp(m, d, s, l + 1) = Moved(m, d, s, l + 1)
  <2>1. Fits(d, s, l + 1) /\ (d <= s \/ s + (l + 1) <= d)
    BY <1>1 DEF Fits, Apart
  <2> QED
    BY <2>1, CopyUpMoves
<1> DEFINE q == Append(Str(m, s), NUL)
           w == Moved(m, d, s, l + 1)
<1>4. /\ DOMAIN q = 1..(l + 1)
      /\ \A i \in 1..(l + 1) : q[i] = m[s + i - 1]
  <2>1. /\ Str(m, s) \in Seq(Nat) /\ Len(Str(m, s)) = l /\ NUL \in Nat
        /\ \A i \in 1..l : Str(m, s)[i] = m[s + i - 1]
    BY SpanIs, Memories
  <2>2. /\ q \in Seq(Nat) /\ Len(q) = l + 1 /\ q[l + 1] = NUL
        /\ \A i \in 1..l : q[i] = Str(m, s)[i]
    BY <2>1, AppendProperties
  <2> HIDE DEF q
  <2>3. DOMAIN q = 1..(l + 1)
    BY <2>2, LenProperties
  <2>4. ASSUME NEW i \in 1..(l + 1) PROVE q[i] = m[s + i - 1]
    <3>1. i = l + 1 \/ i \in 1..l
      BY <1>1
    <3>2. s + (l + 1) - 1 = s + l
      BY <1>1
    <3> QED
      BY <1>1, <2>1, <2>2, <3>1, <3>2
  <2> QED
    BY <2>3, <2>4
<1>5. w = [a \in Addr |-> w[a]]
  BY DEF Moved
<1>6. ASSUME NEW a \in Addr
      PROVE  w[a] = IF a \in d..(d + (l + 1) - 1) THEN q[a - d + 1] ELSE m[a]
  <2>1. a \in d..(d + (l + 1) - 1) => /\ a - d + 1 \in 1..(l + 1)
                                      /\ s + (a - d + 1) - 1 = s + (a - d)
    BY <1>1, Memories
  <2> HIDE DEF q
  <2> QED
    BY <1>4, <2>1 DEF Moved
<1> HIDE DEF w, q
<1>7. w = Put(m, d, q)
  <2>1. l + 1 \in Nat /\ d \in Int
    BY <1>1
  <2>2. Overlays(w, m, d, q, l + 1)
    BY <2>1, <1>4, <1>5, <1>6 DEF Overlays
  <2> QED
    BY <2>2, PutIs
<1> QED
  BY <1>2, <1>3, <1>7 DEF w, q

(* The first n bytes of a string. *)
LEMMA CutIs ==
    ASSUME NEW q \in Seq(Nat), NEW n \in Nat,
           NEW k, k = IF n < Len(q) THEN n ELSE Len(q)
    PROVE  /\ Cut(q, n) \in Seq(Nat) /\ Len(Cut(q, n)) = k /\ k \in Nat
           /\ \A i \in 1..k : Cut(q, n)[i] = q[i]
           /\ n >= Len(q) => Cut(q, n) = q
<1>1. Len(q) \in Nat /\ k \in 0..Len(q) /\ \A i \in 1..k : q[i] \in Nat
  BY LenProperties, ElementOfSeq
<1>2. Cut(q, n) = SubSeq(q, 1, k)
  BY DEF Cut
<1>3. 1 \in Int /\ k \in Int /\ (IF 1 <= k THEN (k - 1) + 1 ELSE 0) = k
      /\ \A i \in 1..((k - 1) + 1) : (1 + i) - 1 = i
  BY <1>1
<1>4. /\ SubSeq(q, 1, k) \in Seq(Nat)
      /\ Len(SubSeq(q, 1, k)) = IF 1 <= k THEN (k - 1) + 1 ELSE 0
      /\ \A i \in 1..((k - 1) + 1) : SubSeq(q, 1, k)[i] = q[(1 + i) - 1]
  BY <1>1, <1>3, SubSeqProperties
<1>5. n >= Len(q) => SubSeq(q, 1, k) = q
  <2>1. n >= Len(q) => k = Len(q)
    BY <1>1
  <2> QED
    BY <2>1, SubSeqFull
<1>6. (k - 1) + 1 = k
  BY <1>1
<1> QED
  BY <1>1, <1>2, <1>3, <1>4, <1>5, <1>6

(* strncpy fills up with zeros. *)
LEMMA StrncpyIs ==
    ASSUME NEW m \in Memory, NEW d, NEW s, NEW l, Span(m, s, l), NEW n \in Nat,
           Within(d, n), Apart(d, n, s, l + 1)
    PROVE  LET q == Cut(Str(m, s), n)
           IN strncpy(m, d, s, n) = Put(m, d, q \o Zeros(n - Len(q)))
<1>1. /\ s \in Addr /\ s \in 1..MEM /\ s \in Nat /\ l \in Nat /\ s + l <= MEM /\ MEM \in Nat
      /\ d \in Addr /\ d \in Nat /\ d >= 1 /\ d + n - 1 <= MEM /\ m[s + l] = NUL
      /\ \A j \in 0..(l - 1) : m[s + j] # NUL
  BY Memories DEF Span, Within
<1> DEFINE k == IF n < l THEN n ELSE l
<1>2. k \in 0..MEM /\ k \in Nat /\ k <= n /\ k <= l /\ (k = n \/ m[s + k] = NUL)
      /\ \A j \in 0..(k - 1) : ~(j = n \/ m[s + j] = NUL)
  BY <1>1
<1> HIDE DEF k
<1>3. Rounds(LAMBDA i : i = n \/ m[s + i] = NUL) = k
  BY <1>2 DEF Rounds
<1>4. strncpy(m, d, s, n) = Fill(CopyUp(m, d, s, k), d + k, NUL, n - k)
  BY <1>3 DEF strncpy
<1>5. CopyUp(m, d, s, k) = Moved(m, d, s, k)
  <2>1. Fits(d, s, k) /\ (d <= s \/ s + k <= d)
    BY <1>1, <1>2 DEF Fits, Apart
  <2> QED
    BY <2>1, CopyUpMoves
<1> DEFINE c == Cut(Str(m, s), n)
           z == Zeros(n - k)
           q == c \o z
           w == Fill(Moved(m, d, s, k), d + k, NUL, n - k)
<1>6. /\ c \in Seq(Nat) /\ Len(c) = k
      /\ \A i \in 1..k : c[i] = m[s + i - 1]
  <2>1. /\ Str(m, s) \in Seq(Nat) /\ Len(Str(m, s)) = l
        /\ \A i \in 1..l : Str(m, s)[i] = m[s + i - 1]
    BY SpanIs
  <2>2. k = IF n < Len(Str(m, s)) THEN n ELSE Len(Str(m, s))
    BY <2>1 DEF k
  <2>3. /\ c \in Seq(Nat) /\ Len(c) = k
        /\ \A i \in 1..k : c[i] = Str(m, s)[i]
    BY <2>1, <2>2, CutIs
  <2>4. \A i \in 1..k : i \in 1..l
    BY <1>1, <1>2
  <2> QED
    BY <2>1, <2>3, <2>4
<1>7. z \in Seq(Nat) /\ Len(z) = n - k /\ \A i \in 1..(n - k) : z[i] = NUL
  <2>1. n - k \in Nat /\ z \in [1..(n - k) -> Nat]
    BY <1>2, Memories DEF Zeros
  <2>2. \A i \in 1..(n - k) : z[i] = NUL
    BY DEF Zeros
  <2> HIDE DEF z
  <2> QED
    BY <2>1, <2>2, FunctionSeq
<1> HIDE DEF c, z
<1>8. /\ DOMAIN q = 1..n
      /\ \A i \in 1..n : q[i] = IF i <= k THEN m[s + i - 1] ELSE NUL
  <2>1. /\ q \in Seq(Nat) /\ Len(q) = k + (n - k)
        /\ \A i \in 1..(k + (n - k)) : q[i] = IF i <= k THEN c[i] ELSE z[i - k]
    <3>1. /\ q \in Seq(Nat) /\ Len(q) = Len(c) + Len(z)
          /\ \A i \in 1..(Len(c) + Len(z)) : q[i] = IF i <= Len(c) THEN c[i] ELSE z[i - Len(c)]
      BY <1>6, <1>7, ConcatProperties
    <3> HIDE DEF q
    <3> QED
      BY <1>6, <1>7, <3>1
  <2>2. k + (n - k) = n
    BY <1>2
  <2> HIDE DEF q
  <2>3. DOMAIN q = 1..n
    BY <2>1, <2>2, LenProperties
  <2>4. ASSUME NEW i \in 1..n PROVE q[i] = IF i <= k THEN m[s + i - 1] ELSE NUL
    <3>1. (i <= k => i \in 1..k) /\ (~(i <= k) => i - k \in 1..(n - k))
      BY <1>2
    <3> QED
      BY <1>6, <1>7, <2>1, <2>2, <3>1
  <2> QED
    BY <2>3, <2>4
<1>9. w = [a \in Addr |-> w[a]]
  BY DEF Fill
<1>10. ASSUME NEW a \in Addr
       PROVE  w[a] = IF a \in d..(d + n - 1) THEN q[a - d + 1] ELSE m[a]
  <2>0. a \in Int
    BY Memories
  <2>1. w[a] = IF a \in (d + k)..((d + k) + (n - k) - 1) THEN NUL
               ELSE IF a \in d..(d + k - 1) THEN m[s + (a - d)] ELSE m[a]
    BY Memories DEF Fill, Moved
  <2>2. CASE a \in d..(d + n - 1)
    <3>1. /\ a - d + 1 \in 1..n /\ s + (a - d + 1) - 1 = s + (a - d)
          /\ a \in (d + k)..((d + k) + (n - k) - 1) <=> ~(a - d + 1 <= k)
          /\ a \in d..(d + k - 1) <=> a - d + 1 <= k
      BY <1>1, <1>2, <2>0, <2>2
    <3> HIDE DEF q, w
    <3> QED
      BY <1>8, <2>1, <2>2, <3>1
  <2>3. CASE a \notin d..(d + n - 1)
    <3>1. a \notin (d + k)..((d + k) + (n - k) - 1) /\ a \notin d..(d + k - 1)
      BY <1>1, <1>2, <2>0, <2>3
    <3> HIDE DEF q, w
    <3> QED
      BY <2>1, <2>3, <3>1
  <2> QED
    BY <2>2, <2>3
<1> HIDE DEF w, q
<1>11. w = Put(m, d, q)
  <2>1. d \in Int
    BY <1>1
  <2>2. Overlays(w, m, d, q, n)
    BY <2>1, <1>8, <1>9, <1>10 DEF Overlays
  <2> QED
    BY <2>2, PutIs
<1> QED
  BY <1>4, <1>5, <1>6, <1>11 DEF w, q, z, c

-----------------------------------------------------------------------------
(* Three sequences in a row. *)
LEMMA Associates ==
    ASSUME NEW p \in Seq(Nat), NEW q \in Seq(Nat), NEW t \in Seq(Nat)
    PROVE  p \o (q \o t) = (p \o q) \o t
<1>1. PICK x, y : x = q \o t /\ y = p \o q
  OBVIOUS
<1>2. /\ x \in Seq(Nat) /\ Len(x) = Len(q) + Len(t)
      /\ \A i \in 1..(Len(q) + Len(t)) : x[i] = IF i <= Len(q) THEN q[i] ELSE t[i - Len(q)]
  BY <1>1, ConcatProperties
<1>3. /\ y \in Seq(Nat) /\ Len(y) = Len(p) + Len(q)
      /\ \A i \in 1..(Len(p) + Len(q)) : y[i] = IF i <= Len(p) THEN p[i] ELSE q[i - Len(p)]
  BY <1>1, ConcatProperties
<1>4. PICK a, b : a = p \o x /\ b = y \o t
  OBVIOUS
<1>5. /\ a \in Seq(Nat) /\ Len(a) = Len(p) + Len(x)
      /\ \A i \in 1..(Len(p) + Len(x)) : a[i] = IF i <= Len(p) THEN p[i] ELSE x[i - Len(p)]
  <2>1. x \in Seq(Nat) /\ a = p \o x
    BY <1>2, <1>4
  <2> QED
    BY <2>1, ConcatProperties
<1>6. /\ b \in Seq(Nat) /\ Len(b) = Len(y) + Len(t)
      /\ \A i \in 1..(Len(y) + Len(t)) : b[i] = IF i <= Len(y) THEN y[i] ELSE t[i - Len(y)]
  <2>1. y \in Seq(Nat) /\ b = y \o t
    BY <1>3, <1>4
  <2> QED
    BY <2>1, ConcatProperties
<1>7. Len(p) \in Nat /\ Len(q) \in Nat /\ Len(t) \in Nat
  BY LenProperties
<1>8. ASSUME NEW i \in 1..Len(a) PROVE a[i] = b[i]
  <2>1. i \in 1..(Len(p) + Len(x)) /\ i \in 1..(Len(y) + Len(t)) /\ i \in Nat
    BY <1>2, <1>3, <1>5, <1>7
  <2>2. CASE i <= Len(p)
    <3>1. i \in 1..(Len(p) + Len(q)) /\ i <= Len(y)
      BY <1>3, <1>7, <2>1, <2>2
    <3> QED
      BY <1>3, <1>5, <1>6, <2>1, <2>2, <3>1
  <2>3. CASE i > Len(p) /\ i <= Len(y)
    <3>1. /\ i \in 1..(Len(p) + Len(q)) /\ i - Len(p) \in 1..(Len(q) + Len(t))
          /\ i - Len(p) <= Len(q) /\ ~(i <= Len(p))
      BY <1>3, <1>7, <2>1, <2>3
    <3> QED
      BY <1>2, <1>3, <1>5, <1>6, <2>1, <2>3, <3>1
  <2>4. CASE i > Len(y)
    <3>1. /\ i - Len(p) \in 1..(Len(q) + Len(t)) /\ ~(i - Len(p) <= Len(q))
          /\ ~(i <= Len(p)) /\ ~(i <= Len(y)) /\ (i - Len(p)) - Len(q) = i - Len(y)
      <4>1. PICK u \in Nat, v \in Nat, z \in Nat : u = Len(p) /\ v = Len(q) /\ z = Len(t)
        BY <1>7
      <4>2. Len(y) = u + v /\ i \in 1..((u + v) + z)
        BY <1>3, <2>1, <4>1
      <4>3. i > u + v
        BY <2>4, <4>2
      <4> QED
        BY <4>1, <4>2, <4>3
    <3> QED
      BY <1>2, <1>5, <1>6, <2>1, <3>1
  <2> QED
    BY <1>3, <1>7, <2>1, <2>2, <2>3, <2>4
<1>9. a = b
  <2>1. Len(a) = Len(b)
    BY <1>2, <1>3, <1>5, <1>6, <1>7
  <2> QED
    BY <1>5, <1>6, <1>8, <2>1, SeqEqual
<1> QED
  BY <1>1, <1>4, <1>9

(* What is put at the end of a string is put behind it. *)
LEMMA PutJoins ==
    ASSUME NEW m \in Memory, NEW d, NEW l, Span(m, d, l), NEW c \in Seq(Nat)
    PROVE  Put(m, d + l, c) = Put(m, d, Str(m, d) \o c)
<1>1. d \in Addr /\ d \in Nat /\ d \in Int /\ l \in Nat
  BY Memories DEF Span
<1>2. PICK n : n = Len(c)
  OBVIOUS
<1>3. n \in Nat /\ DOMAIN c = 1..n
  BY <1>2, LenProperties
<1>4. PICK p : p = Str(m, d)
  OBVIOUS
<1>5. /\ p \in Seq(Nat) /\ Len(p) = l
      /\ \A i \in 1..l : p[i] = m[d + i - 1]
  BY <1>4, SpanIs
<1> DEFINE q == p \o c
           w == Put(m, d + l, c)
<1>6. /\ DOMAIN q = 1..(l + n)
      /\ \A i \in 1..(l + n) : q[i] = IF i <= l THEN m[d + i - 1] ELSE c[i - l]
  <2>1. /\ q \in Seq(Nat) /\ Len(q) = Len(p) + Len(c)
        /\ \A i \in 1..(Len(p) + Len(c)) : q[i] = IF i <= Len(p) THEN p[i] ELSE c[i - Len(p)]
    BY <1>5, ConcatProperties
  <2> HIDE DEF q
  <2>2. Len(q) = l + n /\ DOMAIN q = 1..(l + n)
    BY <1>2, <1>5, <2>1, LenProperties
  <2>3. ASSUME NEW i \in 1..(l + n)
        PROVE  q[i] = IF i <= l THEN m[d + i - 1] ELSE c[i - l]
    <3>1. i <= l => i \in 1..l
      BY <1>1, <1>3
    <3> QED
      BY <1>2, <1>5, <2>1, <3>1
  <2> QED
    BY <2>2, <2>3
<1>7. w = [a \in Addr |-> w[a]]
  BY DEF Put
<1>8. ASSUME NEW a \in Addr
      PROVE  w[a] = IF a \in d..(d + (l + n) - 1) THEN q[a - d + 1] ELSE m[a]
  <2>1. a \in Nat
    BY Memories
  <2>2. w[a] = IF a - (d + l) + 1 \in 1..n THEN c[a - (d + l) + 1] ELSE m[a]
    BY <1>3 DEF Put
  <2>3. CASE a \in d..(d + (l + n) - 1)
    <3>1. /\ a - d + 1 \in 1..(l + n) /\ d + (a - d + 1) - 1 = a
          /\ a - (d + l) + 1 = (a - d + 1) - l
          /\ a - (d + l) + 1 \in 1..n <=> ~(a - d + 1 <= l)
      BY <1>1, <1>3, <2>1, <2>3
    <3> HIDE DEF q, w
    <3> QED
      BY <1>6, <2>2, <2>3, <3>1
  <2>4. CASE a \notin d..(d + (l + n) - 1)
    <3>1. a - (d + l) + 1 \notin 1..n
      BY <1>1, <1>3, <2>1, <2>4
    <3> HIDE DEF q, w
    <3> QED
      BY <2>2, <2>4, <3>1
  <2> QED
    BY <2>3, <2>4
<1> HIDE DEF w, q
<1>9. w = Put(m, d, q)
  <2>1. l + n \in Nat
    BY <1>1, <1>3
  <2>2. Overlays(w, m, d, q, l + n)
    BY <1>1, <1>6, <1>7, <1>8, <2>1 DEF Overlays
  <2> QED
    BY <2>2, PutIs
<1> QED
  BY <1>4, <1>9 DEF w, q

(* strcat copies to the end of the string. *)
LEMMA StrcatIs ==
    ASSUME NEW m \in Memory, NEW d, NEW s, NEW k, NEW l, Span(m, d, k), Span(m, s, l),
           Within(d + k, l + 1), Apart(d, (d + k) + l + 1 - d, s, l + 1)
    PROVE  strcat(m, d, s) = Put(m, d, Append(Str(m, d) \o Str(m, s), NUL))
<1>1. d \in Nat /\ k \in Nat /\ s \in Nat /\ l \in Nat
  BY Memories DEF Span
<1>2. strcat(m, d, s) = strcpy(m, d + k, s)
  BY SpanIs DEF strcat
<1>3. Apart(d + k, l + 1, s, l + 1)
  BY <1>1 DEF Apart
<1>4. strcpy(m, d + k, s) = Put(m, d + k, Append(Str(m, s), NUL))
  BY <1>3, StrcpyIs
<1>5. PICK p, t, z : p = Str(m, d) /\ t = Str(m, s) /\ z = NUL
  OBVIOUS
<1>6. p \in Seq(Nat) /\ t \in Seq(Nat) /\ z \in Nat
  BY <1>5, SpanIs, Memories
<1>7. Append(t, z) \in Seq(Nat)
  BY <1>6, AppendProperties
<1>8. Put(m, d + k, Append(t, z)) = Put(m, d, p \o Append(t, z))
  BY <1>5, <1>7, PutJoins
<1>9. p \o Append(t, z) = Append(p \o t, z)
  <2>1. <<z>> \in Seq(Nat) /\ p \o t \in Seq(Nat)
    BY <1>6, ConcatProperties
  <2>2. Append(t, z) = t \o <<z>> /\ Append(p \o t, z) = (p \o t) \o <<z>>
    BY <1>6, <2>1, AppendIsConcat
  <2> QED
    BY <1>6, <2>1, <2>2, Associates
<1> QED
  BY <1>2, <1>4, <1>5, <1>8, <1>9

(* strncat puts one NUL behind the bytes it appends, or two. *)
LEMMA StrncatIs ==
    ASSUME NEW m \in Memory, NEW d, NEW s, NEW h, NEW l, Span(m, d, h), Span(m, s, l),
           NEW n \in Nat, NEW k, k = IF n <= l THEN n ELSE l + 1,
           Within(d + h, k + 1), Apart(d, (d + h) + l + 2 - d, s, l + 1)
    PROVE  LET q == Str(m, d) \o Cut(Str(m, s), n)
           IN \E i \in 1..2 : strncat(m, d, s, n) = Put(m, d, q \o Zeros(i))
<1> DEFINE e == d + h
           j == IF n <= l THEN 1 ELSE 2
           v == IF n < l THEN n ELSE l
<1>1. /\ s \in Addr /\ s \in 1..MEM /\ s \in Nat /\ l \in Nat /\ s + l <= MEM /\ MEM \in Nat
      /\ d \in Nat /\ d >= 1 /\ h \in Nat /\ m[s + l] = NUL
      /\ \A i \in 0..(l - 1) : m[s + i] # NUL
  <2>1. d \in Addr /\ h \in Nat /\ Addr = 1..MEM /\ MEM \in Nat
    BY Memories DEF Span
  <2>2. s \in Addr /\ l \in Nat /\ s + l <= MEM /\ m[s + l] = NUL
        /\ \A i \in 0..(l - 1) : m[s + i] # NUL
    BY DEF Span
  <2> QED
    BY <2>1, <2>2
<1>2. /\ k \in 0..MEM /\ k \in Nat /\ k <= n /\ k <= l + 1
      /\ v \in Nat /\ v <= l /\ v <= k /\ j \in 1..2 /\ v + j = k + 1 /\ (v < k => v = l)
  BY <1>1
<1>3. e \in Addr /\ e \in Nat /\ e \in Int /\ e + (k + 1) - 1 <= MEM /\ e + k \in Addr
  <2>1. e \in Addr /\ e + (k + 1) - 1 <= MEM
    BY DEF Within
  <2> HIDE DEF e
  <2> QED
    BY <1>1, <1>2, <2>1 DEF Addr
<1> HIDE DEF j, v
<1>4. k = n \/ (k > 0 /\ m[s + k - 1] = NUL)
  <2>1. k # n => k = l + 1
    BY <1>1
  <2>2. s + (l + 1) - 1 = s + l
    BY <1>1
  <2> QED
    BY <1>1, <2>1, <2>2
<1>5. ASSUME NEW i \in 0..(k - 1) PROVE ~(i = n \/ (i > 0 /\ m[s + i - 1] = NUL))
  <2>1. i # n /\ (i > 0 => i - 1 \in 0..(l - 1) /\ s + (i - 1) = s + i - 1)
    BY <1>1, <1>2
  <2> QED
    BY <1>1, <2>1
<1>6. Rounds(LAMBDA i : i = n \/ (i > 0 /\ m[s + i - 1] = NUL)) = k
  <2>1. \A r \in 0..MEM : (r = n \/ (r > 0 /\ m[s + r - 1] = NUL)) /\
            (\A i \in 0..(r - 1) : ~(i = n \/ (i > 0 /\ m[s + i - 1] = NUL))) => r = k
    BY <1>2, <1>4, <1>5
  <2> QED
    BY <1>2, <1>4, <1>5, <2>1 DEF Rounds
<1> DEFINE w == [CopyUp(m, e, s, k) EXCEPT ![e + k] = NUL]
<1>7. strncat(m, d, s, n) = w
  BY <1>6, SpanIs DEF strncat
<1>8. CopyUp(m, e, s, k) = Moved(m, e, s, k)
  <2>1. Apart(d, e + l + 2 - d, s, l + 1)
    OBVIOUS
  <2>2. e <= s \/ s + k <= e
    <3>1. e >= d
      BY <1>1
    <3> HIDE DEF e
    <3> QED
      BY <1>1, <1>2, <1>3, <2>1, <3>1 DEF Apart
  <2>3. Fits(e, s, k)
    <3> HIDE DEF e
    <3> QED
      BY <1>1, <1>2, <1>3 DEF Fits
  <2> HIDE DEF e
  <2> QED
    BY <2>2, <2>3, CopyUpMoves
<1> HIDE DEF e
<1>9. w = [a \in Addr |-> w[a]] /\ \A a \in Addr : w[a] = IF a = e + k THEN NUL
                                                        ELSE IF a \in e..(e + k - 1) THEN m[s + (a - e)] ELSE m[a]
  BY <1>3, <1>8 DEF Moved
<1> HIDE DEF w
<1> DEFINE c == Cut(Str(m, s), n)
           z == Zeros(j)
           q == c \o z
<1>10. /\ c \in Seq(Nat) /\ Len(c) = v
       /\ \A i \in 1..v : c[i] = m[s + i - 1]
  <2>1. /\ Str(m, s) \in Seq(Nat) /\ Len(Str(m, s)) = l
        /\ \A i \in 1..l : Str(m, s)[i] = m[s + i - 1]
    BY SpanIs
  <2>2. v = IF n < Len(Str(m, s)) THEN n ELSE Len(Str(m, s))
    BY <2>1 DEF v
  <2>3. /\ c \in Seq(Nat) /\ Len(c) = v
        /\ \A i \in 1..v : c[i] = Str(m, s)[i]
    BY <2>1, <2>2, CutIs
  <2>4. \A i \in 1..v : i \in 1..l
    BY <1>1, <1>2
  <2> QED
    BY <2>1, <2>3, <2>4
<1>11. z \in Seq(Nat) /\ Len(z) = j /\ \A i \in 1..j : z[i] = NUL
  <2>1. j \in Nat /\ z \in [1..j -> Nat]
    BY <1>2, Memories DEF Zeros
  <2>2. \A i \in 1..j : z[i] = NUL
    BY DEF Zeros
  <2> HIDE DEF z
  <2> QED
    BY <2>1, <2>2, FunctionSeq
<1> HIDE DEF c, z
<1>12. /\ q \in Seq(Nat) /\ DOMAIN q = 1..(k + 1)
       /\ \A i \in 1..(k + 1) : q[i] = IF i <= v THEN m[s + i - 1] ELSE NUL
  <2>1. /\ q \in Seq(Nat) /\ Len(q) = Len(c) + Len(z)
        /\ \A i \in 1..(Len(c) + Len(z)) : q[i] = IF i <= Len(c) THEN c[i] ELSE z[i - Len(c)]
    BY <1>10, <1>11, ConcatProperties
  <2> HIDE DEF q
  <2>2. Len(c) + Len(z) = k + 1
    BY <1>2, <1>10, <1>11
  <2>3. DOMAIN q = 1..(k + 1)
    BY <2>1, <2>2, LenProperties
  <2>4. ASSUME NEW i \in 1..(k + 1) PROVE q[i] = IF i <= v THEN m[s + i - 1] ELSE NUL
    <3>1. (i <= v => i \in 1..v) /\ (~(i <= v) => i - v \in 1..j)
      BY <1>2
    <3> QED
      BY <1>10, <1>11, <2>1, <2>2, <3>1
  <2> QED
    BY <2>1, <2>3, <2>4
<1> HIDE DEF q
<1>13. ASSUME NEW a \in Addr
       PROVE  w[a] = IF a \in e..(e + (k + 1) - 1) THEN q[a - e + 1] ELSE m[a]
  <2>0. a \in Int
    BY Memories
  <2>1. CASE a = e + k
    <3>1. /\ a \in e..(e + (k + 1) - 1) /\ a - e + 1 = k + 1 /\ k + 1 \in 1..(k + 1)
      BY <1>2, <1>3, <2>1
    <3>2. ~(k + 1 <= v)
      BY <1>2
    <3> QED
      BY <1>9, <1>12, <2>1, <3>1, <3>2
  <2>2. CASE a \in e..(e + k - 1)
    <3>1. /\ a \in e..(e + (k + 1) - 1) /\ a - e + 1 \in 1..(k + 1) /\ a # e + k
          /\ s + (a - e + 1) - 1 = s + (a - e)
      BY <1>1, <1>2, <1>3, <2>2
    <3>2. ~(a - e + 1 <= v) => m[s + (a - e)] = NUL
      <4>1. ASSUME ~(a - e + 1 <= v) PROVE s + (a - e) = s + l
        BY <1>1, <1>2, <1>3, <2>2, <4>1
      <4> QED
        BY <1>1, <4>1
    <3> QED
      BY <1>9, <1>12, <2>2, <3>1, <3>2
  <2>3. CASE a # e + k /\ a \notin e..(e + k - 1)
    <3>1. a \notin e..(e + (k + 1) - 1)
      BY <1>2, <1>3, <2>0, <2>3
    <3> QED
      BY <1>9, <2>3, <3>1
  <2> QED
    BY <2>1, <2>2, <2>3
<1>14. w = Put(m, e, q)
  <2>1. k + 1 \in Nat
    BY <1>2
  <2>2. Overlays(w, m, e, q, k + 1)
    BY <1>3, <1>9, <1>12, <1>13, <2>1 DEF Overlays
  <2> QED
    BY <2>2, PutIs
<1>15. Put(m, e, q) = Put(m, d, Str(m, d) \o q)
  BY <1>12, PutJoins DEF e
<1>16. Str(m, d) \o q = (Str(m, d) \o c) \o z
  <2>1. Str(m, d) \in Seq(Nat)
    BY SpanIs
  <2> QED
    BY <1>10, <1>11, <2>1, Associates DEF q
<1>17. strncat(m, d, s, n) = Put(m, d, (Str(m, d) \o c) \o z)
  BY <1>7, <1>14, <1>15, <1>16
<1> QED
  BY <1>2, <1>17 DEF c, z

-----------------------------------------------------------------------------
(* The string library: comparisons *)

(* Where two strings part, their bytes tell the order of their first n.    *)
LEMMA PartsDecide ==
    ASSUME NEW m \in Memory, NEW s, NEW t, NEW a, NEW b, Span(m, s, a), Span(m, t, b),
           NEW n \in Nat, NEW r \in Nat, r < n,
           \A j \in 0..(r - 1) : Same(m, s, t, j),
           r = n - 1 \/ ~Same(m, s, t, r)
    PROVE  Sign(m[s + r] - m[t + r]) = Order(Cut(Str(m, s), n), Cut(Str(m, t), n))
<1>1. /\ s \in Nat /\ a \in Nat /\ m[s + a] = NUL /\ t \in Nat /\ b \in Nat /\ m[t + b] = NUL
      /\ \A j \in 0..(a - 1) : m[s + j] # NUL
      /\ \A j \in 0..(b - 1) : m[t + j] # NUL
      /\ s >= 1 /\ s + a <= MEM /\ t >= 1 /\ t + b <= MEM /\ Addr = 1..MEM /\ MEM \in Nat
  BY Memories DEF Span
<1>2. r <= a /\ r <= b
  <2>1. \A j \in 0..(r - 1) : m[s + j] # NUL /\ m[t + j] # NUL
    BY DEF Same
  <2>2. a \notin 0..(r - 1) /\ b \notin 0..(r - 1)
    BY <1>1, <2>1
  <2> QED
    BY <1>1, <2>2
<1>3. m[s + r] \in Nat /\ m[t + r] \in Nat
  <2>1. s + r \in Addr /\ t + r \in Addr
    BY <1>1, <1>2
  <2> QED
    BY <2>1, Memories
<1>4. PICK q, p, u, v : /\ q = Cut(Str(m, s), n) /\ p = Cut(Str(m, t), n)
                        /\ u = (IF n < a THEN n ELSE a) /\ v = (IF n < b THEN n ELSE b)
  OBVIOUS
<1>5. /\ q \in Seq(Nat) /\ Len(q) = u
      /\ \A i \in 1..u : q[i] = m[s + i - 1]
  <2>1. /\ Str(m, s) \in Seq(Nat) /\ Len(Str(m, s)) = a
        /\ \A i \in 1..a : Str(m, s)[i] = m[s + i - 1]
    BY SpanIs
  <2>2. u = IF n < Len(Str(m, s)) THEN n ELSE Len(Str(m, s))
    BY <1>4, <2>1
  <2>3. /\ q \in Seq(Nat) /\ Len(q) = u
        /\ \A i \in 1..u : q[i] = Str(m, s)[i]
    BY <1>4, <2>1, <2>2, CutIs
  <2>4. \A i \in 1..u : i \in 1..a
    BY <1>1, <1>4
  <2> QED
    BY <2>1, <2>3, <2>4
<1>6. /\ p \in Seq(Nat) /\ Len(p) = v
      /\ \A i \in 1..v : p[i] = m[t + i - 1]
  <2>1. /\ Str(m, t) \in Seq(Nat) /\ Len(Str(m, t)) = b
        /\ \A i \in 1..b : Str(m, t)[i] = m[t + i - 1]
    BY SpanIs
  <2>2. v = IF n < Len(Str(m, t)) THEN n ELSE Len(Str(m, t))
    BY <1>4, <2>1
  <2>3. /\ p \in Seq(Nat) /\ Len(p) = v
        /\ \A i \in 1..v : p[i] = Str(m, t)[i]
    BY <1>4, <2>1, <2>2, CutIs
  <2>4. \A i \in 1..v : i \in 1..b
    BY <1>1, <1>4
  <2> QED
    BY <2>1, <2>3, <2>4
<1>7. u \in Nat /\ v \in Nat /\ r <= u /\ r <= v
  BY <1>1, <1>2, <1>4
<1>8. ASSUME NEW i \in 1..r PROVE q[i] = p[i]
  <2>1. /\ i \in 1..u /\ i \in 1..v /\ i - 1 \in 0..(r - 1)
        /\ s + (i - 1) = s + i - 1 /\ t + (i - 1) = t + i - 1
    BY <1>1, <1>7
  <2>2. m[s + (i - 1)] = m[t + (i - 1)]
    BY <2>1 DEF Same
  <2> QED
    BY <1>5, <1>6, <2>1, <2>2
<1>9. /\ r < u => q[r + 1] = m[s + r]
      /\ r < v => p[r + 1] = m[t + r]
  <2>1. s + (r + 1) - 1 = s + r /\ t + (r + 1) - 1 = t + r
    BY <1>1
  <2>2. (r < u => r + 1 \in 1..u) /\ (r < v => r + 1 \in 1..v)
    BY <1>7
  <2> QED
    BY <1>5, <1>6, <2>1, <2>2
<1>10. /\ r = u <=> r = a
       /\ r = v <=> r = b
  BY <1>1, <1>4
<1>11. /\ r = u /\ r = v => Order(q, p) = 0
       /\ r = u /\ r < v => Order(q, p) = -1
       /\ r < u /\ r = v => Order(q, p) = 1
       /\ r < u /\ r < v /\ q[r + 1] < p[r + 1] => Order(q, p) = -1
       /\ r < u /\ r < v /\ q[r + 1] > p[r + 1] => Order(q, p) = 1
  BY <1>5, <1>6, <1>7, <1>8, OrderIs
<1>12. /\ r = a => m[s + r] = 0
       /\ r = b => m[t + r] = 0
       /\ r < a => m[s + r] # 0
       /\ r < b => m[t + r] # 0
  BY <1>1 DEF NUL
<1>13. CASE r = u \/ r = v \/ m[s + r] # m[t + r]
  <2>1. PICK x \in Nat, y \in Nat : x = m[s + r] /\ y = m[t + r]
    BY <1>3
  <2>2. Sign(x - y) = IF x = y THEN 0 ELSE IF x < y THEN -1 ELSE 1
    BY DEF Sign
  <2>3. /\ r = u => x = 0
        /\ r = v => y = 0
        /\ r < u => x > 0 /\ q[r + 1] = x
        /\ r < v => y > 0 /\ p[r + 1] = y
    BY <1>1, <1>2, <1>7, <1>9, <1>10, <1>12, <2>1
  <2>4. Sign(x - y) = Order(q, p)
    <3>1. CASE r = u /\ r = v
      BY <1>11, <2>2, <2>3, <3>1
    <3>2. CASE r = u /\ r < v
      BY <1>11, <2>2, <2>3, <3>2
    <3>3. CASE r < u /\ r = v
      BY <1>11, <2>2, <2>3, <3>3
    <3>4. CASE r < u /\ r < v
      BY <1>11, <1>13, <2>1, <2>2, <2>3, <3>4
    <3> QED
      BY <1>7, <3>1, <3>2, <3>3, <3>4
  <2> QED
    BY <1>4, <2>1, <2>4
<1>14. CASE r < u /\ r < v /\ m[s + r] = m[t + r]
  <2>1. Same(m, s, t, r)
    BY <1>1, <1>2, <1>7, <1>10, <1>12, <1>14 DEF Same, NUL
  <2>2. r + 1 = n /\ n = u /\ n = v
    BY <1>1, <1>4, <1>14, <2>1
  <2>3. \A i \in 1..n : q[i] = p[i]
    <3>1. \A i \in 1..n : i \in 1..r \/ i = r + 1
      BY <2>2
    <3> QED
      BY <1>8, <1>9, <1>14, <3>1
  <2>4. Order(q, p) = 0
    <3>1. n <= Len(q) /\ n <= Len(p) /\ n = Len(q) /\ n = Len(p)
      BY <1>5, <1>6, <1>7, <2>2
    <3> QED
      BY <1>5, <1>6, <2>3, <3>1, OrderIs
  <2>5. m[s + r] - m[t + r] = 0
    BY <1>3, <1>14
  <2> QED
    BY <1>4, <2>4, <2>5 DEF Sign
<1> QED
  BY <1>7, <1>13, <1>14

(* strcmp orders strings. *)
LEMMA StrcmpIs ==
    ASSUME NEW m \in Memory, NEW s, NEW t, NEW a, NEW b, Span(m, s, a), Span(m, t, b)
    PROVE  Sign(strcmp(m, s, t)) = Order(Str(m, s), Str(m, t))
<1>1. /\ s \in Nat /\ a \in Nat /\ m[s + a] = NUL /\ t \in Nat /\ b \in Nat
      /\ s + a <= MEM /\ MEM \in Nat /\ s >= 1
  BY Memories DEF Span
<1> DEFINE S == {i \in Nat : ~Same(m, s, t, i)}
<1>2. PICK r \in 0..a : r \in S /\ \A j \in 0..(r - 1) : j \notin S
  <2>1. a \in S
    BY <1>1 DEF Same
  <2> HIDE DEF S
  <2> QED
    BY <1>1, <2>1, FirstStop
<1>3. /\ r \in Nat /\ r \in 0..MEM /\ ~Same(m, s, t, r)
      /\ \A j \in 0..(r - 1) : Same(m, s, t, j)
  BY <1>1, <1>2
<1>4. Rounds(LAMBDA i : ~Same(m, s, t, i)) = r
  BY <1>3 DEF Rounds
<1>5. strcmp(m, s, t) = m[s + r] - m[t + r]
  BY <1>4 DEF strcmp
<1> DEFINE n == (a + b) + (r + 1)
<1>6. n \in Nat /\ r < n /\ n >= a /\ n >= b
  BY <1>1, <1>3
<1> HIDE DEF n
<1>7. Sign(m[s + r] - m[t + r]) = Order(Cut(Str(m, s), n), Cut(Str(m, t), n))
  BY <1>3, <1>6, PartsDecide
<1>8. Cut(Str(m, s), n) = Str(m, s) /\ Cut(Str(m, t), n) = Str(m, t)
  <2>1. PICK q \in Seq(Nat), p \in Seq(Nat) :
          q = Str(m, s) /\ p = Str(m, t) /\ Len(q) = a /\ Len(p) = b
    BY SpanIs
  <2>2. n >= Len(q) => Cut(q, n) = q
    BY <1>6, CutIs
  <2>3. n >= Len(p) => Cut(p, n) = p
    BY <1>6, CutIs
  <2> QED
    BY <1>6, <2>1, <2>2, <2>3
<1> QED
  BY <1>5, <1>7, <1>8

(* strncmp orders what is left of them when they are cut. *)
LEMMA StrncmpIs ==
    ASSUME NEW m \in Memory, NEW s, NEW t, NEW a, NEW b, Span(m, s, a), Span(m, t, b),
           NEW n \in Nat
    PROVE  Sign(strncmp(m, s, t, n)) = Order(Cut(Str(m, s), n), Cut(Str(m, t), n))
<1>1. /\ s \in Nat /\ a \in Nat /\ m[s + a] = NUL /\ t \in Nat /\ b \in Nat
      /\ s + a <= MEM /\ MEM \in Nat /\ s >= 1
  BY Memories DEF Span
<1>2. CASE n = 0
  <2>1. PICK q \in Seq(Nat), p \in Seq(Nat) :
          q = Str(m, s) /\ p = Str(m, t) /\ Len(q) = a /\ Len(p) = b
    BY SpanIs
  <2>2. Cut(q, 0) = <<>> /\ Cut(p, 0) = <<>>
    <3>1. \A l \in Nat : (IF 0 < l THEN 0 ELSE l) = 0
      OBVIOUS
    <3>2. Cut(q, 0) = SubSeq(q, 1, 0) /\ Cut(p, 0) = SubSeq(p, 1, 0)
      BY <1>1, <2>1, <3>1 DEF Cut
    <3> QED
      BY <3>2, SubSeqEmpty
  <2>3. Order(<<>>, <<>>) = 0 /\ Sign(0) = 0
    BY DEF Order, Sign
  <2> QED
    BY <1>2, <2>1, <2>2, <2>3 DEF strncmp
<1>3. CASE n # 0
  <2> DEFINE S == {i \in Nat : i = n - 1 \/ ~Same(m, s, t, i)}
  <2>1. PICK k \in 0..a : k <= n - 1 /\ k \in S
    <3>1. a \in S /\ (n - 1 \in S)
      BY <1>1, <1>3 DEF Same
    <3>2. IF a <= n - 1 THEN a \in 0..a /\ a <= n - 1
          ELSE n - 1 \in 0..a /\ n - 1 <= n - 1
      BY <1>1, <1>3
    <3> QED
      BY <3>1, <3>2
  <2>2. PICK r \in 0..k : r \in S /\ \A j \in 0..(r - 1) : j \notin S
    <3> HIDE DEF S
    <3> QED
      BY <2>1, FirstStop
  <2>3. /\ r \in Nat /\ r \in 0..MEM /\ r < n /\ (r = n - 1 \/ ~Same(m, s, t, r))
        /\ \A j \in 0..(r - 1) : ~(j = n - 1 \/ ~Same(m, s, t, j))
    BY <1>1, <2>1, <2>2
  <2>4. Rounds(LAMBDA i : i = n - 1 \/ ~Same(m, s, t, i)) = r
    BY <2>3 DEF Rounds
  <2>5. strncmp(m, s, t, n) = m[s + r] - m[t + r]
    BY <1>3, <2>4 DEF strncmp
  <2> QED
    BY <2>3, <2>5, PartsDecide
<1> QED
  BY <1>2, <1>3

-----------------------------------------------------------------------------
(* The string library: searches *)

(* The first and the last of some addresses. *)
LEMMA ExtremeIs ==
    ASSUME NEW S \in SUBSET Nat, NEW x \in S
    PROVE  /\ (\A y \in S : x <= y) => First(S) = x
           /\ (\A y \in S : y <= x) => Hindmost(S) = x
<1>1. ASSUME \A y \in S : x <= y PROVE Min(S) = x
  <2>1. \A z \in S : (\A y \in S : z <= y) => z = x
    BY <1>1
  <2> QED
    BY <1>1, <2>1 DEF Min
<1>2. ASSUME \A y \in S : y <= x PROVE Max(S) = x
  <2>1. \A z \in S : (\A y \in S : z >= y) => z = x
    BY <1>2
  <2>2. \A y \in S : x >= y
    BY <1>2
  <2> QED
    BY <2>1, <2>2 DEF Max
<1> QED
  BY <1>1, <1>2 DEF First, Hindmost

(* strchr finds the first address that holds the byte. *)
LEMMA StrchrIs ==
    ASSUME NEW m \in Memory, NEW s, NEW l, Span(m, s, l), NEW c
    PROVE  strchr(m, s, c) = First(Holding(m, s, c))
<1>1. /\ s \in Nat /\ s >= 1 /\ l \in Nat /\ s + l <= MEM /\ MEM \in Nat /\ m[s + l] = NUL
      /\ \A j \in 0..(l - 1) : m[s + j] # NUL
  BY Memories DEF Span
<1>2. Holding(m, s, c) = {a \in s..(s + l) : m[a] = Char(c)}
  BY SpanIs DEF Holding
<1> DEFINE S == {i \in Nat : m[s + i] \in {NUL, Char(c)}}
<1>3. PICK r \in 0..l : r \in S /\ \A j \in 0..(r - 1) : j \notin S
  <2>1. l \in S
    BY <1>1
  <2> HIDE DEF S
  <2> QED
    BY <1>1, <2>1, FirstStop
<1>4. /\ r \in 0..MEM /\ m[s + r] \in {NUL, Char(c)}
      /\ \A j \in 0..(r - 1) : ~(m[s + j] \in {NUL, Char(c)})
  BY <1>1, <1>3
<1>5. Rounds(LAMBDA i : m[s + i] \in {NUL, Char(c)}) = r
  BY <1>4 DEF Rounds
<1>6. strchr(m, s, c) = IF m[s + r] = Char(c) THEN s + r ELSE NULLP
  BY <1>5 DEF strchr
<1> DEFINE H == {a \in s..(s + l) : m[a] = Char(c)}
<1>7. \A a \in H : a - s \in 0..l /\ s + (a - s) = a /\ ~(a - s < r)
  <2>1. ASSUME NEW a \in s..(s + l), m[a] = Char(c)
        PROVE  a - s \in 0..l /\ s + (a - s) = a /\ ~(a - s < r)
    <3>1. a - s \in 0..l /\ s + (a - s) = a
      BY <1>1
    <3>2. a - s < r => a - s \in 0..(r - 1)
      BY <1>3, <3>1
    <3> QED
      BY <1>4, <2>1, <3>1, <3>2
  <2> QED
    BY <2>1
<1>8. CASE m[s + r] = Char(c)
  <2>1. s + r \in H
    BY <1>1, <1>3, <1>8
  <2>2. \A a \in H : s + r <= a
    BY <1>1, <1>3, <1>7
  <2>3. H \in SUBSET Nat
    BY <1>1
  <2> HIDE DEF H
  <2>4. First(H) = s + r
    BY <2>1, <2>2, <2>3, ExtremeIs
  <2> QED
    BY <1>2, <1>6, <1>8, <2>4 DEF H
<1>9. CASE m[s + r] # Char(c)
  <2>1. r = l
    BY <1>1, <1>3, <1>4, <1>9
  <2>2. H = {}
    <3>1. \A a \in H : FALSE
      BY <1>1, <1>7, <1>9, <2>1
    <3> QED
      BY <3>1
  <2> QED
    BY <1>2, <1>6, <1>9, <2>2 DEF First
<1> QED
  BY <1>8, <1>9

(* strrchr finds the last one. *)
LEMMA StrrchrIs ==
    ASSUME NEW m \in Memory, NEW s, NEW l, Span(m, s, l), NEW c
    PROVE  strrchr(m, s, c) = Hindmost(Holding(m, s, c))
<1>1. /\ s \in Nat /\ s >= 1 /\ l \in Nat /\ s + l <= MEM /\ MEM \in Nat /\ m[s + l] = NUL
      /\ Addr = 1..MEM
  BY Memories DEF Span
<1> DEFINE H(k) == {a \in s..(s + k - 1) : m[a] = Char(c)}
           V == {NULLP} \cup Addr
           h == [k \in 0..l |-> Hindmost(H(k))]
           g == [k \in 1..l |-> [v \in V |-> IF m[s + k - 1] = Char(c) THEN s + k - 1 ELSE v]]
<1>2. ASSUME NEW k \in 1..l
      PROVE  /\ m[s + k - 1] = Char(c) => Hindmost(H(k)) = s + k - 1
             /\ m[s + k - 1] # Char(c) => H(k) = H(k - 1)
  <2>1. k \in Nat /\ s + k - 1 \in s..(s + k - 1) /\ s + (k - 1) - 1 = s + k - 2
    BY <1>1
  <2>2. ASSUME m[s + k - 1] = Char(c) PROVE Hindmost(H(k)) = s + k - 1
    <3>1. H(k) \in SUBSET Nat /\ s + k - 1 \in H(k) /\ \A y \in H(k) : y <= s + k - 1
      BY <1>1, <2>1, <2>2
    <3> HIDE DEF H
    <3> QED
      BY <3>1, ExtremeIs
  <2>3. ASSUME m[s + k - 1] # Char(c) PROVE H(k) = H(k - 1)
    <3>1. \A a \in s..(s + k - 1) : a = s + k - 1 \/ a \in s..(s + (k - 1) - 1)
      BY <1>1, <2>1
    <3>2. \A a \in s..(s + (k - 1) - 1) : a \in s..(s + k - 1)
      BY <1>1, <2>1
    <3> QED
      BY <2>3, <3>1, <3>2
  <2> QED
    BY <2>2, <2>3
<1>3. H(0) = {} /\ Hindmost(H(0)) = NULLP
  <2>1. H(0) = {}
    BY <1>1
  <2> QED
    BY <2>1 DEF Hindmost
<1>4. h[0] = NULLP /\ \A k \in 1..l : h[k] = IF m[s + k - 1] = Char(c) THEN s + k - 1 ELSE h[k - 1]
  <2>1. 0 \in 0..l /\ \A k \in 1..l : k \in 0..l /\ k - 1 \in 0..l
    BY <1>1
  <2>2. \A k \in 0..l : h[k] = Hindmost(H(k))
    OBVIOUS
  <2> HIDE DEF H, h
  <2> QED
    BY <1>2, <1>3, <2>1, <2>2
<1> DEFINE last[k \in 0..l] == IF k = 0 THEN NULLP
                               ELSE IF m[s + k - 1] = Char(c) THEN s + k - 1 ELSE last[k - 1]
<1>5. last = [k \in 0..l |-> IF k = 0 THEN NULLP
                             ELSE IF m[s + k - 1] = Char(c) THEN s + k - 1 ELSE last[k - 1]]
  <2>1. h = [k \in 0..l |-> h[k]]
    OBVIOUS
  <2>2. \A k \in 0..l : k = 0 \/ k \in 1..l
    BY <1>1
  <2> HIDE DEF h
  <2>3. h = [k \in 0..l |-> IF k = 0 THEN NULLP
                            ELSE IF m[s + k - 1] = Char(c) THEN s + k - 1 ELSE h[k - 1]]
    BY <1>4, <2>1, <2>2
  <2> QED
    BY <2>3
<1>6. Unrolls(h, l, V, NULLP, g)
  <2>0. h \in [0..l -> V]
    <3> DEFINE S == {k \in Nat : k <= l => h[k] \in V}
    <3>1. 0 \in S
      BY <1>4
    <3>2. ASSUME NEW k \in S PROVE k + 1 \in S
      <4>1. k \in Nat /\ (k + 1) - 1 = k
        OBVIOUS
      <4>2. ASSUME k + 1 <= l PROVE h[k + 1] \in V
        <5>1. k + 1 \in 1..l /\ h[k] \in V /\ s + (k + 1) - 1 \in Addr
          BY <1>1, <4>1, <4>2
        <5>2. h[k + 1] = IF m[s + (k + 1) - 1] = Char(c) THEN s + (k + 1) - 1 ELSE h[k]
          <6> HIDE DEF h
          <6> QED
            BY <1>4, <4>1, <5>1
        <5> QED
          BY <5>1, <5>2
      <4> QED
        BY <4>1, <4>2
    <3>3. S = Nat
      <4> HIDE DEF S
      <4>1. S \in SUBSET Nat
        BY DEF S
      <4> QED
        BY <3>1, <3>2, <4>1, Induct
    <3>4. ASSUME NEW k \in 0..l PROVE h[k] \in V
      <4>1. k \in Nat /\ k <= l
        BY <1>1
      <4>2. k \in S
        <5> HIDE DEF S
        <5> QED
          BY <3>3, <4>1
      <4> QED
        BY <4>1, <4>2
    <3>5. h = [k \in 0..l |-> h[k]]
      OBVIOUS
    <3> HIDE DEF h
    <3> QED
      BY <3>4, <3>5
  <2>1. ASSUME NEW k \in 1..l PROVE h[k] = g[k][h[k - 1]]
    <3>1. k - 1 \in 0..l
      BY <1>1
    <3>2. h[k - 1] \in V
      BY <2>0, <3>1
    <3> HIDE DEF h
    <3> QED
      BY <1>4, <3>2
  <2> HIDE DEF h, g, V
  <2> QED
    BY <1>4, <2>0, <2>1 DEF Unrolls
<1>7. last[0] = NULLP /\ \A k \in 1..l : last[k - 1] \in V => last[k] = g[k][last[k - 1]]
  <2>1. 0 \in 0..l /\ \A k \in 1..l : k \in 0..l /\ k # 0
    BY <1>1
  <2> HIDE DEF last
  <2>2. last[0] = NULLP
    BY <1>5, <2>1
  <2>3. ASSUME NEW k \in 1..l, last[k - 1] \in V PROVE last[k] = g[k][last[k - 1]]
    <3>1. last[k] = IF m[s + k - 1] = Char(c) THEN s + k - 1 ELSE last[k - 1]
      BY <1>5, <2>1
    <3> QED
      BY <2>3, <3>1
  <2> QED
    BY <2>2, <2>3
<1>8. last[l] = h[l]
  <2>1. NULLP \in V /\ l \in 0..l
    BY <1>1
  <2> HIDE DEF last, g, h, V
  <2>2. \A k \in 0..l : last[k] = h[k]
    BY <1>1, <1>6, <1>7, <2>1, Unique
  <2> QED
    BY <2>1, <2>2
<1>9. h[l] = Hindmost(H(l))
  BY <1>1
<1>10. strrchr(m, s, c) = IF Char(c) = NUL THEN s + l ELSE last[l]
  <2> DEFINE R(x) == LET f[k \in 0..x] == IF k = 0 THEN NULLP
                                          ELSE IF m[s + k - 1] = Char(c) THEN s + k - 1 ELSE f[k - 1]
                     IN IF Char(c) = NUL THEN s + x ELSE f[x]
  <2>1. strrchr(m, s, c) = R(strlen(m, s))
    BY DEF strrchr
  <2>2. R(l) = IF Char(c) = NUL THEN s + l ELSE last[l]
    OBVIOUS
  <2>3. strlen(m, s) = l
    BY SpanIs
  <2> HIDE DEF R, last, h, g, H, V
  <2> QED
    BY <2>1, <2>2, <2>3
<1>11. Holding(m, s, c) = {a \in s..(s + l) : m[a] = Char(c)}
  BY SpanIs DEF Holding
<1>12. CASE Char(c) = NUL
  <2> DEFINE T == {a \in s..(s + l) : m[a] = Char(c)}
  <2>1. s + l \in T /\ T \in SUBSET Nat /\ \A a \in T : a <= s + l
    BY <1>1, <1>12
  <2> HIDE DEF T
  <2>2. Hindmost(T) = s + l
    BY <2>1, ExtremeIs
  <2> QED
    BY <1>10, <1>11, <1>12, <2>2 DEF T
<1>13. CASE Char(c) # NUL
  <2>1. {a \in s..(s + l) : m[a] = Char(c)} = H(l)
    <3>1. \A a \in s..(s + l) : a = s + l \/ a \in s..(s + l - 1)
      BY <1>1
    <3>2. \A a \in s..(s + l - 1) : a \in s..(s + l)
      BY <1>1
    <3> QED
      BY <1>1, <1>13, <3>1, <3>2
  <2> HIDE DEF last, h, H
  <2> QED
    BY <1>8, <1>9, <1>10, <1>11, <1>13, <2>1
<1> QED
  BY <1>12, <1>13

-----------------------------------------------------------------------------
(* The inner loop of strstr comes to the end of the needle where the       *)
(* needle is a prefix.                                                     *)
LEMMA MatchesIs ==
    ASSUME NEW m \in Memory, NEW h, NEW t, NEW a, NEW b, Span(m, h, a), Span(m, t, b)
    PROVE  Matches(m, h, t) <=> IsPrefix(Str(m, t), Str(m, h))
<1>1. /\ h \in Nat /\ a \in Nat /\ m[h + a] = NUL /\ t \in Nat /\ b \in Nat /\ m[t + b] = NUL
      /\ \A j \in 0..(a - 1) : m[h + j] # NUL
      /\ \A j \in 0..(b - 1) : m[t + j] # NUL
      /\ h >= 1 /\ h + a <= MEM /\ t >= 1 /\ t + b <= MEM /\ MEM \in Nat
  BY Memories DEF Span
<1> DEFINE S == {i \in Nat : m[h + i] = NUL \/ m[t + i] = NUL \/ m[h + i] # m[t + i]}
<1>2. PICK r \in 0..a : r \in S /\ \A j \in 0..(r - 1) : j \notin S
  <2>1. a \in S
    BY <1>1
  <2> HIDE DEF S
  <2> QED
    BY <1>1, <2>1, FirstStop
<1>3. /\ r \in Nat /\ r \in 0..MEM /\ r <= a
      /\ m[h + r] = NUL \/ m[t + r] = NUL \/ m[h + r] # m[t + r]
      /\ \A j \in 0..(r - 1) :
            ~(m[h + j] = NUL \/ m[t + j] = NUL \/ m[h + j] # m[t + j])
  BY <1>1, <1>2
<1>4. Rounds(LAMBDA i : m[h + i] = NUL \/ m[t + i] = NUL \/ m[h + i] # m[t + i]) = r
  BY <1>3 DEF Rounds
<1>5. Matches(m, h, t) <=> m[t + r] = NUL
  BY <1>4 DEF Matches
<1>6. r <= b
  <2>1. b \notin 0..(r - 1)
    BY <1>1, <1>3
  <2> QED
    BY <1>1, <1>3, <2>1
<1>7. PICK q \in Seq(Nat), p \in Seq(Nat) : q = Str(m, t) /\ p = Str(m, h)
  BY SpanIs
<1>8. /\ q \in Seq(Nat) /\ Len(q) = b
      /\ \A i \in 1..b : q[i] = m[t + i - 1]
  BY <1>7, SpanIs
<1>9. /\ p \in Seq(Nat) /\ Len(p) = a
      /\ \A i \in 1..a : p[i] = m[h + i - 1]
  BY <1>7, SpanIs
<1>10. IsPrefix(q, p) <=> b <= a /\ \A i \in 1..b : q[i] = p[i]
  <2>1. IsPrefix(q, p) <=> Len(q) <= Len(p) /\ \A i \in 1..Len(q) : q[i] = p[i]
    BY PrefixIs
  <2> QED
    BY <1>8, <1>9, <2>1
<1>11. CASE r = b
  <2>1. ASSUME NEW i \in 1..b PROVE q[i] = p[i]
    <3>1. /\ i - 1 \in 0..(r - 1) /\ i \in 1..a
          /\ t + (i - 1) = t + i - 1 /\ h + (i - 1) = h + i - 1
      BY <1>1, <1>3, <1>11
    <3>2. m[h + (i - 1)] = m[t + (i - 1)]
      BY <1>3, <3>1
    <3> QED
      BY <1>8, <1>9, <3>1, <3>2
  <2> QED
    BY <1>1, <1>3, <1>5, <1>7, <1>10, <1>11, <2>1
<1>12. CASE r # b
  <2>1. r < b /\ m[t + r] # NUL
    BY <1>1, <1>3, <1>6, <1>12
  <2>2. ASSUME b <= a, \A i \in 1..b : q[i] = p[i] PROVE FALSE
    <3>1. /\ r + 1 \in 1..b /\ r + 1 \in 1..a /\ r \in 0..(a - 1)
          /\ t + (r + 1) - 1 = t + r /\ h + (r + 1) - 1 = h + r
      BY <1>1, <1>3, <2>1, <2>2
    <3>2. m[h + r] = m[t + r]
      BY <1>8, <1>9, <2>2, <3>1
    <3> QED
      BY <1>1, <1>3, <2>1, <3>1, <3>2
  <2> QED
    BY <1>5, <1>7, <1>10, <2>1, <2>2
<1> QED
  BY <1>11, <1>12

(* What is left of a string is a string. *)
LEMMA SuffixIs ==
    ASSUME NEW m \in Memory, NEW s, NEW l, Span(m, s, l), NEW j \in 0..l
    PROVE  /\ Span(m, s + j, l - j)
           /\ Str(m, s + j) = SubSeq(Str(m, s), j + 1, l)
<1>1. /\ s \in Nat /\ l \in Nat /\ m[s + l] = NUL /\ s >= 1 /\ s + l <= MEM /\ MEM \in Nat
      /\ \A i \in 0..(l - 1) : m[s + i] # NUL
      /\ Addr = 1..MEM
  <2>1. /\ s \in Addr /\ l \in Nat /\ m[s + l] = NUL /\ s + l <= MEM
        /\ \A i \in 0..(l - 1) : m[s + i] # NUL
    BY DEF Span
  <2>2. MEM \in Nat /\ Addr = 1..MEM
    BY Memories
  <2> QED
    BY <2>1, <2>2
<1>2. Span(m, s + j, l - j)
  <2>1. s + j \in Addr /\ l - j \in Nat /\ (s + j) + (l - j) <= MEM /\ (s + j) + (l - j) = s + l
    BY <1>1
  <2>2. ASSUME NEW i \in 0..((l - j) - 1) PROVE m[(s + j) + i] # NUL
    <3>1. j + i \in 0..(l - 1) /\ (s + j) + i = s + (j + i)
      BY <1>1
    <3> QED
      BY <1>1, <3>1
  <2> QED
    BY <1>1, <2>1, <2>2 DEF Span
<1>3. PICK q, p : q = Str(m, s) /\ p = Str(m, s + j)
  OBVIOUS
<1>4. /\ q \in Seq(Nat) /\ Len(q) = l
      /\ \A i \in 1..l : q[i] = m[s + i - 1] /\ q[i] \in Nat
  BY <1>3, SpanIs
<1>5. /\ p \in Seq(Nat) /\ Len(p) = l - j
      /\ \A i \in 1..(l - j) : p[i] = m[(s + j) + i - 1]
  <2>1. PICK x, y : x = s + j /\ y = l - j
    OBVIOUS
  <2>2. Span(m, x, y) /\ p = Str(m, x)
    BY <1>2, <1>3, <2>1
  <2>3. p \in Seq(Nat) /\ Len(p) = y /\ \A i \in 1..y : p[i] = m[x + i - 1]
    BY <2>2, SpanIs
  <2> QED
    BY <2>1, <2>3
<1>6. PICK z : z = SubSeq(q, j + 1, l)
  OBVIOUS
<1>7. /\ z \in Seq(Nat) /\ Len(z) = l - j
      /\ \A i \in 1..(l - j) : z[i] = q[j + i]
  <2>1. PICK x \in Int, y \in Int : x = j + 1 /\ y = l
    BY <1>1
  <2>2. \A i \in x..y : q[i] \in Nat
    <3>1. \A i \in x..y : i \in 1..l
      BY <1>1, <2>1
    <3> QED
      BY <1>4, <3>1
  <2>3. /\ SubSeq(q, x, y) \in Seq(Nat)
        /\ Len(SubSeq(q, x, y)) = IF x <= y THEN (y - x) + 1 ELSE 0
        /\ \A i \in 1..((y - x) + 1) : SubSeq(q, x, y)[i] = q[(x + i) - 1]
    BY <2>2, SubSeqProperties
  <2>4. /\ (IF x <= y THEN (y - x) + 1 ELSE 0) = l - j
        /\ (y - x) + 1 = l - j
        /\ \A i \in 1..(l - j) : (x + i) - 1 = j + i
    BY <1>1, <2>1
  <2> QED
    BY <1>6, <2>1, <2>3, <2>4
<1>8. p = z
  <2>1. ASSUME NEW i \in 1..Len(p) PROVE p[i] = z[i]
    <3>1. i \in 1..(l - j) /\ j + i \in 1..l /\ s + (j + i) - 1 = (s + j) + i - 1
      BY <1>1, <1>5
    <3> QED
      BY <1>4, <1>5, <1>7, <3>1
  <2> QED
    BY <1>5, <1>7, <2>1, SeqEqual
<1> QED
  BY <1>2, <1>3, <1>6, <1>8

(* strstr finds the first address at which the needle lies. *)
LEMMA StrstrIs ==
    ASSUME NEW m \in Memory, NEW s, NEW t, NEW a, NEW b, Span(m, s, a), Span(m, t, b),
           NEW h, NEW p, h = Str(m, s), p = Str(m, t)
    PROVE  strstr(m, s, t) =
             First({s + k : k \in {j \in 0..Len(h) : IsPrefix(p, SubSeq(h, j + 1, Len(h)))}})
<1>1. /\ s \in Nat /\ a \in Nat /\ m[s + a] = NUL /\ t \in Nat /\ b \in Nat /\ m[t + b] = NUL
      /\ \A j \in 0..(a - 1) : m[s + j] # NUL
      /\ \A j \in 0..(b - 1) : m[t + j] # NUL
      /\ s >= 1 /\ s + a <= MEM /\ t >= 1 /\ t + b <= MEM /\ MEM \in Nat
  BY Memories DEF Span
<1>2. h \in Seq(Nat) /\ Len(h) = a /\ p \in Seq(Nat) /\ Len(p) = b
  BY SpanIs
<1> DEFINE J == {j \in 0..a : IsPrefix(p, SubSeq(h, j + 1, a))}
           H == {s + k : k \in J}
<1>3. ASSUME NEW j \in 0..a
      PROVE  /\ Matches(m, s + j, t) <=> j \in J
             /\ j \in J => b <= a - j
             /\ b = 0 => j \in J
  <2>1. Span(m, s + j, a - j) /\ Str(m, s + j) = SubSeq(h, j + 1, a)
    BY SuffixIs
  <2>2. PICK x, y : x = s + j /\ y = a - j
    OBVIOUS
  <2>3. Span(m, x, y) /\ Str(m, x) = SubSeq(h, j + 1, a)
    BY <2>1, <2>2
  <2>4. Matches(m, x, t) <=> IsPrefix(p, Str(m, x))
    BY <2>3, MatchesIs
  <2>5. Str(m, x) \in Seq(Nat) /\ Len(Str(m, x)) = y
    BY <2>3, SpanIs
  <2>6. IsPrefix(p, Str(m, x)) <=> b <= y /\ \A i \in 1..b : p[i] = Str(m, x)[i]
    <3>1. PICK q \in Seq(Nat) : q = Str(m, x)
      BY <2>5
    <3>2. p \in Seq(Nat)
      BY <1>2
    <3>3. IsPrefix(p, q) <=> Len(p) <= Len(q) /\ \A i \in 1..Len(p) : p[i] = q[i]
      BY <3>2, PrefixIs
    <3> QED
      BY <1>2, <2>5, <3>1, <3>3
  <2>7. b = 0 => b <= y /\ 1..b = {}
    BY <1>1, <2>2
  <2> QED
    BY <2>2, <2>3, <2>4, <2>6, <2>7
<1>4. H \in SUBSET Nat
  BY <1>1
<1>5. {s + k : k \in {j \in 0..Len(h) : IsPrefix(p, SubSeq(h, j + 1, Len(h)))}} = H
  BY <1>2
<1> HIDE DEF J
<1>6. J \subseteq 0..a
  BY DEF J
<1>7. CASE b = 0
  <2>1. 0 \in J /\ s + 0 = s
    BY <1>1, <1>3, <1>7
  <2>2. s \in H /\ \A x \in H : s <= x
    BY <1>1, <1>6, <2>1
  <2> HIDE DEF H
  <2>3. First(H) = s
    BY <1>4, <2>2, ExtremeIs
  <2>4. t + b = t
    BY <1>1, <1>7
  <2> QED
    BY <1>1, <1>5, <2>3, <2>4 DEF strstr
<1>8. CASE b # 0
  <2>1. m[t] # NUL
    <3>1. 0 \in 0..(b - 1) /\ t + 0 = t
      BY <1>1, <1>8
    <3> QED
      BY <1>1, <3>1
  <2> DEFINE S == {i \in Nat : m[s + i] = NUL \/ Matches(m, s + i, t)}
  <2>2. PICK r \in 0..a : r \in S /\ \A j \in 0..(r - 1) : j \notin S
    <3>1. a \in S
      BY <1>1
    <3> HIDE DEF S
    <3> QED
      BY <1>1, <3>1, FirstStop
  <2>3. /\ r \in Nat /\ r \in 0..MEM /\ r <= a
        /\ m[s + r] = NUL \/ Matches(m, s + r, t)
        /\ \A j \in 0..(r - 1) : ~(m[s + j] = NUL \/ Matches(m, s + j, t))
    BY <1>1, <2>2
  <2>4. Rounds(LAMBDA i : m[s + i] = NUL \/ Matches(m, s + i, t)) = r
    BY <2>3 DEF Rounds
  <2>5. strstr(m, s, t) = IF m[s + r] = NUL THEN NULLP ELSE s + r
    BY <2>1, <2>4 DEF strstr
  <2>6. \A j \in J : j \in 0..a /\ ~(j < r) /\ b <= a - j
    <3>1. ASSUME NEW j \in J PROVE j \in 0..a /\ ~(j < r) /\ b <= a - j
      <4>1. j \in 0..a /\ Matches(m, s + j, t) /\ b <= a - j
        BY <1>3, <1>6
      <4>2. j < r => j \in 0..(r - 1)
        BY <2>3, <4>1
      <4> QED
        BY <2>3, <4>1, <4>2
    <3> QED
      BY <3>1
  <2>7. CASE m[s + r] = NUL
    <3>1. r = a
      BY <1>1, <2>3, <2>7
    <3>2. J = {}
      <4>1. ASSUME NEW j \in J PROVE FALSE
        BY <1>1, <1>8, <2>6, <3>1
      <4> QED
        BY <4>1
    <3>3. H = {}
      BY <3>2
    <3> HIDE DEF H
    <3> QED
      BY <1>5, <2>5, <2>7, <3>3 DEF First
  <2>8. CASE m[s + r] # NUL
    <3>1. r \in J
      BY <1>3, <2>2, <2>3, <2>8
    <3>2. s + r \in H /\ \A x \in H : s + r <= x
      BY <1>1, <2>3, <2>6, <3>1
    <3> HIDE DEF H
    <3>3. First(H) = s + r
      BY <1>4, <3>2, ExtremeIs
    <3> QED
      BY <1>5, <2>5, <2>8, <3>3
  <2> QED
    BY <2>7, <2>8
<1> QED
  BY <1>1, <1>7, <1>8

-----------------------------------------------------------------------------
(* The k outermost bytes on each side of the l bytes at s have been        *)
(* exchanged.                                                              *)
Turned(m, s, l, k) ==
    [a \in Addr |-> IF a \in s..(s + k - 1) \/ a \in (s + l - k)..(s + l - 1)
                    THEN m[((s + s) + l) - (a + 1)] ELSE m[a]]

(* reverse_str exchanges them all. *)
LEMMA TurnsAll ==
    ASSUME NEW m \in Memory, NEW s, NEW l, Span(m, s, l)
    PROVE  reverse_str(m, s) = Turned(m, s, l, l \div 2)
<1>1. /\ s \in Nat /\ s >= 1 /\ l \in Nat /\ s + l <= MEM /\ MEM \in Nat /\ Addr = 1..MEM
  BY Memories DEF Span
<1>2. PICK n \in Nat : n = l \div 2 /\ n + n <= l /\ l <= (n + n) + 1
  BY <1>1
<1> DEFINE h == [k \in 0..n |-> Turned(m, s, l, k)]
           g == [k \in 1..n |-> [v \in Memory |->
                    [v EXCEPT ![s + k - 1] = v[s + l - k], ![s + l - k] = v[s + k - 1]]]]
<1>3. ASSUME NEW k \in 0..n PROVE Turned(m, s, l, k) \in Memory
  <2>1. ASSUME NEW a \in Addr
        PROVE  (IF a \in s..(s + k - 1) \/ a \in (s + l - k)..(s + l - 1)
                THEN m[((s + s) + l) - (a + 1)] ELSE m[a]) \in 0..(BYTE - 1)
    <3>1. a \in s..(s + k - 1) \/ a \in (s + l - k)..(s + l - 1) => ((s + s) + l) - (a + 1) \in Addr
      BY <1>1, <1>2
    <3> QED
      BY <3>1, Memories
  <2> QED
    BY <2>1 DEF Turned, Memory
<1>4. Turned(m, s, l, 0) = m
  <2>1. \A a \in Addr : a \notin s..(s + 0 - 1) /\ a \notin (s + l - 0)..(s + l - 1)
    BY <1>1
  <2>2. m = [a \in Addr |-> m[a]]
    BY DEF Memory
  <2> QED
    BY <2>1, <2>2 DEF Turned
<1>5. ASSUME NEW k \in 1..n, NEW v, v = Turned(m, s, l, k - 1)
      PROVE  Turned(m, s, l, k) =
                [v EXCEPT ![s + k - 1] = v[s + l - k], ![s + l - k] = v[s + k - 1]]
  <2>1. /\ k \in Nat /\ s + k - 1 \in Addr /\ s + l - k \in Addr /\ s + k - 1 # s + l - k
        /\ k - 1 \in 0..n /\ k \in 0..n /\ k + k <= l
    BY <1>1, <1>2
  <2>2. v[s + l - k] = m[s + l - k] /\ v[s + k - 1] = m[s + k - 1]
    <3>1. /\ s + l - k \notin s..(s + (k - 1) - 1)
          /\ s + l - k \notin (s + l - (k - 1))..(s + l - 1)
          /\ s + k - 1 \notin s..(s + (k - 1) - 1)
          /\ s + k - 1 \notin (s + l - (k - 1))..(s + l - 1)
      BY <1>1, <2>1
    <3> QED
      BY <1>5, <2>1, <3>1 DEF Turned
  <2>3. ASSUME NEW a \in Addr
        PROVE  Turned(m, s, l, k)[a] =
                 IF a = s + l - k THEN m[s + k - 1]
                 ELSE IF a = s + k - 1 THEN m[s + l - k] ELSE v[a]
    <3>0. a \in Nat
      BY Memories
    <3>1. CASE a = s + l - k
      <4>1. a \in (s + l - k)..(s + l - 1) /\ ((s + s) + l) - (a + 1) = s + k - 1
        BY <1>1, <2>1, <3>1
      <4> QED
        BY <3>1, <4>1 DEF Turned
    <3>2. CASE a = s + k - 1
      <4>1. a \in s..(s + k - 1) /\ ((s + s) + l) - (a + 1) = s + l - k
        BY <1>1, <2>1, <3>2
      <4> QED
        BY <2>1, <3>2, <4>1 DEF Turned
    <3>3. CASE a # s + l - k /\ a # s + k - 1
      <4>1. /\ a \in s..(s + k - 1) <=> a \in s..(s + (k - 1) - 1)
            /\ a \in (s + l - k)..(s + l - 1) <=> a \in (s + l - (k - 1))..(s + l - 1)
        BY <1>1, <2>1, <3>0, <3>3
      <4> QED
        BY <1>5, <3>3, <4>1 DEF Turned
    <3> QED
      BY <3>1, <3>2, <3>3
  <2>4. /\ Turned(m, s, l, k) = [a \in Addr |-> Turned(m, s, l, k)[a]]
        /\ v = [a \in Addr |-> v[a]]
    BY <1>5 DEF Turned
  <2>5. PICK w : w = Turned(m, s, l, k)
    OBVIOUS
  <2>6. [v EXCEPT ![s + k - 1] = v[s + l - k], ![s + l - k] = v[s + k - 1]]
          = [a \in Addr |-> IF a = s + l - k THEN v[s + k - 1]
                            ELSE IF a = s + k - 1 THEN v[s + l - k] ELSE v[a]]
    BY <2>1, <2>4
  <2> QED
    BY <2>2, <2>3, <2>4, <2>6
<1> DEFINE f[k \in 0..n] == IF k = 0 THEN m
                            ELSE [f[k - 1] EXCEPT ![s + k - 1] = f[k - 1][s + l - k],
                                                  ![s + l - k] = f[k - 1][s + k - 1]]
<1>6. h = [k \in 0..n |-> IF k = 0 THEN m
                          ELSE [h[k - 1] EXCEPT ![s + k - 1] = h[k - 1][s + l - k],
                                                ![s + l - k] = h[k - 1][s + k - 1]]]
  <2>1. ASSUME NEW k \in 0..n
        PROVE  h[k] = IF k = 0 THEN m
                      ELSE [h[k - 1] EXCEPT ![s + k - 1] = h[k - 1][s + l - k],
                                            ![s + l - k] = h[k - 1][s + k - 1]]
    <3>1. CASE k = 0
      BY <1>4, <3>1
    <3>2. CASE k # 0
      <4>1. k \in 1..n /\ k - 1 \in 0..n
        BY <3>2
      <4>2. h[k] = Turned(m, s, l, k) /\ h[k - 1] = Turned(m, s, l, k - 1)
        BY <4>1
      <4> HIDE DEF h
      <4> QED
        BY <1>5, <3>2, <4>1, <4>2
    <3> QED
      BY <3>1, <3>2
  <2>2. h = [k \in 0..n |-> h[k]]
    OBVIOUS
  <2> HIDE DEF h
  <2> QED
    BY <2>1, <2>2
<1>7. f = [k \in 0..n |-> IF k = 0 THEN m
                          ELSE [f[k - 1] EXCEPT ![s + k - 1] = f[k - 1][s + l - k],
                                                ![s + l - k] = f[k - 1][s + k - 1]]]
  <2> HIDE DEF h
  <2> QED
    BY <1>6
<1>8. Unrolls(h, n, Memory, m, g)
  <2>1. h \in [0..n -> Memory] /\ h[0] = m
    BY <1>3, <1>4
  <2>2. ASSUME NEW k \in 1..n PROVE h[k] = g[k][h[k - 1]]
    <3>1. k \in 0..n /\ k - 1 \in 0..n /\ k # 0
      OBVIOUS
    <3>2. h[k - 1] \in Memory
      BY <2>1, <3>1
    <3>3. h[k] = [h[k - 1] EXCEPT ![s + k - 1] = h[k - 1][s + l - k],
                                  ![s + l - k] = h[k - 1][s + k - 1]]
      <4> HIDE DEF h
      <4> QED
        BY <1>6, <3>1
    <3> HIDE DEF h
    <3> QED
      BY <3>2, <3>3
  <2> HIDE DEF h, g
  <2> QED
    BY <2>1, <2>2 DEF Unrolls
<1>9. f[0] = m /\ \A k \in 1..n : f[k - 1] \in Memory => f[k] = g[k][f[k - 1]]
  <2>0. 0 \in 0..n /\ \A k \in 1..n : k \in 0..n /\ k # 0
    OBVIOUS
  <2> HIDE DEF f
  <2>1. f[0] = m
    BY <1>7, <2>0
  <2>2. ASSUME NEW k \in 1..n, f[k - 1] \in Memory PROVE f[k] = g[k][f[k - 1]]
    <3>1. f[k] = [f[k - 1] EXCEPT ![s + k - 1] = f[k - 1][s + l - k],
                                  ![s + l - k] = f[k - 1][s + k - 1]]
      BY <1>7, <2>0
    <3> QED
      BY <2>2, <3>1
  <2> QED
    BY <2>1, <2>2
<1>10. f[n] = h[n]
  <2> HIDE DEF f, g, h
  <2>1. \A k \in 0..n : f[k] = h[k]
    BY <1>8, <1>9, Unique
  <2> QED
    BY <2>1
<1>11. h[n] = Turned(m, s, l, n)
  OBVIOUS
<1>12. reverse_str(m, s) = f[n]
  <2> DEFINE R(x, y) == LET e[k \in 0..y] ==
                              IF k = 0 THEN m
                              ELSE [e[k - 1] EXCEPT ![s + k - 1] = e[k - 1][s + x - k],
                                                    ![s + x - k] = e[k - 1][s + k - 1]]
                        IN e[y]
  <2>1. reverse_str(m, s) = R(strlen(m, s), strlen(m, s) \div 2)
    BY DEF reverse_str
  <2>2. R(l, n) = f[n]
    OBVIOUS
  <2>3. strlen(m, s) = l
    BY SpanIs
  <2> HIDE DEF R, f, h, g
  <2> QED
    BY <1>2, <2>1, <2>2, <2>3
<1> HIDE DEF f, h, g
<1> QED
  BY <1>2, <1>10, <1>11, <1>12

(* reverse_str reverses the string. *)
LEMMA ReverseIs ==
    ASSUME NEW m \in Memory, NEW s, NEW l, Span(m, s, l)
    PROVE  reverse_str(m, s) = Put(m, s, Reverse(Str(m, s)))
<1>1. /\ s \in Nat /\ s >= 1 /\ l \in Nat /\ s + l <= MEM /\ MEM \in Nat /\ Addr = 1..MEM
  BY Memories DEF Span
<1>2. PICK n \in Nat : n = l \div 2 /\ n + n <= l /\ l <= (n + n) + 1
  BY <1>1
<1> DEFINE w == Turned(m, s, l, n)
           q == Reverse(Str(m, s))
<1>3. reverse_str(m, s) = w
  BY <1>2, TurnsAll
<1>4. DOMAIN q = 1..l /\ \A i \in 1..l : q[i] = m[s + (l - i)]
  <2>1. Len(Str(m, s)) = l /\ \A i \in 1..l : Str(m, s)[i] = m[s + i - 1]
    BY SpanIs
  <2>2. q = [i \in 1..l |-> Str(m, s)[(l - i) + 1]]
    BY <2>1 DEF Reverse
  <2>3. \A i \in 1..l : (l - i) + 1 \in 1..l /\ s + ((l - i) + 1) - 1 = s + (l - i)
    BY <1>1
  <2> HIDE DEF q
  <2> QED
    BY <2>1, <2>2, <2>3
<1> HIDE DEF q
<1>5. ASSUME NEW a \in Addr
      PROVE  w[a] = IF a \in s..(s + l - 1) THEN q[a - s + 1] ELSE m[a]
  <2>0. a \in Nat
    BY Memories
  <2>1. w[a] = IF a \in s..(s + n - 1) \/ a \in (s + l - n)..(s + l - 1)
               THEN m[((s + s) + l) - (a + 1)] ELSE m[a]
    BY DEF Turned
  <2> HIDE DEF w
  <2>2. CASE a \in s..(s + l - 1)
    <3>1. a - s + 1 \in 1..l /\ s + (l - (a - s + 1)) = ((s + s) + l) - (a + 1)
      BY <1>1, <2>0, <2>2
    <3>2. q[a - s + 1] = m[((s + s) + l) - (a + 1)]
      BY <1>4, <3>1
    <3>3. a \notin s..(s + n - 1) /\ a \notin (s + l - n)..(s + l - 1)
            => ((s + s) + l) - (a + 1) = a
      BY <1>1, <1>2, <2>0, <2>2
    <3> QED
      BY <2>1, <2>2, <3>2, <3>3
  <2>3. CASE a \notin s..(s + l - 1)
    <3>1. a \notin s..(s + n - 1) /\ a \notin (s + l - n)..(s + l - 1)
      BY <1>1, <1>2, <2>0, <2>3
    <3> QED
      BY <2>1, <2>3, <3>1
  <2> QED
    BY <2>2, <2>3
<1>6. w = [a \in Addr |-> w[a]]
  BY DEF Turned
<1> HIDE DEF w
<1>7. Overlays(w, m, s, q, l)
  BY <1>1, <1>4, <1>5, <1>6 DEF Overlays
<1> QED
  BY <1>3, <1>7, PutIs DEF q

-----------------------------------------------------------------------------
(* The string library: the calls *)

Record(op, d, s, n, r) == [op |-> op, d |-> d, s |-> s, n |-> n, r |-> r]
Fulfils(m, w, c) == Wrote(m, w, c) /\ Answered(m, c) /\ Ordered(m, c)

(* Only equal strings are in order 0. *)
LEMMA OrderZero ==
    /\ \A q, t : Order(q, t) = 0 <=> q = t
    /\ \A r : Sign(r) = 0 <=> r = 0
<1>1. ASSUME NEW q, NEW t PROVE Order(q, t) = 0 <=> q = t
  <2>1. q = t => Order(q, t) = 0
    BY Zenon DEF Order
  <2>2. q # t => Order(q, t) = -1 \/ Order(q, t) = 1
    BY Zenon DEF Order
  <2>3. -1 # 0 /\ 1 # 0
    OBVIOUS
  <2> QED
    BY <2>1, <2>2, <2>3
<1>2. ASSUME NEW r PROVE Sign(r) = 0 <=> r = 0
  BY DEF Sign
<1> QED
  BY <1>1, <1>2

(* What is promised of the functions that write. *)
LEMMA WritersFulfil ==
    ASSUME NEW m, NEW w, NEW d, NEW s, NEW n, NEW r
    PROVE  /\ \A op \in {"memmove", "memcpy"} :
                 w = (IF d = NULLP \/ s = NULLP THEN m ELSE Put(m, d, Bytes(m, s, n)))
                   => Fulfils(m, w, Record(op, d, s, n, IF d = NULLP \/ s = NULLP THEN NULLP ELSE d))
           /\ w = (IF d = NULLP THEN m ELSE Put(m, d, [k \in 1..n |-> Char(s)]))
                => Fulfils(m, w, Record("memset", d, s, n, d))
           /\ w = Put(m, d, Append(Str(m, s), NUL)) => Fulfils(m, w, Record("strcpy", d, s, n, d))
           /\ (LET q == Cut(Str(m, s), n) IN w = Put(m, d, q \o Zeros(n - Len(q))))
                => Fulfils(m, w, Record("strncpy", d, s, n, d))
           /\ w = Put(m, d, Append(Str(m, d) \o Str(m, s), NUL))
                => Fulfils(m, w, Record("strcat", d, s, n, d))
           /\ (LET q == Str(m, d) \o Cut(Str(m, s), n)
               IN \E k \in 1..2 : w = Put(m, d, q \o Zeros(k)))
                => Fulfils(m, w, Record("strncat", d, s, n, d))
           /\ w = Put(m, s, Reverse(Str(m, s))) => Fulfils(m, w, Record("reverse_str", d, s, n, r))
<1>1. \A op \in {"memmove", "memcpy"} :
                 w = (IF d = NULLP \/ s = NULLP THEN m ELSE Put(m, d, Bytes(m, s, n)))
                   => Fulfils(m, w, Record(op, d, s, n, IF d = NULLP \/ s = NULLP THEN NULLP ELSE d))
  BY DEF Fulfils, Wrote, Answered, Ordered, AnyNull, Record
<1>2. w = (IF d = NULLP THEN m ELSE Put(m, d, [k \in 1..n |-> Char(s)]))
                => Fulfils(m, w, Record("memset", d, s, n, d))
  BY DEF Fulfils, Wrote, Answered, Ordered, AnyNull, Record
<1>3. w = Put(m, d, Append(Str(m, s), NUL)) => Fulfils(m, w, Record("strcpy", d, s, n, d))
  BY DEF Fulfils, Wrote, Answered, Ordered, AnyNull, Record
<1>4. (LET q == Cut(Str(m, s), n) IN w = Put(m, d, q \o Zeros(n - Len(q))))
                => Fulfils(m, w, Record("strncpy", d, s, n, d))
  BY DEF Fulfils, Wrote, Answered, Ordered, AnyNull, Record
<1>5. w = Put(m, d, Append(Str(m, d) \o Str(m, s), NUL))
                => Fulfils(m, w, Record("strcat", d, s, n, d))
  BY DEF Fulfils, Wrote, Answered, Ordered, AnyNull, Record
<1>6. (LET q == Str(m, d) \o Cut(Str(m, s), n)
               IN \E k \in 1..2 : w = Put(m, d, q \o Zeros(k)))
                => Fulfils(m, w, Record("strncat", d, s, n, d))
  BY DEF Fulfils, Wrote, Answered, Ordered, AnyNull, Record
<1>7. w = Put(m, s, Reverse(Str(m, s))) => Fulfils(m, w, Record("reverse_str", d, s, n, r))
  BY DEF Fulfils, Wrote, Answered, Ordered, AnyNull, Record
<1> QED
  BY <1>1, <1>2, <1>3, <1>4, <1>5, <1>6, <1>7

(* What is promised of the functions that answer. *)
LEMMA AnswersFulfil ==
    ASSUME NEW m, NEW d, NEW s, NEW n, NEW r
    PROVE  /\ r = Len(Str(m, s)) => Fulfils(m, m, Record("strlen", d, s, n, r))
           /\ r = (IF d = NULLP \/ s = NULLP THEN -1 ELSE Order(Bytes(m, d, n), Bytes(m, s, n)))
                => Fulfils(m, m, Record("memcmp", d, s, n, r))
           /\ Sign(r) = Order(Str(m, d), Str(m, s)) => Fulfils(m, m, Record("strcmp", d, s, n, r))
           /\ Sign(r) = Order(Cut(Str(m, d), n), Cut(Str(m, s), n))
                => Fulfils(m, m, Record("strncmp", d, s, n, r))
           /\ r = First(Holding(m, s, n)) => Fulfils(m, m, Record("strchr", d, s, n, r))
           /\ r = Hindmost(Holding(m, s, n)) => Fulfils(m, m, Record("strrchr", d, s, n, r))
           /\ (LET h == Str(m, d) t == Str(m, s)
               IN r = First({d + k : k \in
                         {j \in 0..Len(h) : IsPrefix(t, SubSeq(h, j + 1, Len(h)))}}))
                => Fulfils(m, m, Record("strstr", d, s, n, r))
<1>1. r = Len(Str(m, s)) => Fulfils(m, m, Record("strlen", d, s, n, r))
  BY DEF Fulfils, Wrote, Answered, Ordered, AnyNull, Record
<1>2. r = (IF d = NULLP \/ s = NULLP THEN -1 ELSE Order(Bytes(m, d, n), Bytes(m, s, n)))
                => Fulfils(m, m, Record("memcmp", d, s, n, r))
  BY DEF Fulfils, Wrote, Answered, Ordered, AnyNull, Record
<1>3. Sign(r) = Order(Str(m, d), Str(m, s)) => Fulfils(m, m, Record("strcmp", d, s, n, r))
  BY OrderZero DEF Fulfils, Wrote, Answered, Ordered, AnyNull, Record
<1>4. Sign(r) = Order(Cut(Str(m, d), n), Cut(Str(m, s), n))
                => Fulfils(m, m, Record("strncmp", d, s, n, r))
  BY OrderZero DEF Fulfils, Wrote, Answered, Ordered, AnyNull, Record
<1>5. r = First(Holding(m, s, n)) => Fulfils(m, m, Record("strchr", d, s, n, r))
  BY DEF Fulfils, Wrote, Answered, Ordered, AnyNull, Record
<1>6. r = Hindmost(Holding(m, s, n)) => Fulfils(m, m, Record("strrchr", d, s, n, r))
  BY DEF Fulfils, Wrote, Answered, Ordered, AnyNull, Record
<1>7. (LET h == Str(m, d) t == Str(m, s)
               IN r = First({d + k : k \in
                         {j \in 0..Len(h) : IsPrefix(t, SubSeq(h, j + 1, Len(h)))}}))
                => Fulfils(m, m, Record("strstr", d, s, n, r))
  BY DEF Fulfils, Wrote, Answered, Ordered, AnyNull, Record
<1> QED
  BY <1>1, <1>2, <1>3, <1>4, <1>5, <1>6, <1>7

(* memmove, memcpy and memcmp. *)
LEMMA MemFulfils ==
    ASSUME mem \in Memory, NEW d, NEW s, NEW n \in Nat, CallMem(d, s, n)
    PROVE  Fulfils(mem, mem', call')
<1>1. PICK m, w : m = mem /\ w = mem' /\ m \in Memory
  OBVIOUS
<1> DEFINE r == IF d = NULLP \/ s = NULLP THEN NULLP ELSE d
<1>2. (d = NULLP \/ Within(d, n)) /\ (s = NULLP \/ Within(s, n))
  BY DEF CallMem
<1>3. \/ w = memmove(m, d, s, n) /\ call' = Record("memmove", d, s, n, r)
      \/ /\ d = NULLP \/ s = NULLP \/ Apart(d, n, s, n)
         /\ w = memcpy(m, d, s, n) /\ call' = Record("memcpy", d, s, n, r)
      \/ call' = Record("memcmp", d, s, n, memcmp(m, d, s, n)) /\ w = m
  BY <1>1 DEF CallMem, Did, Record
<1>4. Fulfils(m, w, call')
  <2> DEFINE W == IF d = NULLP \/ s = NULLP THEN m ELSE Put(m, d, Bytes(m, s, n))
  <2>1. CASE w = memmove(m, d, s, n) /\ call' = Record("memmove", d, s, n, r)
    <3>1. w = W
      BY <1>1, <1>2, <2>1, MoveIs
    <3>2. Fulfils(m, w, Record("memmove", d, s, n, r))
      BY <3>1, WritersFulfil
    <3> QED
      BY <2>1, <3>2
  <2>2. CASE /\ d = NULLP \/ s = NULLP \/ Apart(d, n, s, n)
             /\ w = memcpy(m, d, s, n) /\ call' = Record("memcpy", d, s, n, r)
    <3>1. w = W
      BY <1>1, <1>2, <2>2, MoveIs
    <3>2. Fulfils(m, w, Record("memcpy", d, s, n, r))
      BY <3>1, WritersFulfil
    <3> QED
      BY <2>2, <3>2
  <2>3. CASE call' = Record("memcmp", d, s, n, memcmp(m, d, s, n)) /\ w = m
    <3>1. PICK k : k = memcmp(m, d, s, n)
      OBVIOUS
    <3>2. k = IF d = NULLP \/ s = NULLP THEN -1 ELSE Order(Bytes(m, d, n), Bytes(m, s, n))
      BY <1>1, <1>2, <3>1, MemcmpIs
    <3>3. Fulfils(m, m, Record("memcmp", d, s, n, k))
      BY <3>2, AnswersFulfil
    <3> QED
      BY <2>3, <3>1, <3>3
  <2> QED
    BY <1>3, <2>1, <2>2, <2>3
<1> QED
  BY <1>1, <1>4

(* memset. *)
LEMMA MemsetFulfils ==
    ASSUME mem \in Memory, NEW d, NEW c \in Nat, NEW n \in Nat, CallMemset(d, c, n)
    PROVE  Fulfils(mem, mem', call')
<1>1. PICK m, w : m = mem /\ w = mem' /\ m \in Memory
  OBVIOUS
<1>2. (d = NULLP \/ d \in Addr) /\ w = memset(m, d, c, n) /\ call' = Record("memset", d, c, n, d)
  BY <1>1 DEF CallMemset, Within, Did, Record
<1>3. w = IF d = NULLP THEN m ELSE Put(m, d, [k \in 1..n |-> Char(c)])
  BY <1>1, <1>2, FillIs DEF memset
<1> QED
  BY <1>1, <1>2, <1>3, WritersFulfil

(* strcpy, strncpy, strcat and strncat. *)
LEMMA CopyFulfils ==
    ASSUME mem \in Memory, NEW d, NEW s, NEW n \in Nat, CallCopy(d, s, n)
    PROVE  Fulfils(mem, mem', call')
<1>1. PICK m, w : m = mem /\ w = mem' /\ m \in Memory
  OBVIOUS
<1>2. PICK l : Span(m, s, l)
  BY <1>1, StringHasLength DEF CallCopy
<1>3. strlen(m, s) = l
  BY <1>1, <1>2, SpanIs
<1> DEFINE e == d + strlen(m, d)
<1>4. \/ /\ Within(d, l + 1) /\ Apart(d, l + 1, s, l + 1)
         /\ w = strcpy(m, d, s) /\ call' = Record("strcpy", d, s, n, d)
      \/ /\ Within(d, n) /\ Apart(d, n, s, l + 1)
         /\ w = strncpy(m, d, s, n) /\ call' = Record("strncpy", d, s, n, d)
      \/ /\ IsString(m, d)
         /\ Within(e, l + 1) /\ Apart(d, e + l + 1 - d, s, l + 1)
         /\ w = strcat(m, d, s) /\ call' = Record("strcat", d, s, n, d)
      \/ /\ IsString(m, d)
         /\ Within(e, Min({n, l + 1}) + 1) /\ Apart(d, e + l + 2 - d, s, l + 1)
         /\ w = strncat(m, d, s, n) /\ call' = Record("strncat", d, s, n, d)
  BY <1>1, <1>3 DEF CallCopy, Did, Record
<1> HIDE DEF e
<1>5. CASE /\ Within(d, l + 1) /\ Apart(d, l + 1, s, l + 1)
           /\ w = strcpy(m, d, s) /\ call' = Record("strcpy", d, s, n, d)
  BY <1>1, <1>2, <1>5, StrcpyIs, WritersFulfil
<1>6. CASE /\ Within(d, n) /\ Apart(d, n, s, l + 1)
           /\ w = strncpy(m, d, s, n) /\ call' = Record("strncpy", d, s, n, d)
  <2>1. LET q == Cut(Str(m, s), n) IN w = Put(m, d, q \o Zeros(n - Len(q)))
    BY <1>1, <1>2, <1>6, StrncpyIs
  <2> QED
    BY <1>1, <1>6, <2>1, WritersFulfil
<1>7. CASE /\ IsString(m, d)
           /\ Within(e, l + 1) /\ Apart(d, e + l + 1 - d, s, l + 1)
           /\ w = strcat(m, d, s) /\ call' = Record("strcat", d, s, n, d)
  <2>1. PICK k : Span(m, d, k)
    BY <1>1, <1>7, StringHasLength
  <2>2. e = d + k
    BY <1>1, <2>1, SpanIs DEF e
  <2>3. w = Put(m, d, Append(Str(m, d) \o Str(m, s), NUL))
    BY <1>1, <1>2, <1>7, <2>1, <2>2, StrcatIs
  <2> QED
    BY <1>1, <1>7, <2>3, WritersFulfil
<1>8. CASE /\ IsString(m, d)
           /\ Within(e, Min({n, l + 1}) + 1) /\ Apart(d, e + l + 2 - d, s, l + 1)
           /\ w = strncat(m, d, s, n) /\ call' = Record("strncat", d, s, n, d)
  <2>1. PICK h : Span(m, d, h)
    BY <1>1, <1>8, StringHasLength
  <2>2. e = d + h
    BY <1>1, <2>1, SpanIs DEF e
  <2>3. PICK k : k = IF n <= l THEN n ELSE l + 1
    OBVIOUS
  <2>4. Min({n, l + 1}) = k
    <3>1. l \in Nat
      BY <1>2 DEF Span
    <3>2. k \in {n, l + 1} /\ \A y \in {n, l + 1} : k <= y
      BY <2>3, <3>1
    <3>3. \A z \in {n, l + 1} : (\A y \in {n, l + 1} : z <= y) => z = k
      BY <2>3, <3>1
    <3> QED
      BY <3>2, <3>3 DEF Min
  <2>5. LET q == Str(m, d) \o Cut(Str(m, s), n)
        IN \E i \in 1..2 : w = Put(m, d, q \o Zeros(i))
    <3>1. Within(d + h, k + 1) /\ Apart(d, (d + h) + l + 2 - d, s, l + 1)
      BY <1>8, <2>2, <2>4
    <3> QED
      BY <1>1, <1>2, <1>8, <2>1, <2>3, <3>1, StrncatIs
  <2> QED
    BY <1>1, <1>8, <2>5, WritersFulfil
<1> QED
  BY <1>4, <1>5, <1>6, <1>7, <1>8

(* strcmp, strncmp and strstr. *)
LEMMA FindFulfils ==
    ASSUME mem \in Memory, NEW d, NEW s, NEW n \in Nat, CallFind(d, s, n)
    PROVE  Fulfils(mem, mem', call')
<1>1. PICK m : m = mem /\ m = mem' /\ m \in Memory
  BY DEF CallFind
<1>2. PICK a, b : Span(m, d, a) /\ Span(m, s, b)
  BY <1>1, StringHasLength DEF CallFind
<1>3. \/ call' = Record("strcmp", d, s, n, strcmp(m, d, s))
      \/ call' = Record("strncmp", d, s, n, strncmp(m, d, s, n))
      \/ call' = Record("strstr", d, s, n, strstr(m, d, s))
  BY <1>1 DEF CallFind, Did, Record
<1>4. /\ Sign(strcmp(m, d, s)) = Order(Str(m, d), Str(m, s))
      /\ Sign(strncmp(m, d, s, n)) = Order(Cut(Str(m, d), n), Cut(Str(m, s), n))
  BY <1>1, <1>2, StrcmpIs, StrncmpIs
<1>5. LET h == Str(m, d) t == Str(m, s)
      IN strstr(m, d, s) = First({d + k : k \in
             {j \in 0..Len(h) : IsPrefix(t, SubSeq(h, j + 1, Len(h)))}})
  BY <1>1, <1>2, StrstrIs
<1>6. /\ Fulfils(m, m, Record("strcmp", d, s, n, strcmp(m, d, s)))
      /\ Fulfils(m, m, Record("strncmp", d, s, n, strncmp(m, d, s, n)))
  BY <1>4, AnswersFulfil
<1>7. Fulfils(m, m, Record("strstr", d, s, n, strstr(m, d, s)))
  BY <1>5, AnswersFulfil
<1> QED
  BY <1>1, <1>3, <1>6, <1>7

(* strlen, strchr, strrchr and reverse_str. *)
LEMMA ScanFulfils ==
    ASSUME mem \in Memory, NEW s, NEW c, CallScan(s, c)
    PROVE  Fulfils(mem, mem', call')
<1>1. PICK m, w : m = mem /\ w = mem' /\ m \in Memory
  OBVIOUS
<1>2. PICK l : Span(m, s, l)
  BY <1>1, StringHasLength DEF CallScan
<1>3. \/ call' = Record("strlen", s, s, c, strlen(m, s)) /\ w = m
      \/ call' = Record("strchr", s, s, c, strchr(m, s, c)) /\ w = m
      \/ call' = Record("strrchr", s, s, c, strrchr(m, s, c)) /\ w = m
      \/ call' = Record("reverse_str", s, s, c, NULLP) /\ w = reverse_str(m, s)
  BY <1>1 DEF CallScan, Did, Record
<1>4. /\ strlen(m, s) = Len(Str(m, s))
      /\ strchr(m, s, c) = First(Holding(m, s, c))
      /\ strrchr(m, s, c) = Hindmost(Holding(m, s, c))
      /\ reverse_str(m, s) = Put(m, s, Reverse(Str(m, s)))
  BY <1>1, <1>2, SpanIs, StrchrIs, StrrchrIs, ReverseIs
<1>5. /\ Fulfils(m, m, Record("strlen", s, s, c, strlen(m, s)))
      /\ Fulfils(m, m, Record("strchr", s, s, c, strchr(m, s, c)))
      /\ Fulfils(m, m, Record("strrchr", s, s, c, strrchr(m, s, c)))
  BY <1>4, AnswersFulfil
<1>6. w = reverse_str(m, s) => Fulfils(m, w, Record("reverse_str", s, s, c, NULLP))
  BY <1>4, WritersFulfil
<1> QED
  BY <1>1, <1>3, <1>5, <1>6

StringsInv == call = Nothing => mem \in Memory

(* Each call does what is promised, and no other call follows. *)
LEMMA StringsStep ==
    ASSUME StringsInv, StringsNext
    PROVE  StringsInv' /\ (call = Nothing => Fulfils(mem, mem', call'))
<1>1. mem \in Memory /\ \A n \in 0..COUNT : n \in Nat
  BY MemoryAssumption DEF StringsInv, StringsNext
<1>2. PICK d, s \in {NULLP} \cup Addr, n \in 0..COUNT :
        \/ CallMem(d, s, n)
        \/ CallCopy(d, s, n)
        \/ CallFind(d, s, n)
        \/ s = d /\ \E c \in 0..COUNT : CallMemset(d, c, n)
        \/ s = d /\ CallScan(s, n)
  BY DEF StringsNext
<1>3. Fulfils(mem, mem', call')
  BY <1>1, <1>2, MemFulfils, CopyFulfils, FindFulfils, MemsetFulfils, ScanFulfils
<1>4. call' # Nothing
  <2>1. \A op, a, b, i, r : Record(op, a, b, i, r) # Nothing
    BY DEF Record, Nothing
  <2>2. \E op, a, b, i, r : call' = Record(op, a, b, i, r)
    BY <1>2 DEF CallMem, CallCopy, CallFind, CallMemset, CallScan, Did, Record
  <2> QED
    BY <2>1, <2>2
<1> QED
  BY <1>3, <1>4 DEF StringsInv

(* Every string function writes and returns what string.h promises, in     *)
(* every memory and for every placement of its arguments, but for the sign *)
(* of strcmp and strncmp for unequal strings: that is the sign of C's      *)
(* order, where string.h says negative.                                    *)
THEOREM StringFunctions == StringsSpec => StringsAsDocumented
<1>1. StringsInit => StringsInv
  BY DEF StringsInit, StringsInv
<1>2. StringsInv /\ [StringsNext]_stringVars =>
        StringsInv' /\ [call = Nothing => /\ Wrote(mem, mem', call')
                                         /\ Answered(mem, call')
                                         /\ Ordered(mem, call')]_stringVars
  <2>1. CASE UNCHANGED stringVars
    BY <2>1 DEF StringsInv, stringVars
  <2> QED
    BY <2>1, StringsStep DEF Fulfils
<1> QED
  BY <1>1, <1>2, PTL DEF StringsSpec, StringsAsDocumented
-----------------------------------------------------------------------------
(* Formatted output: numbers *)

(* The quotient is the only one with a remainder below the divisor. *)
LEMMA Quotient ==
    ASSUME NEW D \in Nat \ {0}, NEW c \in Nat, NEW r \in 0..(D - 1)
    PROVE  (D * c + r) \div D = c
<1>1. PICK n \in Nat : n = D * c + r
  OBVIOUS
<1>2. PICK q \in Nat : q = n \div D
  BY <1>1
<1>3. PICK s \in 0..(D - 1) : n = D * q + s
  <2>1. n % D \in 0..(D - 1) /\ n = D * q + (n % D)
    BY <1>1, <1>2
  <2> QED
    BY <2>1
<1>4. \A x, y \in Nat : x < y => D * x + D <= D * y
  <2> SUFFICES ASSUME NEW x \in Nat, NEW y \in Nat, x < y PROVE D * x + D <= D * y
    OBVIOUS
  <2>1. x + 1 <= y
    OBVIOUS
  <2>2. D * (x + 1) <= D * y
    BY <2>1
  <2>3. D * (x + 1) = D * x + D
    OBVIOUS
  <2> QED
    BY <2>2, <2>3
<1>5. PICK i \in Nat, j \in Nat : i = D * c /\ j = D * q
  OBVIOUS
<1>6. i + r = j + s
  BY <1>1, <1>3, <1>5
<1>7. ~(c < q) /\ ~(q < c)
  BY <1>4, <1>5, <1>6
<1> QED
  BY <1>1, <1>2, <1>7

(* Division with its remainder. *)
LEMMA Divided ==
    ASSUME NEW D \in Nat \ {0}, NEW n \in Nat
    PROVE  \E c \in Nat, r \in 0..(D - 1) : c = n \div D /\ n = D * c + r
<1>1. n \div D \in Nat /\ n % D \in 0..(D - 1) /\ n = D * (n \div D) + (n % D)
  OBVIOUS
<1> QED
  BY <1>1

(* Dividing by D and then by b. *)
LEMMA DividedTwice ==
    ASSUME NEW D \in Nat \ {0}, NEW n \in Nat, NEW b \in Nat \ {0}
    PROVE  (n \div D) \div b = n \div (b * D)
<1>1. PICK c \in Nat, r \in 0..(D - 1) : c = n \div D /\ n = D * c + r
  BY Divided
<1>2. PICK e \in Nat, s \in 0..(b - 1) : e = c \div b /\ c = b * e + s
  BY Divided
<1>3. b * D \in Nat \ {0}
  OBVIOUS
<1>4. n = (b * D) * e + (D * s + r)
  <2>1. D * (b * e + s) = (b * D) * e + D * s
    OBVIOUS
  <2>2. PICK x \in Nat, y \in Nat : x = (b * D) * e /\ y = D * s
    BY <1>3
  <2> QED
    BY <1>1, <1>2, <2>1, <2>2
<1>5. D * s + r \in 0..((b * D) - 1)
  <2>1. D * s + D <= D * b
    <3>1. s + 1 <= b
      OBVIOUS
    <3>2. D * (s + 1) <= D * b
      BY <3>1
    <3>3. D * (s + 1) = D * s + D
      OBVIOUS
    <3> QED
      BY <3>2, <3>3
  <2>2. PICK x \in Nat, y \in Nat : x = D * s /\ y = D * b /\ y = b * D
    OBVIOUS
  <2>3. x + r \in 0..(y - 1)
    BY <2>1, <2>2
  <2> QED
    BY <2>2, <2>3
<1>6. PICK m \in Nat \ {0} : m = b * D
  BY <1>3
<1>7. PICK t \in 0..(m - 1) : t = D * s + r
  BY <1>5, <1>6
<1>8. (m * e + t) \div m = e
  BY Quotient
<1> QED
  BY <1>1, <1>2, <1>4, <1>6, <1>7, <1>8

(* Powers, multiplication by multiplication. *)
PowerRounds(b, n) == [i \in 1..n |-> [v \in Nat |-> b * v]]

(* The powers that Power computes. *)
LEMMA PowerIs ==
    ASSUME NEW b \in Nat, NEW n \in Nat, NEW F, Unrolls(F, n, Nat, 1, PowerRounds(b, n)),
           NEW k \in 0..n
    PROVE  Power(b, k) = F[k]
<1> DEFINE f[i \in 0..k] == IF i = 0 THEN 1 ELSE b * f[i - 1]
           g == [i \in 0..k |-> F[i]]
<1>1. F[0] = 1 /\ \A i \in 1..k : i \in 1..n /\ F[i - 1] \in Nat /\ F[i] = b * F[i - 1]
  <2>1. \A i \in 1..k : i \in 1..n /\ i - 1 \in 0..n
    OBVIOUS
  <2> QED
    BY <2>1 DEF Unrolls, PowerRounds
<1>2. \A i \in 0..k : F[i] \in Nat /\ (i = 0 \/ i \in 1..k)
  BY DEF Unrolls
<1>3. g = [i \in 0..k |-> IF i = 0 THEN 1 ELSE b * g[i - 1]]
  <2>1. \A i \in 1..k : i - 1 \in 0..k /\ i # 0
    OBVIOUS
  <2>2. \A i \in 0..k : F[i] = IF i = 0 THEN 1 ELSE b * g[i - 1]
    BY <1>1, <1>2, <2>1
  <2> QED
    BY <2>2
<1>4. f = [i \in 0..k |-> IF i = 0 THEN 1 ELSE b * f[i - 1]]
  <2> HIDE DEF g
  <2> QED
    BY <1>3
<1>5. Unrolls(g, k, Nat, 1, PowerRounds(b, k))
  <2>1. \A i \in 1..k : i - 1 \in 0..k /\ i \in 0..k /\ 0 \in 0..k
    OBVIOUS
  <2>2. g \in [0..k -> Nat] /\ g[0] = 1
    BY <1>1, <1>2
  <2>3. \A i \in 1..k : g[i] = PowerRounds(b, k)[i][g[i - 1]]
    BY <1>1, <2>1 DEF PowerRounds
  <2> QED
    BY <2>2, <2>3 DEF Unrolls
<1>6. f[0] = 1 /\ \A i \in 1..k : f[i - 1] \in Nat => f[i] = PowerRounds(b, k)[i][f[i - 1]]
  <2> HIDE DEF f
  <2>1. 0 \in 0..k /\ \A i \in 1..k : i \in 0..k /\ i # 0
    OBVIOUS
  <2>2. f[0] = 1
    BY <1>4, <2>1
  <2>3. ASSUME NEW i \in 1..k, f[i - 1] \in Nat
        PROVE  f[i] = PowerRounds(b, k)[i][f[i - 1]]
    BY <1>4, <2>1, <2>3 DEF PowerRounds
  <2> QED
    BY <2>2, <2>3
<1>7. f[k] = g[k]
  <2> HIDE DEF f, g
  <2>1. k \in Nat /\ 1 \in Nat /\ k \in 0..k
    OBVIOUS
  <2>2. PICK V : V = Nat
    OBVIOUS
  <2>3. 1 \in V /\ Unrolls(g, k, V, 1, PowerRounds(b, k))
    BY <1>5, <2>2
  <2>4. \A i \in 1..k : f[i - 1] \in V => f[i] = PowerRounds(b, k)[i][f[i - 1]]
    BY <1>6, <2>2
  <2>5. \A i \in 0..k : f[i] = g[i]
    BY <1>6, <2>1, <2>3, <2>4, Unique
  <2> QED
    BY <2>1, <2>5
<1>8. Power(b, k) = f[k]
  BY DEF Power
<1> HIDE DEF f
<1> QED
  BY <1>7, <1>8

(* The first power and the next. *)
LEMMA Powers ==
    ASSUME NEW b \in Nat \ {0}
    PROVE  /\ Power(b, 0) = 1
           /\ \A k \in Nat : /\ Power(b, k) \in Nat \ {0}
                             /\ Power(b, k + 1) = b * Power(b, k)
<1>1. ASSUME NEW n \in Nat
      PROVE  \E F : Unrolls(F, n, Nat, 1, PowerRounds(b, n))
  <2>1. PowerRounds(b, n) \in [1..n -> [Nat -> Nat]]
    BY DEF PowerRounds
  <2> QED
    BY <2>1, Recursion
<1>2. ASSUME NEW k \in Nat
      PROVE  Power(b, 0) = 1 /\ Power(b, k) \in Nat /\ Power(b, k + 1) = b * Power(b, k)
  <2>1. PICK n \in Nat : n = k + 1 /\ 0 \in 0..n /\ k \in 0..n /\ k + 1 \in 0..n /\ k + 1 \in 1..n
    OBVIOUS
  <2>2. PICK F : Unrolls(F, n, Nat, 1, PowerRounds(b, n))
    BY <1>1
  <2>3. F[0] = 1 /\ F[k] \in Nat /\ F[k + 1] = PowerRounds(b, n)[k + 1][F[(k + 1) - 1]]
    BY <2>1, <2>2 DEF Unrolls
  <2>4. F[k + 1] = b * F[k]
    BY <2>1, <2>3 DEF PowerRounds
  <2>5. Power(b, 0) = F[0] /\ Power(b, k) = F[k] /\ Power(b, k + 1) = F[k + 1]
    BY <2>1, <2>2, PowerIs
  <2> QED
    BY <2>3, <2>4, <2>5
<1> DEFINE S == {k \in Nat : Power(b, k) # 0}
<1>3. S = Nat
  <2>1. 0 \in S
    BY <1>2
  <2>2. ASSUME NEW k \in S PROVE k + 1 \in S
    <3>1. \A x \in Nat : x # 0 => b * x # 0
      OBVIOUS
    <3> QED
      BY <1>2, <3>1
  <2>3. S \in SUBSET Nat
    OBVIOUS
  <2> HIDE DEF S
  <2> QED
    BY <2>1, <2>2, <2>3, Induct
<1> QED
  BY <1>2, <1>3
-----------------------------------------------------------------------------
(* Powers grow with the exponent. *)
LEMMA PowersGrow ==
    ASSUME NEW b \in Nat \ {0}, NEW i \in Nat, NEW j \in Nat, i <= j
    PROVE  Power(b, i) <= Power(b, j)
<1> DEFINE S == {k \in Nat : i <= k => Power(b, i) <= Power(b, k)}
<1>1. \A k \in Nat : Power(b, k) \in Nat /\ Power(b, k) <= Power(b, k + 1)
  <2> SUFFICES ASSUME NEW k \in Nat
               PROVE  Power(b, k) \in Nat /\ Power(b, k) <= Power(b, k + 1)
    OBVIOUS
  <2>1. PICK x \in Nat : x = Power(b, k) /\ Power(b, k + 1) = b * x
    BY Powers
  <2>2. x <= b * x
    OBVIOUS
  <2> QED
    BY <2>1, <2>2
<1>2. 0 \in S
  BY <1>1
<1>3. ASSUME NEW k \in S PROVE k + 1 \in S
  <2>1. k \in Nat /\ k + 1 \in Nat
    OBVIOUS
  <2>2. PICK x \in Nat, y \in Nat, z \in Nat :
          x = Power(b, i) /\ y = Power(b, k) /\ z = Power(b, k + 1)
    BY <1>1, <2>1
  <2>3. y <= z /\ (i <= k => x <= y) /\ (i = k + 1 => x = z)
    BY <1>1, <2>1, <2>2
  <2>4. i <= k + 1 => x <= z
    BY <2>1, <2>3
  <2> QED
    BY <2>1, <2>2, <2>4
<1>4. S = Nat
  <2>1. S \in SUBSET Nat
    OBVIOUS
  <2> HIDE DEF S
  <2> QED
    BY <1>2, <1>3, <2>1, Induct
<1> QED
  BY <1>4

(* The least number below the divisor has the quotient 0. *)
LEMMA Smaller ==
    ASSUME NEW D \in Nat \ {0}, NEW n \in Nat
    PROVE  n \div D = 0 <=> n < D
<1>1. PICK c \in Nat, r \in 0..(D - 1) : c = n \div D /\ n = D * c + r
  BY Divided
<1>2. c = 0 => D * c = 0
  OBVIOUS
<1>3. c >= 1 => D * c >= D
  OBVIOUS
<1>4. PICK x \in Nat : x = D * c
  OBVIOUS
<1>5. n = x + r /\ (c = 0 => x = 0) /\ (c >= 1 => x >= D)
  BY <1>1, <1>2, <1>3, <1>4
<1>6. c = 0 <=> n < D
  BY <1>5
<1> QED
  BY <1>1, <1>6

(* n has l digits in base b, as Numeral writes it. *)
HasDigits(n, b, l) ==
    /\ l \in 1..10 /\ (n = 0 => l = 1)
    /\ \A i \in 0..10 : n \div Power(b, i) = 0 <=> i >= l \/ n = 0
    /\ Numeral(n, b) = [k \in 1..l |-> Digit((n \div Power(b, l - k)) % b)]

(* Every number below the tenth power of the base has digits. *)
LEMMA NumeralIs ==
    ASSUME NEW b \in Nat \ {0}, NEW n \in Nat, n < Power(b, 10)
    PROVE  \E l : HasDigits(n, b, l)
<1> DEFINE Enough(l) == n < Power(b, l) /\ \A j \in 1..(l - 1) : n >= Power(b, j)
<1>1. \A k \in Nat : Power(b, k) \in Nat \ {0}
  BY Powers
<1>2. \E l \in 1..10 : Enough(l)
  <2> DEFINE S == {l \in 1..10 : n < Power(b, l)}
  <2>1. 10 \in S
    OBVIOUS
  <2>2. PICK l \in S : \A k \in S : l <= k
    <3>1. S \in SUBSET Nat /\ S # {}
      BY <2>1
    <3> HIDE DEF S
    <3> QED
      BY <3>1, Least
  <2>3. l \in 1..10 /\ n < Power(b, l)
    BY <2>2
  <2>4. ASSUME NEW j \in 1..(l - 1) PROVE n >= Power(b, j)
    <3>1. j \in 1..10 /\ ~(l <= j)
      BY <2>3
    <3>2. j \notin S
      BY <2>2, <3>1
    <3>3. Power(b, j) \in Nat
      BY <1>1, <3>1
    <3> QED
      BY <3>1, <3>2, <3>3
  <2> QED
    BY <2>3, <2>4
<1> DEFINE l == CHOOSE l \in 1..10 : Enough(l)
<1>3. l \in 1..10 /\ Enough(l)
  <2> HIDE DEF Enough
  <2> QED
    BY <1>2
<1>4. Numeral(n, b) = [k \in 1..l |-> Digit((n \div Power(b, l - k)) % b)]
  BY DEF Numeral
<1> HIDE DEF l
<1>5. ASSUME NEW i \in 0..10
      PROVE  n \div Power(b, i) = 0 <=> i >= l \/ n = 0
  <2>1. PICK D \in Nat \ {0} : D = Power(b, i)
    BY <1>1
  <2>2. n \div D = 0 <=> n < D
    BY Smaller
  <2>3. CASE i >= l
    <3>1. PICK x \in Nat : x = Power(b, l)
      BY <1>1, <1>3
    <3>2. x <= D
      BY <1>3, <2>1, <2>3, <3>1, PowersGrow
    <3> QED
      BY <1>3, <2>1, <2>2, <2>3, <3>1, <3>2
  <2>4. CASE i < l /\ i >= 1
    <3>1. i \in 1..(l - 1)
      BY <1>3, <2>4
    <3>2. n >= D
      BY <1>3, <2>1, <3>1
    <3> QED
      BY <1>3, <2>1, <2>2, <2>4, <3>2
  <2>5. CASE i < l /\ i = 0
    <3>1. D = 1
      BY <2>1, <2>5, Powers
    <3> QED
      BY <1>3, <2>1, <2>2, <2>5, <3>1
  <2> QED
    BY <1>3, <2>3, <2>4, <2>5
<1>6. n = 0 => l = 1
  <2> SUFFICES ASSUME n = 0, l # 1 PROVE FALSE
    OBVIOUS
  <2>1. 1 \in 1..(l - 1)
    BY <1>3
  <2>2. PICK D \in Nat \ {0} : D = Power(b, 1)
    BY <1>1
  <2> QED
    BY <1>3, <2>1, <2>2
<1> QED
  BY <1>3, <1>4, <1>5, <1>6 DEF HasDigits

(* The characters there are. *)
Chars == (Tokens \cup {"-", "x"}) \cup
         {Digit(d) : d \in 0..15} \cup {Upper[d + 1] : d \in 0..15} \cup Letters

(* The characters of the digits. *)
LEMMA DigitsAre ==
    /\ \A d \in 0..15 : /\ Digit(d) \in Chars /\ Upper[d + 1] \in Chars
                        /\ Digit(d) = Digits[d + 1]
                        /\ Digit(d) = "0" <=> d = 0
                        /\ \A e \in 0..15 : Digit(d) = Digit(e) => d = e
    /\ Upper[1] = "0"
<1>1. /\ Digits[1] = "0" /\ Digits[2] = "1" /\ Digits[3] = "2" /\ Digits[4] = "3"
      /\ Digits[5] = "4" /\ Digits[6] = "5" /\ Digits[7] = "6" /\ Digits[8] = "7"
      /\ Digits[9] = "8" /\ Digits[10] = "9" /\ Digits[11] = "a" /\ Digits[12] = "b"
      /\ Digits[13] = "c" /\ Digits[14] = "d" /\ Digits[15] = "e" /\ Digits[16] = "f"
  BY DEF Digits
<1>2. PICK q : q = SubSeq(Digits, 1, 10)
  OBVIOUS
<1> DEFINE S == {Digits[i] : i \in 1..10} \cup {"A", "B", "C", "D", "E", "F"}
<1>3. q \in Seq(S) /\ Len(q) = 10 /\ q[1] = "0"
  <2>1. \A i \in 1..10 : Digits[i] \in S
    OBVIOUS
  <2> HIDE DEF S
  <2>2. /\ SubSeq(Digits, 1, 10) \in Seq(S)
        /\ Len(SubSeq(Digits, 1, 10)) = IF 1 <= 10 THEN (10 - 1) + 1 ELSE 0
        /\ \A i \in 1..((10 - 1) + 1) : SubSeq(Digits, 1, 10)[i] = Digits[(1 + i) - 1]
    BY <2>1, SubSeqProperties
  <2> QED
    BY <1>1, <1>2, <2>2
<1>4. PICK t : t = <<"A", "B", "C", "D", "E", "F">>
  OBVIOUS
<1>5. t \in Seq(S) /\ Len(t) = 6
  BY <1>4
<1> HIDE DEF S
<1>6. (q \o t)[1] = q[1]
  <2>1. \A i \in 1..(Len(q) + Len(t)) :
          (q \o t)[i] = IF i <= Len(q) THEN q[i] ELSE t[i - Len(q)]
    BY <1>3, <1>5, ConcatProperties
  <2> QED
    BY <1>3, <1>5, <2>1
<1>7. Upper = q \o t
  BY <1>2, <1>4 DEF Upper
<1>8. Upper[1] = "0"
  BY <1>3, <1>6, <1>7
<1>9. \A d \in 0..15 : Digit(d) = "0" <=> d = 0
  BY <1>1 DEF Digit
<1>10. \A d, e \in 0..15 : Digit(d) = Digit(e) => d = e
  BY <1>1 DEF Digit
<1>11. \A d \in 0..15 : Digit(d) \in Chars /\ Upper[d + 1] \in Chars /\ Digit(d) = Digits[d + 1]
  BY DEF Chars, Digit
<1> QED
  BY <1>8, <1>9, <1>10, <1>11
-----------------------------------------------------------------------------
(* The state of a loop that divides by ten. *)
Rest10 == [num : Nat, digits : Seq(Chars)]

(* A round of that loop. *)
LEMMA LowRoundIs ==
    ASSUME NEW v \in Rest10
    PROVE  /\ LowRound(v) \in Rest10
           /\ v.num = 0 => LowRound(v) = v
           /\ v.num # 0 =>
                /\ LowRound(v).num = v.num \div 10
                /\ Len(LowRound(v).digits) = Len(v.digits) + 1
                /\ \A j \in 1..Len(v.digits) : LowRound(v).digits[j] = v.digits[j]
                /\ LowRound(v).digits[Len(v.digits) + 1] = Digit(v.num % 10)
<1>1. PICK n \in Nat, q \in Seq(Chars) : v = [num |-> n, digits |-> q] /\ n = v.num /\ q = v.digits
  BY DEF Rest10
<1>2. v.num = 0 => LowRound(v) = v
  BY DEF LowRound
<1>3. CASE v.num # 0
  <2>1. PICK d : d = Digit(n % 10)
    OBVIOUS
  <2>2. d \in Chars
    <3>1. n % 10 \in 0..15
      OBVIOUS
    <3> QED
      BY <2>1, <3>1, DigitsAre
  <2>3. LowRound(v) = [num |-> n \div 10, digits |-> Append(q, d)]
    BY <1>1, <1>3, <2>1 DEF LowRound
  <2>4. /\ Append(q, d) \in Seq(Chars) /\ Len(Append(q, d)) = Len(q) + 1
        /\ \A j \in 1..Len(q) : Append(q, d)[j] = q[j]
        /\ Append(q, d)[Len(q) + 1] = d
    BY <2>2, AppendProperties
  <2>5. PICK m \in Nat, r \in Seq(Chars) : m = n \div 10 /\ r = Append(q, d)
    <3>1. n \div 10 \in Nat
      OBVIOUS
    <3> QED
      BY <2>4, <3>1, Zenon
  <2>6. /\ Len(r) = Len(q) + 1 /\ \A j \in 1..Len(q) : r[j] = q[j]
        /\ r[Len(q) + 1] = d
    BY <2>4, <2>5, Zenon
  <2>7. LowRound(v) = [num |-> m, digits |-> r]
    BY <2>3, <2>5, Zenon
  <2>8. LowRound(v) \in Rest10 /\ LowRound(v).num = m /\ LowRound(v).digits = r
    BY <2>7 DEF Rest10
  <2> QED
    BY <1>1, <1>3, <2>1, <2>5, <2>6, <2>8, Zenon
<1> QED
  BY <1>2, <1>3

LowRounds == [k \in 1..10 |-> [v \in Rest10 |-> LowRound(v)]]

(* Ten rounds of that loop. *)
LEMMA LowUnrolls ==
    ASSUME NEW n \in Nat
    PROVE  \E F : /\ F[0] = [num |-> n, digits |-> <<>>]
                  /\ \A k \in 0..10 : F[k] \in Rest10
                  /\ \A k \in 1..10 : F[k] = LowRound(F[k - 1])
                  /\ Low(n) = F[10].digits
<1> DEFINE a == [num |-> n, digits |-> <<>>]
           f[k \in 0..10] == IF k = 0 THEN a ELSE LowRound(f[k - 1])
<1>1. a \in Rest10
  BY EmptySeq DEF Rest10
<1>2. Low(n) = f[10].digits
  BY DEF Low
<1> HIDE DEF a
<1>3. LowRounds \in [1..10 -> [Rest10 -> Rest10]]
  <2>1. \A v \in Rest10 : LowRound(v) \in Rest10
    BY LowRoundIs
  <2> QED
    BY <2>1 DEF LowRounds
<1>4. PICK F : Unrolls(F, 10, Rest10, a, LowRounds)
  BY <1>1, <1>3, Recursion
<1>5. /\ F = [k \in 0..10 |-> F[k]] /\ F[0] = a /\ \A k \in 0..10 : F[k] \in Rest10
  BY <1>4 DEF Unrolls
<1>6. \A k \in 1..10 : F[k] = LowRound(F[k - 1])
  <2> SUFFICES ASSUME NEW k \in 1..10 PROVE F[k] = LowRound(F[k - 1])
    OBVIOUS
  <2>1. F[k] = LowRounds[k][F[k - 1]] /\ F[k - 1] \in Rest10
    <3>1. k - 1 \in 0..10
      OBVIOUS
    <3> QED
      BY <1>4, <1>5, <3>1 DEF Unrolls
  <2> QED
    BY <2>1 DEF LowRounds
<1>7. F = [k \in 0..10 |-> IF k = 0 THEN a ELSE LowRound(F[k - 1])]
  <2>1. \A k \in 0..10 : k = 0 \/ k \in 1..10
    OBVIOUS
  <2> QED
    BY <1>5, <1>6, <2>1
<1>8. f = [k \in 0..10 |-> IF k = 0 THEN a ELSE LowRound(f[k - 1])]
  BY <1>7
<1>9. f[0] = a /\ \A k \in 1..10 : f[k - 1] \in Rest10 => f[k] = LowRounds[k][f[k - 1]]
  <2> HIDE DEF f
  <2>1. 0 \in 0..10 /\ \A k \in 1..10 : k \in 0..10 /\ k # 0
    OBVIOUS
  <2>2. f[0] = a
    BY <1>8, <2>1
  <2>3. ASSUME NEW k \in 1..10, f[k - 1] \in Rest10 PROVE f[k] = LowRounds[k][f[k - 1]]
    <3>1. f[k] = LowRound(f[k - 1])
      BY <1>8, <2>1
    <3> QED
      BY <2>3, <3>1 DEF LowRounds
  <2> QED
    BY <2>2, <2>3
<1>10. f[10] = F[10]
  <2> HIDE DEF f
  <2>1. \A k \in 0..10 : f[k] = F[k]
    BY <1>1, <1>4, <1>9, Unique
  <2> QED
    BY <2>1
<1>11. Low(n) = F[10].digits
  <2> HIDE DEF f
  <2> QED
    BY <1>2, <1>10
<1> QED
  BY <1>5, <1>6, <1>11 DEF a

(* Dividing once more. *)
LEMMA NextDigit ==
    ASSUME NEW b \in Nat \ {0}, NEW n \in Nat, NEW k \in Nat
    PROVE  (n \div Power(b, k)) \div b = n \div Power(b, k + 1)
<1>1. PICK D \in Nat \ {0} : D = Power(b, k) /\ Power(b, k + 1) = b * D
  BY Powers
<1>2. (n \div D) \div b = n \div (b * D)
  BY DividedTwice
<1> QED
  BY <1>1, <1>2

(* The loop finds the digits from the lowest. *)
LEMMA LowIs ==
    ASSUME NEW n \in Nat, NEW l, HasDigits(n, 10, l)
    PROVE  /\ n = 0 => Low(n) = <<>>
           /\ n # 0 => /\ Low(n) \in Seq(Chars) /\ Len(Low(n)) = l
                       /\ \A j \in 1..l : Low(n)[j] = Digit((n \div Power(10, j - 1)) % 10)
<1> DEFINE h == IF n = 0 THEN 0 ELSE l
           dig(j) == Digit((n \div Power(10, j - 1)) % 10)
<1>1. h \in 0..10 /\ \A i \in 0..10 : n \div Power(10, i) = 0 <=> i >= h
  <2>1. l \in 1..10 /\ \A i \in 0..10 : n \div Power(10, i) = 0 <=> i >= l \/ n = 0
    BY DEF HasDigits
  <2>2. CASE n = 0
    BY <2>1, <2>2
  <2>3. CASE n # 0
    BY <2>1, <2>3
  <2> QED
    BY <2>2, <2>3
<1>2. PICK F : /\ F[0] = [num |-> n, digits |-> <<>>]
               /\ \A k \in 0..10 : F[k] \in Rest10
               /\ \A k \in 1..10 : F[k] = LowRound(F[k - 1])
               /\ Low(n) = F[10].digits
  BY LowUnrolls
<1> DEFINE C(k) == /\ F[k].num = n \div Power(10, k)
                   /\ Len(F[k].digits) = IF k <= h THEN k ELSE h
                   /\ \A j \in 1..Len(F[k].digits) : F[k].digits[j] = dig(j)
           S == {k \in Nat : k <= 10 => C(k)}
<1>3. 0 \in S
  <2>1. Power(10, 0) = 1
    BY Powers
  <2>2. n \div 1 = n
    OBVIOUS
  <2>3. Len(<<>>) = 0
    OBVIOUS
  <2>4. C(0)
    BY <1>1, <1>2, <2>1, <2>2, <2>3
  <2> QED
    BY <2>4
<1>4. ASSUME NEW k \in S PROVE k + 1 \in S
  <2> HIDE DEF C
  <2>1. SUFFICES ASSUME k + 1 <= 10 PROVE C(k + 1)
    OBVIOUS
  <2>2. k \in 0..9 /\ k \in 0..10 /\ k + 1 \in 1..10 /\ k + 1 \in 0..10 /\ (k + 1) - 1 = k
    BY <2>1
  <2>3. PICK v \in Rest10, w \in Rest10 : v = F[k] /\ w = F[k + 1] /\ w = LowRound(v)
    BY <1>2, <2>2
  <2>4. k \in Nat /\ C(k)
    BY <2>2
  <2>5. /\ v.num = n \div Power(10, k) /\ Len(v.digits) = IF k <= h THEN k ELSE h
        /\ \A j \in 1..Len(v.digits) : v.digits[j] = dig(j)
    BY <2>3, <2>4 DEF C
  <2>6. (n \div Power(10, k)) \div 10 = n \div Power(10, k + 1)
    <3>1. PICK b \in Nat \ {0} : b = 10
      OBVIOUS
    <3>2. (n \div Power(b, k)) \div b = n \div Power(b, k + 1)
      BY <2>4, NextDigit
    <3> QED
      BY <3>1, <3>2
  <2>7. v.num \in Nat /\ v.digits \in Seq(Chars)
    BY DEF Rest10
  <2>8. CASE v.num = 0
    <3>1. w = v /\ k >= h
      BY <1>1, <2>2, <2>3, <2>5, <2>8, LowRoundIs
    <3>2. n \div Power(10, k + 1) = 0
      BY <1>1, <2>2, <3>1
    <3> HIDE DEF dig, h
    <3>3. Len(w.digits) = IF k + 1 <= h THEN k + 1 ELSE h
      BY <1>1, <2>2, <2>5, <3>1
    <3> QED
      BY <2>3, <2>5, <2>8, <3>1, <3>2, <3>3 DEF C
  <2>9. CASE v.num # 0
    <3>1. k < h /\ h \in Nat
      <4> HIDE DEF dig, h
      <4>1. h \in Nat /\ (k >= h => n \div Power(10, k) = 0)
        BY <1>1, <2>2
      <4>2. n \div Power(10, k) # 0
        BY <2>5, <2>9
      <4> QED
        BY <2>2, <4>1, <4>2
    <3>2. Len(v.digits) = k
      BY <2>2, <2>5, <3>1
    <3>3. /\ w.num = v.num \div 10
          /\ Len(w.digits) = k + 1
          /\ \A j \in 1..k : w.digits[j] = v.digits[j]
          /\ w.digits[k + 1] = Digit(v.num % 10)
      BY <2>3, <2>9, <3>2, LowRoundIs
    <3>4. w.digits[k + 1] = dig(k + 1)
      BY <2>2, <2>5, <3>3
    <3> HIDE DEF dig, h
    <3>5. \A j \in 1..(k + 1) : w.digits[j] = dig(j)
      <4>1. \A j \in 1..(k + 1) : j \in 1..k \/ j = k + 1
        BY <2>2
      <4> QED
        BY <2>5, <3>2, <3>3, <3>4, <4>1
    <3>6. w.num = n \div Power(10, k + 1)
      BY <2>5, <2>6, <3>3
    <3>7. k + 1 <= h
      BY <1>1, <2>2, <3>1
    <3> QED
      BY <2>3, <3>3, <3>5, <3>6, <3>7 DEF C
  <2> QED
    BY <2>8, <2>9
<1>5. C(10)
  <2>1. S \in SUBSET Nat
    OBVIOUS
  <2>2. S = Nat
    <3> HIDE DEF S
    <3> QED
      BY <1>3, <1>4, <2>1, Induct
  <2>3. 10 \in S
    BY <2>2
  <2> HIDE DEF C
  <2> QED
    BY <2>3
<1>6. Len(Low(n)) = h /\ \A j \in 1..h : Low(n)[j] = dig(j)
  <2> HIDE DEF dig, h
  <2> QED
    BY <1>1, <1>2, <1>5
<1>7. Low(n) \in Seq(Chars)
  BY <1>2 DEF Rest10
<1>8. n = 0 => Low(n) = <<>>
  BY <1>6, <1>7, EmptySeq
<1> QED
  BY <1>6, <1>7, <1>8
-----------------------------------------------------------------------------
(* A sequence the other way round. *)
LEMMA Reversed ==
    ASSUME NEW S, NEW q \in Seq(S)
    PROVE  /\ Reverse(q) \in Seq(S) /\ Len(Reverse(q)) = Len(q)
           /\ \A k \in 1..Len(q) : Reverse(q)[k] = q[Len(q) - k + 1]
<1>1. PICK n \in Nat : n = Len(q) /\ \A k \in 1..n : q[k] \in S
  BY LenProperties, ElementOfSeq
<1>2. Reverse(q) = [k \in 1..n |-> q[(n - k) + 1]]
  BY <1>1 DEF Reverse
<1>3. \A k \in 1..n : q[(n - k) + 1] \in S /\ q[(n - k) + 1] = q[Len(q) - k + 1]
  <2>1. \A k \in 1..n : (n - k) + 1 \in 1..n
    BY <1>1
  <2> QED
    BY <1>1, <2>1
<1>4. Reverse(q) \in [1..n -> S]
  BY <1>2, <1>3
<1>5. Reverse(q) \in Seq(S) /\ Len(Reverse(q)) = n
  BY <1>1, <1>4, FunctionSeq
<1> QED
  BY <1>1, <1>2, <1>3, <1>5

(* What comes last comes first. *)
LEMMA ReversedLast ==
    ASSUME NEW S, NEW q \in Seq(S), NEW c \in S
    PROVE  Reverse(q \o <<c>>) = <<c>> \o Reverse(q)
<1>1. PICK t \in Seq(S) : t = <<c>> /\ Len(t) = 1 /\ t[1] = c
  <2>1. <<c>> \in Seq(S)
    OBVIOUS
  <2>2. Len(<<c>>) = 1 /\ <<c>>[1] = c
    OBVIOUS
  <2> QED
    BY <2>1, <2>2
<1>2. PICK n \in Nat : n = Len(q)
  BY LenProperties
<1>3. PICK u \in Seq(S) : /\ u = q \o t /\ Len(u) = n + 1
                          /\ (\A k \in 1..n : u[k] = q[k]) /\ u[n + 1] = c
  <2>1. /\ Append(q, c) \in Seq(S) /\ Len(Append(q, c)) = Len(q) + 1
        /\ \A k \in 1..Len(q) : Append(q, c)[k] = q[k]
        /\ Append(q, c)[Len(q) + 1] = c
    BY AppendProperties
  <2>2. Append(q, c) = q \o t
    BY <1>1, AppendIsConcat
  <2> QED
    BY <1>2, <2>1, <2>2
<1>4. PICK p \in Seq(S) : p = Reverse(q) /\ Len(p) = n /\ \A k \in 1..n : p[k] = q[n - k + 1]
  BY <1>2, Reversed
<1>5. PICK v \in Seq(S) : /\ v = t \o p /\ Len(v) = n + 1
                          /\ \A k \in 1..(n + 1) : v[k] = IF k <= 1 THEN t[k] ELSE p[k - 1]
  <2>1. Len(t) + Len(p) = n + 1
    BY <1>1, <1>4
  <2>2. /\ t \o p \in Seq(S) /\ Len(t \o p) = Len(t) + Len(p)
        /\ \A k \in 1..(Len(t) + Len(p)) :
             (t \o p)[k] = IF k <= Len(t) THEN t[k] ELSE p[k - Len(t)]
    BY ConcatProperties
  <2> QED
    BY <1>1, <2>1, <2>2
<1>6. PICK w \in Seq(S) : /\ w = Reverse(u) /\ Len(w) = n + 1
                          /\ \A k \in 1..(n + 1) : w[k] = u[(n - k) + 2]
  <2>1. PICK w \in Seq(S) : /\ w = Reverse(u) /\ Len(w) = Len(u)
                            /\ \A k \in 1..Len(u) : w[k] = u[Len(u) - k + 1]
    BY Reversed
  <2>2. Len(w) = n + 1 /\ \A k \in 1..(n + 1) : w[k] = u[(n + 1) - k + 1]
    BY <1>3, <2>1
  <2>3. ASSUME NEW k \in 1..(n + 1) PROVE w[k] = u[(n - k) + 2]
    <3>1. (n + 1) - k + 1 = (n - k) + 2
      OBVIOUS
    <3> QED
      BY <2>2, <3>1
  <2> QED
    BY <2>1, <2>2, <2>3
<1>7. ASSUME NEW k \in 1..(n + 1) PROVE w[k] = v[k]
  <2>1. CASE k = 1
    <3>1. (n - k) + 2 = n + 1
      BY <2>1
    <3>2. w[k] = u[n + 1]
      BY <1>6, <3>1
    <3> QED
      BY <1>1, <1>3, <1>5, <2>1, <3>2
  <2>2. CASE k # 1
    <3>1. /\ k - 1 \in 1..n /\ (n - k) + 2 \in 1..n
          /\ n - (k - 1) + 1 = (n - k) + 2
      BY <2>2
    <3>2. w[k] = q[(n - k) + 2]
      BY <1>3, <1>6, <3>1
    <3>3. v[k] = p[k - 1] /\ p[k - 1] = q[n - (k - 1) + 1]
      BY <1>4, <1>5, <2>2, <3>1
    <3> QED
      BY <3>1, <3>2, <3>3
  <2> QED
    BY <2>1, <2>2
<1>8. w = v
  BY <1>3, <1>5, <1>6, <1>7, SeqEqual
<1> QED
  BY <1>1, <1>3, <1>4, <1>5, <1>6, <1>8

(* An int has no more than ten digits. *)
LEMMA TenDigits == INT_MAX \in Nat /\ \A n \in Nat : n <= INT_MAX => n < Power(10, 10)
<1>1. PICK b \in Nat \ {0} : b = 10
  OBVIOUS
<1> DEFINE P(k) == Power(b, k)
<1>2. P(0) = 1 /\ \A k \in Nat : P(k) \in Nat /\ P(k + 1) = 10 * P(k)
  BY <1>1, Powers
<1> HIDE DEF P
<1>3. P(1) = 10
  <2>1. 0 + 1 = 1
    OBVIOUS
  <2> QED
    BY <1>2, <2>1
<1>4. P(2) = 100
  <2>1. 1 + 1 = 2
    OBVIOUS
  <2> QED
    BY <1>2, <1>3, <2>1, SMT
<1>5. P(3) = 1000
  <2>1. 2 + 1 = 3
    OBVIOUS
  <2> QED
    BY <1>2, <1>4, <2>1, SMT
<1>6. P(4) = 10000
  <2>1. 3 + 1 = 4
    OBVIOUS
  <2> QED
    BY <1>2, <1>5, <2>1, SMT
<1>7. P(5) = 100000
  <2>1. 4 + 1 = 5
    OBVIOUS
  <2> QED
    BY <1>2, <1>6, <2>1, SMT
<1>8. P(6) = 1000000
  <2>1. 5 + 1 = 6
    OBVIOUS
  <2> QED
    BY <1>2, <1>7, <2>1, SMT
<1>9. P(7) = 10000000
  <2>1. 6 + 1 = 7
    OBVIOUS
  <2> QED
    BY <1>2, <1>8, <2>1, SMT
<1>10. P(8) = 100000000
  <2>1. 7 + 1 = 8
    OBVIOUS
  <2> QED
    BY <1>2, <1>9, <2>1, SMT
<1>11. P(9) = 1000000000
  <2>1. 8 + 1 = 9
    OBVIOUS
  <2> QED
    BY <1>2, <1>10, <2>1, SMT
<1>12. P(10) = 10000000000
  <2>1. 9 + 1 = 10
    OBVIOUS
  <2> QED
    BY <1>2, <1>11, <2>1, SMT
<1>13. INT_MAX \in Nat /\ \A n \in Nat : n <= INT_MAX => n < 10000000000
  BY SMT DEF INT_MAX
<1> QED
  BY <1>1, <1>12, <1>13, SMT DEF P

(* The digits of a numeral are characters. *)
LEMMA NumeralSeq ==
    ASSUME NEW b \in {10, 16}, NEW n \in Nat, NEW l, HasDigits(n, b, l)
    PROVE  /\ Numeral(n, b) \in Seq(Chars) /\ Len(Numeral(n, b)) = l
           /\ \A k \in 1..l : Numeral(n, b)[k] = Digit((n \div Power(b, l - k)) % b)
           /\ n = 0 => Numeral(n, b) = <<"0">>
<1>1. l \in 1..10 /\ Numeral(n, b) = [k \in 1..l |-> Digit((n \div Power(b, l - k)) % b)]
  BY DEF HasDigits
<1>2. b \in Nat \ {0} /\ \A c \in Nat : c % b \in 0..15
  OBVIOUS
<1>3. ASSUME NEW k \in 1..l
      PROVE  (n \div Power(b, l - k)) % b \in 0..15
  <2>1. PICK i \in Nat : i = l - k
    BY <1>1
  <2>2. PICK D \in Nat \ {0} : D = Power(b, i)
    BY <1>2, Powers
  <2>3. n \div D \in Nat
    OBVIOUS
  <2> QED
    BY <1>2, <2>1, <2>2, <2>3
<1>4. \A k \in 1..l : Digit((n \div Power(b, l - k)) % b) \in Chars
  BY <1>3, DigitsAre
<1>5. Numeral(n, b) \in [1..l -> Chars]
  BY <1>1, <1>4
<1>6. Numeral(n, b) \in Seq(Chars) /\ Len(Numeral(n, b)) = l
  BY <1>1, <1>5, FunctionSeq
<1>7. ASSUME n = 0 PROVE Numeral(n, b) = <<"0">>
  <2>1. l = 1 /\ 1 \in 1..l /\ l - 1 = 0
    BY <1>7 DEF HasDigits
  <2>2. Power(b, 0) = 1
    BY <1>2, Powers
  <2>3. (n \div Power(b, l - 1)) % b = 0
    BY <1>2, <1>7, <2>1, <2>2
  <2>4. Digit(0) = "0"
    BY DigitsAre
  <2>5. Numeral(n, b)[1] = "0"
    BY <1>1, <2>1, <2>3, <2>4
  <2> QED
    BY <1>6, <2>1, <2>5
<1> QED
  BY <1>1, <1>6, <1>7
-----------------------------------------------------------------------------
(* The digits from the lowest, turned round, are the numeral. *)
LEMMA TurnedDigits ==
    ASSUME NEW n \in Nat, n <= INT_MAX
    PROVE  /\ Numeral(n, 10) \in Seq(Chars)
           /\ n = 0 => Numeral(n, 10) = <<"0">> /\ Low(n) = <<>>
           /\ Low(n) \in Seq(Chars)
           /\ n # 0 => Reverse(Low(n)) = Numeral(n, 10)
<1>1. PICK b \in {10, 16} : b = 10
  OBVIOUS
<1>2. PICK l : HasDigits(n, b, l)
  <2>1. n < Power(b, 10)
    BY <1>1, TenDigits
  <2> QED
    BY <2>1, NumeralIs
<1>3. /\ Numeral(n, b) \in Seq(Chars) /\ Len(Numeral(n, b)) = l
      /\ \A k \in 1..l : Numeral(n, b)[k] = Digit((n \div Power(b, l - k)) % b)
      /\ n = 0 => Numeral(n, b) = <<"0">>
  BY <1>2, NumeralSeq
<1>4. /\ n = 0 => Low(n) = <<>>
      /\ n # 0 => /\ Low(n) \in Seq(Chars) /\ Len(Low(n)) = l
                  /\ \A j \in 1..l : Low(n)[j] = Digit((n \div Power(b, j - 1)) % b)
  BY <1>1, <1>2, LowIs
<1>5. ASSUME n # 0 PROVE Reverse(Low(n)) = Numeral(n, b)
  <2>1. PICK q \in Seq(Chars) : q = Low(n)
    BY <1>4, <1>5
  <2>2. Len(q) = l /\ \A j \in 1..l : q[j] = Digit((n \div Power(b, j - 1)) % b)
    BY <1>4, <1>5, <2>1
  <2>3. PICK p \in Seq(Chars) : p = Reverse(q) /\ Len(p) = l /\ \A k \in 1..l : p[k] = q[l - k + 1]
    BY <2>2, Reversed
  <2>4. PICK t \in Seq(Chars) : t = Numeral(n, b)
    BY <1>3
  <2>5. ASSUME NEW k \in 1..l PROVE p[k] = t[k]
    <3>1. l - k + 1 \in 1..l /\ (l - k + 1) - 1 = l - k
      BY <1>2 DEF HasDigits
    <3>2. q[l - k + 1] = Digit((n \div Power(b, l - k)) % b)
      BY <2>2, <3>1
    <3> QED
      BY <1>3, <2>3, <2>4, <3>2
  <2>6. p = t
    BY <1>3, <2>3, <2>4, <2>5, SeqEqual
  <2> QED
    BY <2>1, <2>3, <2>4, <2>6
<1> QED
  BY <1>1, <1>3, <1>4, <1>5, EmptySeq

(* The decimal conversions. *)
LEMMA DecimalIs ==
    ASSUME NEW n \in Ints
    PROVE  /\ Decimal(n) \in Seq(Chars)
           /\ serial_print_int(n) = Decimal(n)
           /\ kprintf_int(n) = IF n < 0 THEN <<>> ELSE Decimal(n)
           /\ n < 0 => Len(Decimal(n)) > 0
<1>1. n \in Int /\ n <= INT_MAX /\ -n <= INT_MAX /\ 0 <= INT_MAX
  BY FormatAssumption, TenDigits
<1>2. CASE n = 0
  <2>1. Numeral(0, 10) = <<"0">> /\ Numeral(0, 10) \in Seq(Chars)
    <3>1. 0 \in Nat /\ 0 <= INT_MAX
      BY <1>1
    <3> QED
      BY <3>1, TurnedDigits
  <2> QED
    BY <1>2, <2>1 DEF Decimal, serial_print_int, kprintf_int
<1>3. CASE n > 0
  <2>1. /\ Numeral(n, 10) \in Seq(Chars) /\ Low(n) \in Seq(Chars)
        /\ Reverse(Low(n)) = Numeral(n, 10)
    BY <1>1, <1>3, TurnedDigits
  <2>2. Low(n) \o <<>> = Low(n)
    BY <2>1, ConcatEmptySeq
  <2>3. Decimal(n) = Numeral(n, 10)
    BY <1>1, <1>3 DEF Decimal
  <2>4. serial_print_int(n) = Reverse(Low(n))
    <3>1. n # 0 /\ ~(n < 0)
      BY <1>1, <1>3
    <3> QED
      BY <2>2, <3>1, Zenon DEF serial_print_int
  <2>5. kprintf_int(n) = Reverse(Low(n))
    BY <1>1, <1>3 DEF kprintf_int
  <2> QED
    BY <1>1, <1>3, <2>1, <2>3, <2>4, <2>5
<1>4. CASE n < 0
  <2>1. PICK m \in Nat : m = -n /\ m # 0 /\ m <= INT_MAX
    BY <1>1, <1>4
  <2>2. PICK q \in Seq(Chars), t \in Seq(Chars) :
          q = Low(m) /\ t = Numeral(m, 10) /\ Reverse(q) = t
    BY <2>1, TurnedDigits
  <2>3. "-" \in Chars
    BY DEF Chars
  <2>4. Reverse(q \o <<"-">>) = <<"-">> \o t
    BY <2>2, <2>3, ReversedLast
  <2>5. serial_print_int(n) = Reverse(q \o <<"-">>)
    BY <1>1, <1>4, <2>1, <2>2 DEF serial_print_int
  <2>6. Decimal(n) = <<"-">> \o t
    BY <1>1, <1>4, <2>1, <2>2 DEF Decimal
  <2>7. <<"-">> \o t \in Seq(Chars) /\ Len(<<"-">> \o t) > 0
    <3>1. PICK p \in Seq(Chars) : p = <<"-">> /\ Len(p) = 1
      <4>1. \A c \in Chars : <<c>> \in Seq(Chars) /\ Len(<<c>>) = 1
        OBVIOUS
      <4> QED
        BY <2>3, <4>1, Zenon
    <3>2. p \o t \in Seq(Chars) /\ Len(p \o t) = Len(p) + Len(t)
      BY ConcatProperties
    <3>3. Len(t) \in Nat
      BY LenProperties
    <3>4. Len(p \o t) > 0
      BY <3>1, <3>2, <3>3
    <3> QED
      BY <3>1, <3>2, <3>4, Zenon
  <2>8. Reverse(Low(0)) = <<>>
    <3>1. Low(0) = <<>> /\ <<>> \in Seq(Chars) /\ Len(<<>>) = 0
      <4>1. 0 \in Nat /\ 0 <= INT_MAX
        BY <1>1
      <4> QED
        BY <4>1, TurnedDigits, EmptySeq
    <3>2. Reverse(<<>>) \in Seq(Chars) /\ Len(Reverse(<<>>)) = 0
      BY <3>1, Reversed
    <3> QED
      BY <3>1, <3>2, EmptySeq
  <2>9. kprintf_int(n) = <<>>
    BY <1>1, <1>4, <2>8 DEF kprintf_int
  <2> QED
    BY <1>4, <2>4, <2>5, <2>6, <2>7, <2>9
<1> QED
  BY <1>1, <1>2, <1>3, <1>4

(* The hexadecimal digits kprintf and serial_print_hex take. *)
Nibble(n, k) == (n \div Power(16, NIBBLES - k)) % 16

(* An unsigned int and its nibbles, l of which are not leading zeroes. *)
LEMMA NibblesAre ==
    ASSUME NEW n \in Nat, n < Power(16, NIBBLES)
    PROVE  \E l : /\ HasDigits(n, 16, l) /\ l \in 1..NIBBLES
                  /\ \A k \in 1..NIBBLES : Nibble(n, k) \in 0..15
                  /\ \A k \in 1..(NIBBLES - l) : Nibble(n, k) = 0
                  /\ n # 0 => Nibble(n, NIBBLES - l + 1) # 0
<1>1. NIBBLES \in 1..8
  BY FormatAssumption
<1>2. PICK b \in Nat \ {0} : b = 16
  OBVIOUS
<1>3. PICK E \in Nat \ {0}, T \in Nat \ {0} : E = Power(b, NIBBLES) /\ T = Power(b, 10)
  <2>1. NIBBLES \in Nat /\ 10 \in Nat
    BY <1>1
  <2>2. Power(b, NIBBLES) \in Nat \ {0} /\ Power(b, 10) \in Nat \ {0}
    BY <2>1, Powers
  <2> QED
    BY <2>2, Zenon
<1>4. E <= T
  BY <1>1, <1>3, PowersGrow
<1>5. n < E /\ n < T
  BY <1>2, <1>3, <1>4
<1>6. PICK l : HasDigits(n, b, l)
  BY <1>3, <1>5, NumeralIs
<1>7. /\ l \in 1..10 /\ (n = 0 => l = 1)
      /\ \A i \in 0..10 : n \div Power(b, i) = 0 <=> i >= l \/ n = 0
  BY <1>6 DEF HasDigits
<1>8. l \in 1..NIBBLES
  <2>1. n \div E = 0
    BY <1>5, Smaller
  <2>2. NIBBLES >= l \/ n = 0
    BY <1>1, <1>3, <1>7, <2>1
  <2> QED
    BY <1>1, <1>7, <2>2
<1>9. ASSUME NEW k \in 1..NIBBLES
      PROVE  Nibble(n, k) \in 0..15
  <2>1. PICK i \in Nat : i = NIBBLES - k
    BY <1>1
  <2>2. PICK D \in Nat \ {0} : D = Power(b, i)
    BY Powers
  <2>3. n \div D \in Nat /\ \A c \in Nat : c % 16 \in 0..15
    OBVIOUS
  <2> QED
    BY <1>2, <2>1, <2>2, <2>3 DEF Nibble
<1>10. ASSUME NEW k \in 1..(NIBBLES - l)
       PROVE  Nibble(n, k) = 0
  <2>1. NIBBLES - k \in 0..10 /\ NIBBLES - k >= l
    BY <1>1, <1>8
  <2>2. n \div Power(b, NIBBLES - k) = 0
    BY <1>7, <2>1
  <2>3. 0 % 16 = 0
    OBVIOUS
  <2> QED
    BY <1>2, <2>2, <2>3 DEF Nibble
<1>11. ASSUME n # 0 PROVE Nibble(n, NIBBLES - l + 1) # 0
  <2>1. PICK i \in Nat : i = l - 1 /\ i + 1 = l /\ i \in 0..10 /\ l \in 0..10
    BY <1>7
  <2>2. PICK D \in Nat \ {0} : D = Power(b, i)
    BY Powers
  <2>3. PICK c \in Nat : c = n \div D
    OBVIOUS
  <2>4. c # 0
    BY <1>7, <1>11, <2>1, <2>2, <2>3
  <2>5. n \div Power(b, l) = 0
    BY <1>7, <2>1
  <2>6. (n \div D) \div b = n \div Power(b, i + 1)
    BY <2>2, NextDigit
  <2>7. c \div 16 = 0
    BY <1>2, <2>1, <2>3, <2>5, <2>6
  <2>8. c % 16 = c
    BY <2>7
  <2>9. NIBBLES - (NIBBLES - l + 1) = i
    BY <1>1, <1>8, <2>1
  <2> QED
    BY <1>2, <2>2, <2>3, <2>4, <2>8, <2>9 DEF Nibble
<1> QED
  BY <1>2, <1>6, <1>8, <1>9, <1>10, <1>11
-----------------------------------------------------------------------------
(* Without its leading zeroes the buffer of serial_print_hex is the        *)
(* numeral.                                                                *)
LEMMA HexIs ==
    ASSUME NEW n \in Nat, n < Power(16, NIBBLES)
    PROVE  /\ Numeral(n, 16) \in Seq(Chars)
           /\ serial_print_hex(n) = <<"0", "x">> \o Numeral(n, 16)
<1>1. PICK b \in {10, 16} : b = 16
  OBVIOUS
<1>2. PICK l : /\ HasDigits(n, b, l) /\ l \in 1..NIBBLES
               /\ \A k \in 1..NIBBLES : Nibble(n, k) \in 0..15
               /\ \A k \in 1..(NIBBLES - l) : Nibble(n, k) = 0
               /\ n # 0 => Nibble(n, NIBBLES - l + 1) # 0
  BY <1>1, NibblesAre
<1>3. /\ Numeral(n, b) \in Seq(Chars) /\ Len(Numeral(n, b)) = l
      /\ \A k \in 1..l : Numeral(n, b)[k] = Digit((n \div Power(b, l - k)) % b)
      /\ n = 0 => Numeral(n, b) = <<"0">>
  BY <1>2, NumeralSeq
<1>4. NIBBLES \in Nat
  BY FormatAssumption
<1>5. PICK q : q = Nibbles(n, Digits)
  OBVIOUS
<1>6. \A k \in 1..NIBBLES : q[k] = Digit(Nibble(n, k)) /\ q[k] \in Chars
                            /\ (q[k] = "0" <=> Nibble(n, k) = 0)
  <2>1. \A k \in 1..NIBBLES : q[k] = Digit(Nibble(n, k))
    BY <1>5 DEF Nibbles, Nibble, Digit
  <2> QED
    BY <1>2, <2>1, DigitsAre
<1> DEFINE Leads(k) == /\ k = NIBBLES \/ q[k] # "0"
                       /\ \A j \in 1..(k - 1) : q[j] = "0"
           start == CHOOSE k \in 1..NIBBLES : Leads(k)
<1>7. serial_print_hex(n) = <<"0", "x">> \o (IF n = 0 THEN <<"0">> ELSE SubSeq(q, start, NIBBLES))
  BY <1>5 DEF serial_print_hex
<1>8. ASSUME n # 0 PROVE SubSeq(q, start, NIBBLES) = Numeral(n, b)
  <2>1. PICK s \in 1..NIBBLES : s = NIBBLES - l + 1 /\ s - 1 = NIBBLES - l
    BY <1>2, <1>4
  <2>2. Leads(s)
    BY <1>2, <1>4, <1>6, <1>8, <2>1
  <2>3. ASSUME NEW k \in 1..NIBBLES, Leads(k) PROVE k = s
    <3>1. k < s => k \in 1..(s - 1) /\ k # NIBBLES
      BY <1>4
    <3>2. s < k => s \in 1..(k - 1) /\ s # NIBBLES
      BY <1>4
    <3>3. ~(k < s)
      BY <2>2, <2>3, <3>1
    <3>4. ~(s < k)
      BY <2>2, <2>3, <3>2
    <3> QED
      BY <1>4, <3>3, <3>4
  <2>4. start = s
    <3> HIDE DEF Leads
    <3> QED
      BY <2>2, <2>3
  <2> HIDE DEF start
  <2>5. /\ SubSeq(q, s, NIBBLES) \in Seq(Chars) /\ Len(SubSeq(q, s, NIBBLES)) = l
        /\ \A k \in 1..l : SubSeq(q, s, NIBBLES)[k] = q[(s + k) - 1]
    <3>1. s \in Int /\ NIBBLES \in Int /\ \A k \in s..NIBBLES : q[k] \in Chars
      BY <1>4, <1>6
    <3>2. /\ SubSeq(q, s, NIBBLES) \in Seq(Chars)
          /\ Len(SubSeq(q, s, NIBBLES)) = IF s <= NIBBLES THEN (NIBBLES - s) + 1 ELSE 0
          /\ \A k \in 1..((NIBBLES - s) + 1) : SubSeq(q, s, NIBBLES)[k] = q[(s + k) - 1]
      BY <3>1, SubSeqProperties
    <3>3. (NIBBLES - s) + 1 = l /\ s <= NIBBLES
      BY <1>2, <1>4, <2>1
    <3> QED
      BY <3>2, <3>3
  <2>6. ASSUME NEW k \in 1..l PROVE SubSeq(q, s, NIBBLES)[k] = Numeral(n, b)[k]
    <3>1. (s + k) - 1 \in 1..NIBBLES /\ NIBBLES - ((s + k) - 1) = l - k
      BY <1>2, <1>4, <2>1
    <3>2. Nibble(n, (s + k) - 1) = (n \div Power(b, l - k)) % b
      BY <1>1, <3>1 DEF Nibble
    <3> QED
      BY <1>3, <1>6, <2>5, <3>1, <3>2
  <2>7. PICK u \in Seq(Chars), v \in Seq(Chars) : u = SubSeq(q, s, NIBBLES) /\ v = Numeral(n, b)
    BY <1>3, <2>5
  <2>8. u = v
    BY <1>3, <2>5, <2>6, <2>7, SeqEqual
  <2> QED
    BY <2>4, <2>7, <2>8
<1> HIDE DEF start
<1> QED
  BY <1>1, <1>3, <1>7, <1>8

(* The nibbles of kprintf are the numeral in capitals after zeroes. *)
LEMMA UpperIs ==
    ASSUME NEW n \in Nat, n < Power(16, NIBBLES)
    PROVE  Nibbles(n, Upper) \in Seq(Chars) /\ Nibbles(n, Upper) = UpperNumeral(n)
<1>1. PICK b \in {10, 16} : b = 16
  OBVIOUS
<1>2. PICK l : /\ HasDigits(n, b, l) /\ l \in 1..NIBBLES
               /\ \A k \in 1..NIBBLES : Nibble(n, k) \in 0..15
               /\ \A k \in 1..(NIBBLES - l) : Nibble(n, k) = 0
  BY <1>1, NibblesAre
<1> DEFINE t == Numeral(n, 16)
           Capital(c) == Upper[CHOOSE d \in 1..16 : Digits[d] = c]
           Glyph(k) == IF (k - NIBBLES) + Len(t) < 1 THEN "0"
                       ELSE Capital(t[(k - NIBBLES) + Len(t)])
<1>3. t \in Seq(Chars) /\ Len(t) = l
      /\ \A k \in 1..l : t[k] = Digit((n \div Power(b, l - k)) % b)
  <2>1. /\ Numeral(n, b) \in Seq(Chars) /\ Len(Numeral(n, b)) = l
        /\ \A k \in 1..l : Numeral(n, b)[k] = Digit((n \div Power(b, l - k)) % b)
        /\ n = 0 => Numeral(n, b) = <<"0">>
    BY <1>2, NumeralSeq
  <2>2. t = Numeral(n, b)
    BY <1>1
  <2> HIDE DEF t
  <2> QED
    BY <2>1, <2>2, Zenon
<1>4. NIBBLES \in Nat
  BY FormatAssumption
<1>5. Nibbles(n, Upper) = [k \in 1..NIBBLES |-> Upper[Nibble(n, k) + 1]]
  BY DEF Nibbles, Nibble
<1>6. UpperNumeral(n) = [k \in 1..NIBBLES |-> Glyph(k)]
  BY DEF UpperNumeral
<1> HIDE DEF t, Capital, Glyph
<1>7. ASSUME NEW k \in 1..NIBBLES PROVE Upper[Nibble(n, k) + 1] = Glyph(k)
  <2>0. Glyph(k) = IF (k - NIBBLES) + l < 1 THEN "0" ELSE Capital(t[(k - NIBBLES) + l])
    BY <1>3 DEF Glyph
  <2>1. CASE (k - NIBBLES) + l < 1
    <3>1. k \in 1..(NIBBLES - l)
      BY <1>2, <1>4, <2>1
    <3>2. Nibble(n, k) = 0 /\ 0 + 1 = 1
      BY <1>2, <3>1
    <3> QED
      BY <2>1, <2>0, <3>2, DigitsAre
  <2>2. CASE (k - NIBBLES) + l >= 1
    <3>1. PICK j \in 1..l : j = (k - NIBBLES) + l /\ l - j = NIBBLES - k
      BY <1>2, <1>4, <2>2
    <3>2. t[j] = Digit(Nibble(n, k))
      BY <1>1, <1>3, <3>1 DEF Nibble
    <3>3. PICK e \in 1..16 : e = Nibble(n, k) + 1 /\ Digits[e] = t[j]
      BY <1>2, <3>2, DigitsAre
    <3>4. ASSUME NEW d \in 1..16, Digits[d] = t[j] PROVE d = e
      <4>1. PICK x \in 0..15, y \in 0..15 : d = x + 1 /\ e = y + 1
        <5>1. d - 1 \in 0..15 /\ e - 1 \in 0..15 /\ d = (d - 1) + 1 /\ e = (e - 1) + 1
          OBVIOUS
        <5> QED
          BY <5>1
      <4>2. Digit(x) = Digits[d] /\ Digit(y) = Digits[e]
        BY <4>1, DigitsAre
      <4>3. x = y
        BY <3>3, <3>4, <4>2, DigitsAre
      <4> QED
        BY <4>1, <4>3
    <3>5. (CHOOSE d \in 1..16 : Digits[d] = t[j]) = e
      BY <3>3, <3>4
    <3>6. ~((k - NIBBLES) + l < 1)
      BY <1>2, <1>4, <2>2
    <3>7. Capital(t[j]) = Upper[e]
      BY <3>5 DEF Capital
    <3>8. Glyph(k) = Capital(t[j])
      BY <2>0, <3>1, <3>6
    <3> QED
      BY <3>3, <3>7, <3>8
  <2> QED
    BY <1>2, <1>4, <2>1, <2>2
<1>8. \A k \in 1..NIBBLES : Upper[Nibble(n, k) + 1] \in Chars
  BY <1>2, DigitsAre
<1>9. Nibbles(n, Upper) \in [1..NIBBLES -> Chars]
  BY <1>5, <1>8
<1>10. Nibbles(n, Upper) \in Seq(Chars)
  BY <1>4, <1>9, FunctionSeq
<1>11. Nibbles(n, Upper) = UpperNumeral(n)
  BY <1>5, <1>6, <1>7
<1> QED
  BY <1>10, <1>11
-----------------------------------------------------------------------------
(* Formatted output: the loops over the format *)

(* The first n of a sequence. *)
LEMMA UpToIs ==
    ASSUME NEW S, NEW q \in Seq(S), NEW n \in Nat
    PROVE  /\ UpTo(q, n) \in Seq(S)
           /\ Len(UpTo(q, n)) = IF n < Len(q) THEN n ELSE Len(q)
           /\ \A k \in 1..Len(UpTo(q, n)) : UpTo(q, n)[k] = q[k]
           /\ Len(q) <= n => UpTo(q, n) = q
<1>1. PICK m \in Nat : m = Len(q) /\ \A i \in 1..m : q[i] \in S
  BY LenProperties, ElementOfSeq
<1>2. PICK j \in Nat : j = (IF n < m THEN n ELSE m) /\ j <= m
  OBVIOUS
<1>3. UpTo(q, n) = SubSeq(q, 1, j)
  BY <1>1, <1>2 DEF UpTo
<1>4. /\ SubSeq(q, 1, j) \in Seq(S)
      /\ Len(SubSeq(q, 1, j)) = IF 1 <= j THEN (j - 1) + 1 ELSE 0
      /\ \A i \in 1..((j - 1) + 1) : SubSeq(q, 1, j)[i] = q[(1 + i) - 1]
  <2>1. 1 \in Int /\ j \in Int /\ \A i \in 1..j : q[i] \in S
    BY <1>1, <1>2
  <2> QED
    BY <2>1, SubSeqProperties
<1>5. Len(SubSeq(q, 1, j)) = j /\ \A i \in 1..j : SubSeq(q, 1, j)[i] = q[i]
  BY <1>2, <1>4
<1>6. j = m => SubSeq(q, 1, j) = q
  BY <1>1, SubSeqFull
<1> QED
  BY <1>1, <1>2, <1>3, <1>4, <1>5, <1>6

(* Two sequences, one after the other. *)
LEMMA Joined ==
    ASSUME NEW S, NEW p \in Seq(S), NEW q \in Seq(S), NEW a, NEW c, a = Len(p), c = Len(q)
    PROVE  /\ p \o q \in Seq(S) /\ Len(p \o q) = a + c
           /\ \A k \in 1..(a + c) : (p \o q)[k] = IF k <= a THEN p[k] ELSE q[k - a]
<1> QED
  BY ConcatProperties, Zenon

(* What kprintf adds to the buffer: as much of w as fits. *)
LEMMA Fitted ==
    ASSUME NEW S, NEW p \in Seq(S), NEW w \in Seq(S), NEW m \in Nat, Len(p) < m
    PROVE  /\ UpTo(w, m - Len(p)) \in Seq(S)
           /\ p \o UpTo(w, m - Len(p)) \in Seq(S) /\ p \o w \in Seq(S)
           /\ Len(p \o UpTo(w, m - Len(p))) <= m
           /\ IsPrefix(p \o UpTo(w, m - Len(p)), p \o w)
           /\ \/ Len(p \o UpTo(w, m - Len(p))) = m
              \/ UpTo(w, m - Len(p)) = w
           /\ Len(UpTo(w, m - Len(p))) <= Len(w)
<1>1. PICK a \in Nat, b \in Nat, r \in Nat : a = Len(p) /\ b = Len(w) /\ r = m - a /\ m = a + r
  <2>1. Len(p) \in Nat /\ Len(w) \in Nat
    BY LenProperties
  <2> QED
    BY <2>1
<1>2. PICK q \in Seq(S) : /\ q = UpTo(w, r) /\ Len(q) = IF r < b THEN r ELSE b
                          /\ \A k \in 1..Len(q) : q[k] = w[k]
                          /\ b <= r => q = w
  BY <1>1, UpToIs
<1>3. PICK c \in Nat : c = Len(q)
  BY LenProperties
<1>4. PICK u \in Seq(S) : /\ u = p \o q /\ Len(u) = a + c
                          /\ \A k \in 1..(a + c) : u[k] = IF k <= a THEN p[k] ELSE q[k - a]
  <2>1. /\ p \o q \in Seq(S) /\ Len(p \o q) = a + c
        /\ \A k \in 1..(a + c) : (p \o q)[k] = IF k <= a THEN p[k] ELSE q[k - a]
    BY <1>1, <1>3, Joined, SMT
  <2> DEFINE t == p \o q
  <2> HIDE DEF t
  <2>2. /\ t \in Seq(S) /\ t = p \o q /\ Len(t) = a + c
        /\ \A k \in 1..(a + c) : t[k] = IF k <= a THEN p[k] ELSE q[k - a]
    BY <2>1, Zenon DEF t
  <2> QED
    BY <2>2, Zenon
<1>5. PICK v \in Seq(S) : /\ v = p \o w /\ Len(v) = a + b
                          /\ \A k \in 1..(a + b) : v[k] = IF k <= a THEN p[k] ELSE w[k - a]
  <2>1. /\ p \o w \in Seq(S) /\ Len(p \o w) = a + b
        /\ \A k \in 1..(a + b) : (p \o w)[k] = IF k <= a THEN p[k] ELSE w[k - a]
    BY <1>1, Joined, SMT
  <2> DEFINE t == p \o w
  <2> HIDE DEF t
  <2>2. /\ t \in Seq(S) /\ t = p \o w /\ Len(t) = a + b
        /\ \A k \in 1..(a + b) : t[k] = IF k <= a THEN p[k] ELSE w[k - a]
    BY <2>1, Zenon DEF t
  <2> QED
    BY <2>2, Zenon
<1>6. IsPrefix(u, v)
  <2>1. Len(u) <= Len(v)
    BY <1>2, <1>3, <1>4, <1>5
  <2>2. ASSUME NEW k \in 1..Len(u) PROVE u[k] = v[k]
    <3>1. k \in 1..(a + c) /\ k \in 1..(a + b)
      BY <1>4, <1>5, <2>1
    <3>2. ~(k <= a) => k - a \in 1..c
      BY <3>1
    <3> QED
      BY <1>2, <1>3, <1>4, <1>5, <3>1, <3>2
  <2> QED
    BY <2>1, <2>2, PrefixIs
<1>7. Len(u) <= m /\ (Len(u) = m \/ q = w) /\ Len(q) <= Len(w)
  BY <1>1, <1>2, <1>3, <1>4
<1> QED
  BY <1>1, <1>2, <1>4, <1>5, <1>6, <1>7

PrintTypeOK ==
    /\ dev \in {"serial", "screen", "str"}
    /\ at \in {"loop", "done", "beyond"}
    /\ fmt \in Seq(Tokens)
    /\ out \in Seq(Chars)
    /\ meaning \in Seq(Chars)
    /\ misprint \in BOOLEAN

(* A %p makes the output longer than what was meant. *)
Sent == IF misprint THEN Len(out) > Len(meaning) ELSE out = meaning

(* The buffer of kprintf is full or has all that was meant, or a negative  *)
(* number is missing.                                                      *)
Buffered ==
    /\ Len(out) <= LIMIT
    /\ misprint => Len(out) < Len(meaning)
    /\ ~misprint => IsPrefix(out, meaning) /\ (Len(out) = LIMIT \/ out = meaning)

PrintInv ==
    /\ PrintTypeOK
    /\ dev = "serial" => Sent
    /\ dev = "screen" => Buffered
    /\ dev = "str" => out = meaning
    /\ at = "beyond" => fmt = <<"%">>
    /\ at = "done" /\ dev = "screen" => Len(out) = LIMIT \/ fmt = <<>>
    /\ at = "loop" => place = NoPlace
    /\ place = NoPlace => \A x \in Cells : screen[x] = Blank
    /\ place # NoPlace => Shows(place[1], place[2], out)

(* The invariant implies the property. *)
LEMMA PrintInvMeans == PrintInv => PrintsMeaning
<1> SUFFICES ASSUME PrintInv PROVE PrintsMeaning
  OBVIOUS
<1>1. Len(out) \in Nat /\ Len(meaning) \in Nat
  BY LenProperties DEF PrintInv, PrintTypeOK
<1>2. dev = "serial" => (out = meaning <=> ~misprint)
  BY <1>1 DEF PrintInv, Sent
<1>3. dev = "screen" => (misprint => out # meaning)
  BY <1>1 DEF PrintInv, Buffered
<1> QED
  BY <1>2, <1>3 DEF PrintInv, Buffered, PrintsMeaning

(* A sequence is a prefix of itself. *)
LEMMA PrefixOfItself ==
    ASSUME NEW S, NEW q \in Seq(S)
    PROVE  IsPrefix(q, q)
<1>1. Len(q) \in Nat
  BY LenProperties
<1> QED
  BY <1>1, PrefixIs

(* Nothing is printed at the start, or the number is the numeral. *)
LEMMA PrintInitInv == PrintInit \/ NumberInit => PrintInv
<1>1. \A x \in Cells : [c \in Cells |-> Blank][x] = Blank
  OBVIOUS
<1>2. <<>> \in Seq(Tokens) /\ <<>> \in Seq(Chars) /\ Len(<<>>) = 0
  BY EmptySeq
<1>3. ASSUME PrintInit PROVE PrintInv
  <2>1. PICK n \in 0..FormatLength : fmt \in [1..n -> Tokens]
    BY <1>3 DEF PrintInit
  <2>2. fmt \in Seq(Tokens)
    <3>1. n \in Nat
      BY FormatAssumption
    <3> QED
      BY <2>1, <3>1, FunctionSeq
  <2>3. IsPrefix(<<>>, <<>>)
    BY <1>2, PrefixOfItself
  <2>4. LIMIT \in Nat
    BY FormatAssumption
  <2> QED
    <3>1. /\ dev \in {"serial", "screen"} /\ out = <<>> /\ meaning = <<>>
          /\ misprint = FALSE /\ at = "loop"
          /\ screen = [c \in Cells |-> Blank] /\ place = NoPlace
      BY <1>3 DEF PrintInit
    <3>2. PrintTypeOK
      BY <1>2, <2>2, <3>1 DEF PrintTypeOK
    <3>3. Sent /\ Buffered
      BY <1>2, <2>3, <2>4, <3>1 DEF Sent, Buffered
    <3> QED
      BY <1>1, <3>1, <3>2, <3>3 DEF PrintInv
<1>4. ASSUME NumberInit PROVE PrintInv
  <2>1. PICK n \in Ints : out = int_to_str(n) /\ meaning = Decimal(n)
    BY <1>4 DEF NumberInit
  <2>2. out = meaning /\ out \in Seq(Chars)
    BY <2>1, DecimalIs DEF int_to_str
  <2> QED
    <3>1. /\ dev = "str" /\ fmt = <<>> /\ misprint = FALSE /\ at = "loop"
          /\ screen = [c \in Cells |-> Blank] /\ place = NoPlace
      BY <1>4 DEF NumberInit
    <3>2. PrintTypeOK
      BY <1>2, <2>2, <3>1 DEF PrintTypeOK
    <3> QED
      BY <1>1, <2>2, <3>1, <3>2 DEF PrintInv
<1> QED
  BY <1>3, <1>4

(* One round sends q for m: the same unless the directive is misprinted,   *)
(* and then more.                                                          *)
LEMMA Sends ==
    ASSUME PrintTypeOK, Sent, NEW k, NEW m \in Seq(Chars), NEW q \in Seq(Chars),
           NEW wrong \in BOOLEAN, Takes(k, q, m, wrong),
           IF wrong THEN Len(q) > Len(m) ELSE q = m
    PROVE  Sent' /\ out' \in Seq(Chars) /\ meaning' \in Seq(Chars)
<1>1. PICK o \in Seq(Chars), g \in Seq(Chars) : o = out /\ g = meaning
  BY DEF PrintTypeOK
<1>2. out' = o \o q /\ meaning' = g \o m /\ misprint' = (misprint \/ wrong)
  BY <1>1 DEF Takes
<1>3. /\ o \o q \in Seq(Chars) /\ Len(o \o q) = Len(o) + Len(q)
      /\ g \o m \in Seq(Chars) /\ Len(g \o m) = Len(g) + Len(m)
  BY ConcatProperties
<1>4. Len(o) \in Nat /\ Len(q) \in Nat /\ Len(g) \in Nat /\ Len(m) \in Nat
  BY LenProperties
<1>5. Sent'
  <2>1. CASE ~misprint /\ ~wrong
    BY <1>1, <1>2, <2>1, Zenon DEF Sent
  <2>2. CASE misprint \/ wrong
    <3>1. Len(o) >= Len(g) /\ Len(q) >= Len(m)
      BY <1>1, <1>4 DEF Sent
    <3>2. Len(o) > Len(g) \/ Len(q) > Len(m)
      BY <1>1, <2>2 DEF Sent
    <3>3. Len(o \o q) > Len(g \o m)
      BY <1>3, <1>4, <3>1, <3>2
    <3> QED
      BY <1>2, <2>2, <3>3, Zenon DEF Sent
  <2> QED
    BY <2>1, <2>2 DEF PrintTypeOK
<1> QED
  BY <1>2, <1>3, <1>5

(* One round puts into the buffer as much of m as fits, nothing of it if   *)
(* the directive is misprinted.                                            *)
LEMMA Buffers ==
    ASSUME PrintTypeOK, Buffered, Room > 0, NEW k, NEW m \in Seq(Chars), NEW q,
           NEW wrong \in BOOLEAN, Takes(k, q, m, wrong),
           IF wrong THEN q = <<>> /\ Len(m) > 0 ELSE q = UpTo(m, Room)
    PROVE  Buffered' /\ out' \in Seq(Chars) /\ meaning' \in Seq(Chars)
<1>1. PICK o \in Seq(Chars), g \in Seq(Chars) : o = out /\ g = meaning
  BY DEF PrintTypeOK
<1>2. out' = o \o q /\ meaning' = g \o m /\ misprint' = (misprint \/ wrong)
  BY <1>1 DEF Takes
<1>3. LIMIT \in Nat /\ Len(o) \in Nat /\ Len(g) \in Nat /\ Len(m) \in Nat
  BY FormatAssumption, LenProperties
<1>4. g \o m \in Seq(Chars) /\ Len(g \o m) = Len(g) + Len(m)
  BY ConcatProperties
<1>5. Len(o) < LIMIT /\ (misprint => Len(o) < Len(g)) /\ (~misprint => o = g)
  BY <1>1, <1>3 DEF Room, Buffered
<1>6. CASE wrong
  <2>1. o \o q = o
    BY <1>6, ConcatEmptySeq
  <2>2. Len(o) <= Len(g)
    BY <1>3, <1>5
  <2>3. Len(o) <= LIMIT /\ Len(o) < Len(g \o m)
    BY <1>3, <1>4, <1>5, <1>6, <2>2
  <2> QED
    BY <1>2, <1>4, <1>6, <2>1, <2>3, Zenon DEF Buffered
<1>7. CASE ~wrong
  <2>1. q = UpTo(m, LIMIT - Len(o))
    BY <1>1, <1>7, Zenon DEF Room
  <2>2. /\ q \in Seq(Chars) /\ o \o q \in Seq(Chars)
        /\ Len(o \o q) <= LIMIT /\ IsPrefix(o \o q, o \o m)
        /\ Len(o \o q) = LIMIT \/ q = m
        /\ Len(q) <= Len(m)
    BY <1>3, <1>5, <2>1, Fitted
  <2>3. misprint => Len(o \o q) < Len(g \o m)
    <3>1. Len(o \o q) = Len(o) + Len(q) /\ Len(q) \in Nat
      BY <2>2, ConcatProperties, LenProperties
    <3> QED
      BY <1>3, <1>4, <1>5, <2>2, <3>1
  <2>4. ~misprint => /\ IsPrefix(o \o q, g \o m)
                     /\ Len(o \o q) = LIMIT \/ o \o q = g \o m
    BY <1>5, <2>2, Zenon
  <2> QED
    BY <1>2, <1>4, <1>7, <2>2, <2>3, <2>4, Zenon DEF Buffered
<1> QED
  BY <1>6, <1>7

(* A round of the loop over the format keeps the invariant. *)
LEMMA TakesStep ==
    ASSUME PrintInv, at = "loop", fmt # <<>>, NEW k \in {1, 2}, NEW m \in Seq(Chars),
           NEW q \in Seq(Chars), NEW wrong \in BOOLEAN, Takes(k, q, m, wrong),
           dev = "serial" => IF wrong THEN Len(q) > Len(m) ELSE q = m,
           dev = "screen" => /\ Room > 0
                             /\ IF wrong THEN q = <<>> /\ Len(m) > 0 ELSE q = UpTo(m, Room),
           dev # "str"
    PROVE  PrintInv'
<1>1. /\ at' = at /\ dev' = dev /\ screen' = screen /\ place' = place
      /\ fmt' = SubSeq(fmt, k + 1, Len(fmt)) /\ misprint' = (misprint \/ wrong)
  BY DEF Takes
<1>2. fmt' \in Seq(Tokens)
  <2>1. PICK f \in Seq(Tokens) : f = fmt
    BY DEF PrintInv, PrintTypeOK
  <2>2. PICK n \in Nat : n = Len(f) /\ \A i \in 1..n : f[i] \in Tokens
    BY LenProperties, ElementOfSeq
  <2>3. PICK j \in Int : j = k + 1 /\ \A i \in j..n : i \in 1..n
    OBVIOUS
  <2>4. SubSeq(f, j, n) \in Seq(Tokens)
    <3>1. n \in Int /\ \A i \in j..n : f[i] \in Tokens
      BY <2>2, <2>3
    <3> QED
      BY <3>1, SubSeqProperties
  <2> QED
    BY <1>1, <2>1, <2>2, <2>3, <2>4
<1>3. misprint' \in BOOLEAN
  BY <1>1
<1>4. PrintTypeOK /\ dev \in {"serial", "screen"}
  BY DEF PrintInv, PrintTypeOK
<1>5. CASE dev = "serial"
  <2>1. Sent' /\ out' \in Seq(Chars) /\ meaning' \in Seq(Chars)
    BY <1>4, <1>5, Sends DEF PrintInv
  <2> QED
    BY <1>1, <1>2, <1>3, <1>5, <2>1 DEF PrintInv, PrintTypeOK
<1>6. CASE dev = "screen"
  <2>1. Buffered' /\ out' \in Seq(Chars) /\ meaning' \in Seq(Chars)
    BY <1>4, <1>6, Buffers DEF PrintInv
  <2> QED
    BY <1>1, <1>2, <1>3, <1>6, <2>1 DEF PrintInv, PrintTypeOK
<1> QED
  BY <1>4, <1>5, <1>6
-----------------------------------------------------------------------------
(* The arguments are made of characters, and so is what stands for them. *)
LEMMA Arguments ==
    /\ \A str \in Strs : str \in Seq(Chars)
    /\ \A c \in Chars : <<c>> \in Seq(Chars) /\ Len(<<c>>) = 1
    /\ \A c \in Tokens : c \in Chars
    /\ "0" \in Chars /\ "x" \in Chars
<1>1. ASSUME NEW str \in Strs PROVE str \in Seq(Chars)
  <2>1. str \in Seq(Letters)
    BY StrsAssumption
  <2>2. Letters \subseteq Chars
    BY DEF Chars
  <2> QED
    BY <2>1, <2>2, SeqMonotonic
<1>2. \A c \in Chars : <<c>> \in Seq(Chars) /\ Len(<<c>>) = 1
  OBVIOUS
<1>3. (\A c \in Tokens : c \in Chars) /\ "x" \in Chars
  BY DEF Chars
<1>4. "0" \in Chars
  <2>1. Digit(0) \in Chars /\ Digit(0) = "0"
    BY DigitsAre
  <2> QED
    BY <2>1
<1> QED
  BY <1>1, <1>2, <1>3, <1>4

(* What the ints and the bounds are. *)
LEMMA Bounds ==
    /\ \A n \in Ints : n \in Int
    /\ LIMIT \in Nat /\ ROWS \in Nat /\ COLS \in Nat /\ NIBBLES \in Nat
<1> QED
  BY FormatAssumption

(* An int read as an unsigned one. *)
LEMMA UnsignedIs ==
    ASSUME NEW n \in Ints
    PROVE  Unsigned(n) \in Nat /\ Unsigned(n) < Power(16, NIBBLES)
<1>1. PICK i \in Int, b \in Nat \ {0} : i = n /\ b = 16
  <2>1. n \in Int /\ 16 \in Nat \ {0}
    BY Bounds
  <2> QED
    BY <2>1
<1>2. PICK D \in Nat \ {0} : D = Power(b, NIBBLES)
  <2>1. NIBBLES \in Nat
    BY Bounds
  <2> QED
    BY <2>1, Powers
<1>3. i % D \in 0..(D - 1)
  OBVIOUS
<1> QED
  BY <1>1, <1>2, <1>3 DEF Unsigned

(* %x and %p on the serial line: the prefix of %p is one more. *)
LEMMA Hexadecimal ==
    ASSUME NEW n \in Ints
    PROVE  /\ serial_print_hex(Unsigned(n)) = <<"0", "x">> \o Numeral(Unsigned(n), 16)
           /\ <<"0", "x">> \o Numeral(Unsigned(n), 16) \in Seq(Chars)
           /\ <<"0", "x">> \o serial_print_hex(Unsigned(n)) \in Seq(Chars)
           /\ Len(<<"0", "x">> \o serial_print_hex(Unsigned(n)))
                > Len(<<"0", "x">> \o Numeral(Unsigned(n), 16))
<1>1. PICK q \in Seq(Chars) : /\ q = Numeral(Unsigned(n), 16)
                              /\ serial_print_hex(Unsigned(n)) = <<"0", "x">> \o q
  BY UnsignedIs, HexIs
<1>2. PICK p \in Seq(Chars) : p = <<"0", "x">> /\ Len(p) = 2
  <2>1. <<"0", "x">> \in Seq(Chars) /\ Len(<<"0", "x">>) = 2
    BY Arguments
  <2> QED
    BY <2>1
<1>3. PICK h \in Seq(Chars) : h = p \o q
  BY ConcatProperties
<1>4. p \o h \in Seq(Chars) /\ Len(p \o h) = Len(p) + Len(h) /\ Len(h) \in Nat
  BY ConcatProperties, LenProperties
<1>5. Len(p \o h) > Len(h)
  BY <1>2, <1>4
<1> QED
  BY <1>1, <1>2, <1>3, <1>4, <1>5, Zenon

(* A round of serial_printf. *)
LEMMA SerialStep ==
    ASSUME PrintInv, SerialRound
    PROVE  PrintInv'
<1>1. dev = "serial" /\ at = "loop" /\ fmt # <<>>
  BY DEF SerialRound
<1>2. \A k \in {1, 2} : \A q \in Seq(Chars) : Writes(k, q, q) => PrintInv'
  BY <1>1, TakesStep DEF Writes
<1>3. \A i \in 1..Len(fmt) : fmt[i] \in Chars /\ <<fmt[i]>> \in Seq(Chars)
  BY Arguments, ElementOfSeq DEF PrintInv, PrintTypeOK
<1>4. Len(fmt) \in Nat /\ Len(fmt) >= 1 /\ 1 \in 1..Len(fmt) /\ (Len(fmt) >= 2 => 2 \in 1..Len(fmt))
  BY <1>1, EmptySeq DEF PrintInv, PrintTypeOK
<1>5. CASE SerialText
  BY <1>2, <1>3, <1>4, <1>5 DEF SerialText
<1>6. CASE SerialDirective
  <2>1. ASSUME NEW str \in Strs, Writes(2, str, str) PROVE PrintInv'
    BY <1>2, <2>1, Arguments
  <2>2. ASSUME NEW c \in Tokens, Writes(2, <<c>>, <<c>>) PROVE PrintInv'
    BY <1>2, <2>2, Arguments
  <2>3. ASSUME NEW n \in Ints, Writes(2, serial_print_int(n), Decimal(n)) PROVE PrintInv'
    BY <1>2, <2>3, DecimalIs
  <2>4. ASSUME NEW n \in Ints,
               Writes(2, serial_print_hex(Unsigned(n)), <<"0", "x">> \o Numeral(Unsigned(n), 16))
        PROVE  PrintInv'
    BY <1>2, <2>4, Hexadecimal
  <2>5. ASSUME NEW n \in Ints,
               Misprints(2, <<"0", "x">> \o serial_print_hex(Unsigned(n)),
                         <<"0", "x">> \o Numeral(Unsigned(n), 16))
        PROVE  PrintInv'
    <3>1. PICK q \in Seq(Chars), m \in Seq(Chars) :
            /\ q = <<"0", "x">> \o serial_print_hex(Unsigned(n))
            /\ m = <<"0", "x">> \o Numeral(Unsigned(n), 16)
            /\ Len(q) > Len(m)
      BY Hexadecimal, Zenon
    <3>2. Takes(2, q, m, TRUE)
      BY <2>5, <3>1 DEF Misprints
    <3> QED
      BY <1>1, <3>1, <3>2, TakesStep
  <2>6. ASSUME Next2("%"), Writes(2, <<"%">>, <<"%">>) PROVE PrintInv'
    <3>1. <<"%">> \in Seq(Chars)
      BY <1>3, <1>4, <2>6 DEF Next2
    <3> QED
      BY <1>2, <2>6, <3>1
  <2> QED
    BY <1>6, <2>1, <2>2, <2>3, <2>4, <2>5, <2>6 DEF SerialDirective
<1>7. CASE SerialOther
  <2>1. fmt[1] = "%" /\ "%" \in Chars /\ fmt[2] \in Chars /\ Writes(2, <<"%", fmt[2]>>, <<"%", fmt[2]>>)
    BY <1>3, <1>4, <1>7 DEF SerialOther
  <2>2. <<"%", fmt[2]>> \in Seq(Chars)
    BY <2>1
  <2> QED
    BY <1>2, <2>1, <2>2
<1>8. CASE SerialBeyond
  <2>1. /\ dev' = dev /\ fmt' = fmt /\ out' = out /\ meaning' = meaning
        /\ misprint' = misprint /\ screen' = screen /\ place' = place
        /\ at' = "beyond" /\ fmt = <<"%">>
    BY <1>8 DEF SerialBeyond
  <2>2. PrintTypeOK' /\ Sent'
    BY <1>1, <2>1 DEF PrintInv, PrintTypeOK, Sent
  <2> QED
    BY <1>1, <2>1, <2>2 DEF PrintInv
<1> QED
  BY <1>5, <1>6, <1>7, <1>8 DEF SerialRound

(* A round of kprintf. *)
LEMMA ScreenStep ==
    ASSUME PrintInv, ScreenRound
    PROVE  PrintInv'
<1>1. dev = "screen" /\ at = "loop" /\ fmt # <<>> /\ Room > 0
  BY DEF ScreenRound
<1>2. Room \in Nat /\ Room >= 1
  <2>1. LIMIT \in Nat /\ Len(out) \in Nat
    BY Bounds, LenProperties DEF PrintInv, PrintTypeOK
  <2> QED
    BY <1>1, <2>1 DEF Room
<1>3. \A k \in {1, 2} : \A q \in Seq(Chars) : Writes(k, UpTo(q, Room), q) => PrintInv'
  <2>1. \A q \in Seq(Chars) : UpTo(q, Room) \in Seq(Chars)
    BY <1>2, UpToIs
  <2> QED
    BY <1>1, <2>1, TakesStep DEF Writes
<1>4. \A q \in Seq(Chars) : Len(q) = 1 => UpTo(q, Room) = q
  <2> SUFFICES ASSUME NEW q \in Seq(Chars), Len(q) = 1 PROVE UpTo(q, Room) = q
    OBVIOUS
  <2>1. PICK r \in Nat : r = Room /\ r >= 1
    BY <1>2
  <2>2. Len(q) \in Nat /\ Len(q) <= r
    BY <2>1, LenProperties
  <2>3. UpTo(q, r) = q
    BY <2>2, UpToIs
  <2> QED
    BY <2>1, <2>3
<1>5. /\ <<>> \in Seq(Chars) /\ Len(<<>>) = 0
      /\ <<fmt[1]>> \in Seq(Chars) /\ Len(<<fmt[1]>>) = 1
  <2>1. Len(fmt) \in Nat /\ 1 \in 1..Len(fmt)
    BY <1>1, EmptySeq DEF PrintInv, PrintTypeOK
  <2>2. fmt[1] \in Chars
    BY <2>1, Arguments, ElementOfSeq DEF PrintInv, PrintTypeOK
  <2> QED
    BY <2>2, Arguments, EmptySeq
<1>6. ASSUME NEW str \in Strs, Writes(2, UpTo(str, Room), str) PROVE PrintInv'
  BY <1>3, <1>6, Arguments
<1>7. ASSUME NEW n \in Ints, Takes(2, UpTo(kprintf_int(n), Room), Decimal(n), n < 0)
      PROVE  PrintInv'
  <2>1. n \in Int /\ Decimal(n) \in Seq(Chars)
    BY Bounds, DecimalIs
  <2>2. CASE n < 0
    <3>1. kprintf_int(n) = <<>> /\ Len(Decimal(n)) > 0
      BY <2>2, DecimalIs
    <3>2. UpTo(<<>>, Room) = <<>>
      <4>1. PICK r \in Nat : r = Room
        BY <1>2
      <4>2. Len(<<>>) <= r /\ <<>> \in Seq(Chars)
        BY <1>5
      <4>3. UpTo(<<>>, r) = <<>>
        BY <4>2, UpToIs, Zenon
      <4> QED
        BY <4>1, <4>3
    <3>3. Takes(2, <<>>, Decimal(n), TRUE)
      <4>1. (n < 0) = TRUE
        BY <2>2
      <4> QED
        BY <1>7, <3>1, <3>2, <4>1
    <3> QED
      BY <1>1, <1>5, <2>1, <3>1, <3>3, TakesStep
  <2>3. CASE ~(n < 0)
    <3>1. Writes(2, UpTo(Decimal(n), Room), Decimal(n))
      <4>1. (n < 0) = FALSE
        BY <2>3
      <4>2. kprintf_int(n) = Decimal(n)
        BY <2>3, DecimalIs
      <4> QED
        BY <1>7, <4>1, <4>2 DEF Writes
    <3> QED
      BY <1>3, <2>1, <3>1
  <2> QED
    BY <2>2, <2>3
<1>8. ASSUME NEW n \in Ints,
             Writes(2, UpTo(Nibbles(Unsigned(n), Upper), Room), UpperNumeral(Unsigned(n)))
      PROVE  PrintInv'
  <2>1. PICK q \in Seq(Chars) : q = Nibbles(Unsigned(n), Upper) /\ q = UpperNumeral(Unsigned(n))
    BY UnsignedIs, UpperIs
  <2> QED
    BY <1>3, <1>8, <2>1
<1>9. ASSUME Writes(1, <<fmt[1]>>, <<fmt[1]>>) PROVE PrintInv'
  <2>1. UpTo(<<fmt[1]>>, Room) = <<fmt[1]>>
    BY <1>4, <1>5, Zenon
  <2>2. Writes(1, UpTo(<<fmt[1]>>, Room), <<fmt[1]>>)
    BY <1>9, <2>1, Zenon
  <2>3. 1 \in {1, 2}
    OBVIOUS
  <2> QED
    BY <1>3, <1>5, <2>2, <2>3, Zenon
<1> QED
  BY <1>6, <1>7, <1>8, <1>9 DEF ScreenRound

(* kprint puts the buffer into its row, as far as it is on the screen. *)
LEMMA EndStep ==
    ASSUME PrintInv, SerialEnd \/ ScreenEnd
    PROVE  PrintInv'
<1>1. CASE SerialEnd
  BY <1>1 DEF SerialEnd, PrintInv, PrintTypeOK, Sent, Buffered, Shows
<1>2. CASE ScreenEnd
  <2>1. PICK row \in -1..ROWS, col \in -1..COLS : Kprint(row, col, out) /\ place' = <<row, col>>
    BY <1>2 DEF ScreenEnd
  <2>2. /\ at = "loop" /\ at' = "done" /\ (fmt = <<>> \/ Room = 0)
        /\ dev' = dev /\ fmt' = fmt /\ out' = out /\ meaning' = meaning
        /\ misprint' = misprint
    BY <1>2 DEF ScreenEnd
  <2>3. row \in Int /\ col \in Int /\ ROWS \in Nat /\ COLS \in Nat
    BY <2>1, Bounds
  <2>4. Len(out) \in Nat /\ DOMAIN out = 1..Len(out) /\ LIMIT \in Nat
    BY Bounds, LenProperties DEF PrintInv, PrintTypeOK
  <2>5. \A x \in Cells : screen[x] = Blank
    BY <2>2 DEF PrintInv
  <2>6. ASSUME NEW x \in Cells
        PROVE  screen'[x] = IF x[1] = row /\ x[2] >= col /\ x[2] < col + Len(out)
                            THEN out[x[2] - col + 1] ELSE Blank
    <3>1. x[2] \in Int
      BY <2>3 DEF Cells
    <3>2. x[2] - col + 1 \in DOMAIN out <=> x[2] >= col /\ x[2] < col + Len(out)
      BY <2>3, <2>4, <3>1
    <3>3. screen'[x] = IF x[1] = row /\ x[2] - col + 1 \in DOMAIN out
                       THEN out[x[2] - col + 1] ELSE screen[x]
      BY <2>1 DEF Kprint
    <3> QED
      BY <2>5, <3>2, <3>3
  <2>7. Shows(place[1], place[2], out)'
    <3>1. place'[1] = row /\ place'[2] = col
      BY <2>1
    <3> QED
      BY <2>2, <2>6, <3>1 DEF Shows
  <2>8. place' # NoPlace
    BY <2>1 DEF NoPlace
  <2>9. dev = "screen" => Len(out) = LIMIT \/ fmt = <<>>
    <3>1. \A l, m \in Nat : m - l = 0 => l = m
      OBVIOUS
    <3>2. Room = 0 => Len(out) = LIMIT
      BY <2>4, <3>1, Zenon DEF Room
    <3> QED
      BY <2>2, <3>2, Zenon
  <2>10. /\ PrintTypeOK'
         /\ (dev = "serial" => Sent)' /\ (dev = "screen" => Buffered)'
         /\ (dev = "str" => out = meaning)'
    BY <2>2 DEF PrintInv, PrintTypeOK, Sent, Buffered
  <2> QED
    BY <2>2, <2>7, <2>8, <2>9, <2>10 DEF PrintInv
<1> QED
  BY <1>1, <1>2

(* What has been sent or put into the buffer is what the format and the    *)
(* arguments so far mean; after a %p on the serial line it is longer, and  *)
(* after a %d for a negative number in kprintf shorter.                    *)
THEOREM PrintInvariant == PrintSpec => []PrintInv
<1>1. PrintInv /\ [PrintNext]_printVars => PrintInv'
  <2>1. CASE UNCHANGED printVars
    BY <2>1 DEF printVars, PrintInv, PrintTypeOK, Sent, Buffered, Shows
  <2>2. CASE PrintNext
    BY <2>2, SerialStep, ScreenStep, EndStep DEF PrintNext
  <2> QED
    BY <2>1, <2>2
<1> QED
  BY <1>1, PrintInitInv, PTL DEF PrintSpec

(* int_to_str gives the meaning of its argument, serial_printf and kprintf *)
(* that of format and arguments exactly when no %p, or no %d for a         *)
(* negative number, is among the directives: with one they never do.       *)
(* kprintf stays within its buffer and on the screen.                      *)
THEOREM OutputMeansFormat == PrintSpec => []PrintsMeaning
<1> QED
  BY PrintInvariant, PrintInvMeans, PTL
=============================================================================
