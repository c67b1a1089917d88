------------------------------ MODULE Strings ------------------------------
(***************************************************************************)
(* lib/string.c over a small memory of bytes.  A call is one step: mem     *)
(* changes as the loops of the function change it, byte by byte and in     *)
(* their order, and `call' records the arguments and the result.  Callers  *)
(* give ranges inside the memory and strings that end in it; source and    *)
(* destination overlap only where a function allows it.                    *)
(***************************************************************************)
EXTENDS Integers, Sequences, SequencesExt

CONSTANTS MEM,      \* addresses 1..MEM; 0 is NULL
          BYTE,     \* a byte holds 0..BYTE-1
          COUNT     \* bound of the counts and of the int arguments

ASSUME MemoryAssumption == MEM \in Nat \ {0} /\ BYTE \in Nat \ {0, 1} /\ COUNT \in Nat

VARIABLES mem, call

stringVars == <<mem, call>>

Addr   == 1..MEM
NULLP  == 0
NUL    == 0
Memory == [Addr -> 0..(BYTE - 1)]
Nothing == [op |-> "none"]

(* How often a loop goes round that is left when stop holds. *)
Rounds(stop(_)) ==
    CHOOSE k \in 0..MEM : stop(k) /\ \A j \in 0..(k - 1) : ~stop(j)

(* (char)c *)
Char(c) == c % BYTE

-----------------------------------------------------------------------------
(* The functions *)

Fill(m, d, c, n) == [a \in Addr |-> IF a \in d..(d + n - 1) THEN Char(c) ELSE m[a]]

CopyUp(m, d, s, n) ==
    LET f[k \in 0..n] == IF k = 0 THEN m
                         ELSE [f[k - 1] EXCEPT ![d + k - 1] = f[k - 1][s + k - 1]]
    IN f[n]

CopyDown(m, d, s, n) ==
    LET f[k \in 0..n] == IF k = 0 THEN m
                         ELSE [f[k - 1] EXCEPT ![d + n - k] = f[k - 1][s + n - k]]
    IN f[n]

memset(m, d, c, n) == IF d = NULLP THEN m ELSE Fill(m, d, c, n)
memcpy(m, d, s, n) == IF d = NULLP \/ s = NULLP THEN m ELSE CopyUp(m, d, s, n)

(* Seeded fault: the direction is the wrong one. *)
memmoveSwapped(m, d, s, n) ==
    IF d = NULLP \/ s = NULLP \/ d = s THEN m
    ELSE IF d > s THEN CopyUp(m, d, s, n) ELSE CopyDown(m, d, s, n)
memmove(m, d, s, n) ==
    IF d = NULLP \/ s = NULLP \/ d = s THEN m
    ELSE IF d < s THEN CopyUp(m, d, s, n) ELSE CopyDown(m, d, s, n)

Difference(m, s, t, k) ==
    IF m[s + k] = m[t + k] THEN 0 ELSE IF m[s + k] < m[t + k] THEN -1 ELSE 1

memcmp(m, s, t, n) ==
    IF s = NULLP \/ t = NULLP THEN -1
    ELSE LET k == Rounds(LAMBDA i : i = n \/ m[s + i] # m[t + i])
         IN IF k = n THEN 0 ELSE Difference(m, s, t, k)

strlen(m, s) == Rounds(LAMBDA k : m[s + k] = NUL)

strcpy(m, d, s) == CopyUp(m, d, s, strlen(m, s) + 1)

strncpy(m, d, s, n) ==
    LET k == Rounds(LAMBDA i : i = n \/ m[s + i] = NUL)
    IN Fill(CopyUp(m, d, s, k), d + k, NUL, n - k)

strcat(m, d, s) == strcpy(m, d + strlen(m, d), s)

(* When the source ends first, its NUL is copied and another one written   *)
(* behind it.                                                              *)
strncat(m, d, s, n) ==
    LET e == d + strlen(m, d)
        k == Rounds(LAMBDA i : i = n \/ (i > 0 /\ m[s + i - 1] = NUL))
    IN [CopyUp(m, e, s, k) EXCEPT ![e + k] = NUL]

Same(m, s, t, i) == m[s + i] # NUL /\ m[s + i] = m[t + i]

strcmp(m, s, t) ==
    LET k == Rounds(LAMBDA i : ~Same(m, s, t, i)) IN m[s + k] - m[t + k]

strncmp(m, s, t, n) ==
    IF n = 0 THEN 0
    ELSE LET k == Rounds(LAMBDA i : i = n - 1 \/ ~Same(m, s, t, i))
         IN m[s + k] - m[t + k]

strchr(m, s, c) ==
    LET k == Rounds(LAMBDA i : m[s + i] \in {NUL, Char(c)})
    IN IF m[s + k] = Char(c) THEN s + k ELSE NULLP

strrchr(m, s, c) ==
    LET l == strlen(m, s)
        last[k \in 0..l] == IF k = 0 THEN NULLP
                            ELSE IF m[s + k - 1] = Char(c) THEN s + k - 1 ELSE last[k - 1]
    IN IF Char(c) = NUL THEN s + l ELSE last[l]

(* The needle t matches at h when the inner loop comes to its end. *)
Matches(m, h, t) ==
    LET k == Rounds(LAMBDA i : m[h + i] = NUL \/ m[t + i] = NUL \/ m[h + i] # m[t + i])
    IN m[t + k] = NUL

strstr(m, s, t) ==
    IF m[t] = NUL THEN s
    ELSE LET k == Rounds(LAMBDA i : m[s + i] = NUL \/ Matches(m, s + i, t))
         IN IF m[s + k] = NUL THEN NULLP ELSE s + k

reverse_str(m, s) ==
    LET l == strlen(m, s)
        f[k \in 0..(l \div 2)] ==
            IF k = 0 THEN m
            ELSE [f[k - 1] EXCEPT ![s + k - 1] = f[k - 1][s + l - k],
                                  ![s + l - k] = f[k - 1][s + k - 1]]
    IN f[l \div 2]

-----------------------------------------------------------------------------
(* The calls *)

IsString(m, s) == s \in Addr /\ \E a \in s..MEM : m[a] = NUL
Within(a, n)   == a \in Addr /\ a + n - 1 <= MEM
Apart(a, n, b, k) == a + n <= b \/ b + k <= a

Did(op, d, s, n, r) == call' = [op |-> op, d |-> d, s |-> s, n |-> n, r |-> r]

CallMem(d, s, n) ==
    /\ d = NULLP \/ Within(d, n)
    /\ s = NULLP \/ Within(s, n)
    /\ LET r == IF d = NULLP \/ s = NULLP THEN NULLP ELSE d IN
        \/ mem' = memmove(mem, d, s, n) /\ Did("memmove", d, s, n, r)
        \/ /\ d = NULLP \/ s = NULLP \/ Apart(d, n, s, n)
           /\ mem' = memcpy(mem, d, s, n) /\ Did("memcpy", d, s, n, r)
        \/ Did("memcmp", d, s, n, memcmp(mem, d, s, n)) /\ UNCHANGED mem

CallMemset(d, c, n) ==
    /\ d = NULLP \/ Within(d, n)
    /\ mem' = memset(mem, d, c, n)
    /\ Did("memset", d, c, n, d)

(* The last byte each function writes lies in the memory. *)
CallCopy(d, s, n) ==
    /\ IsString(mem, s)
    /\ LET l == strlen(mem, s) IN
        \/ /\ Within(d, l + 1) /\ Apart(d, l + 1, s, l + 1)
           /\ mem' = strcpy(mem, d, s) /\ Did("strcpy", d, s, n, d)
        \/ /\ Within(d, n) /\ Apart(d, n, s, l + 1)
           /\ mem' = strncpy(mem, d, s, n) /\ Did("strncpy", d, s, n, d)
        \/ /\ IsString(mem, d)
           /\ LET e == d + strlen(mem, d) IN
               \/ /\ Within(e, l + 1) /\ Apart(d, e + l + 1 - d, s, l + 1)
                  /\ mem' = strcat(mem, d, s) /\ Did("strcat", d, s, n, d)
               \/ /\ Within(e, Min({n, l + 1}) + 1)
                  /\ Apart(d, e + l + 2 - d, s, l + 1)
                  /\ mem' = strncat(mem, d, s, n) /\ Did("strncat", d, s, n, d)

CallFind(s, t, n) ==
    /\ IsString(mem, s)
    /\ IsString(mem, t)
    /\ \/ Did("strcmp", s, t, n, strcmp(mem, s, t))
       \/ Did("strncmp", s, t, n, strncmp(mem, s, t, n))
       \/ Did("strstr", s, t, n, strstr(mem, s, t))
    /\ UNCHANGED mem

CallScan(s, c) ==
    /\ IsString(mem, s)
    /\ \/ Did("strlen", s, s, c, strlen(mem, s)) /\ UNCHANGED mem
       \/ Did("strchr", s, s, c, strchr(mem, s, c)) /\ UNCHANGED mem
       \/ Did("strrchr", s, s, c, strrchr(mem, s, c)) /\ UNCHANGED mem
       \/ Did("reverse_str", s, s, c, NULLP) /\ mem' = reverse_str(mem, s)

(* One call after the other would show no more: any memory may come first. *)
StringsInit == mem \in Memory /\ call = Nothing

StringsNext ==
    /\ call = Nothing
    /\ \E d, s \in {NULLP} \cup Addr, n \in 0..COUNT :
        \/ CallMem(d, s, n)
        \/ CallCopy(d, s, n)
        \/ CallFind(d, s, n)
        \/ s = d /\ \E c \in 0..COUNT : CallMemset(d, c, n)
        \/ s = d /\ CallScan(s, n)

StringsSpec == StringsInit /\ [][StringsNext]_stringVars

-----------------------------------------------------------------------------
(* Properties *)

(* Bytes a..a+n-1, and the string at a. *)
Bytes(m, a, n) == [k \in 1..n |-> m[a + k - 1]]
Str(m, a) == LET l == CHOOSE l \in 0..MEM : /\ m[a + l] = NUL
                                            /\ \A j \in 0..(l - 1) : m[a + j] # NUL
             IN Bytes(m, a, l)

(* m with q from address d on. *)
Put(m, d, q) == [a \in Addr |-> IF a - d + 1 \in DOMAIN q THEN q[a - d + 1] ELSE m[a]]
Cut(q, n)    == SubSeq(q, 1, IF n < Len(q) THEN n ELSE Len(q))
Zeros(n)     == [k \in 1..n |-> NUL]

(* C's order, which memcmp promises: -1, 0 or 1 as q is before, equal to   *)
(* or behind t as unsigned bytes.                                          *)
Order(q, t) ==
    IF q = t THEN 0
    ELSE IF IsPrefix(q, t) \/ \E k \in DOMAIN q \cap DOMAIN t :
                                SubSeq(q, 1, k - 1) = SubSeq(t, 1, k - 1) /\ q[k] < t[k]
    THEN -1 ELSE 1
Sign(r) == IF r = 0 THEN 0 ELSE IF r < 0 THEN -1 ELSE 1

(* Addresses in the string at s, its end included, that hold c. *)
Holding(m, s, c) == {a \in s..(s + Len(Str(m, s))) : m[a] = Char(c)}
First(S)    == IF S = {} THEN NULLP ELSE Min(S)
Hindmost(S) == IF S = {} THEN NULLP ELSE Max(S)

(* What string.h says of each function, m before and w after the call: of  *)
(* the memory,                                                             *)
AnyNull(c) == c.d = NULLP \/ c.s = NULLP
Wrote(m, w, c) ==
    CASE c.op \in {"memmove", "memcpy"} ->
            w = IF AnyNull(c) THEN m ELSE Put(m, c.d, Bytes(m, c.s, c.n))
      [] c.op = "memset"  -> w = IF c.d = NULLP THEN m
                                 ELSE Put(m, c.d, [k \in 1..c.n |-> Char(c.s)])
      [] c.op = "strcpy"  -> w = Put(m, c.d, Append(Str(m, c.s), NUL))
      [] c.op = "strncpy" -> LET q == Cut(Str(m, c.s), c.n)
                             IN w = Put(m, c.d, q \o Zeros(c.n - Len(q)))
      [] c.op = "strcat"  -> w = Put(m, c.d, Append(Str(m, c.d) \o Str(m, c.s), NUL))
      [] c.op = "strncat" -> LET q == Str(m, c.d) \o Cut(Str(m, c.s), c.n)
                             IN \E k \in 1..2 : w = Put(m, c.d, q \o Zeros(k))
      [] c.op = "reverse_str" -> w = Put(m, c.s, Reverse(Str(m, c.s)))
      [] OTHER -> w = m

(* and of what is returned.  It says nothing of NULL arguments.            *)
Answered(m, c) ==
    CASE c.op \in {"memmove", "memcpy"} -> c.r = IF AnyNull(c) THEN NULLP ELSE c.d
      [] c.op \in {"memset", "strcpy", "strncpy", "strcat", "strncat"} -> c.r = c.d
      [] c.op = "strlen"  -> c.r = Len(Str(m, c.s))
      [] c.op = "memcmp"  -> c.r = IF AnyNull(c) THEN -1
                                   ELSE Order(Bytes(m, c.d, c.n), Bytes(m, c.s, c.n))
      [] c.op = "strcmp"  -> c.r = 0 <=> Str(m, c.d) = Str(m, c.s)
      [] c.op = "strncmp" -> c.r = 0 <=> Cut(Str(m, c.d), c.n) = Cut(Str(m, c.s), c.n)
      [] c.op = "strchr"  -> c.r = First(Holding(m, c.s, c.n))
      [] c.op = "strrchr" -> c.r = Hindmost(Holding(m, c.s, c.n))
      [] c.op = "strstr"  -> LET h == Str(m, c.d) t == Str(m, c.s)
                             IN c.r = First({c.d + k : k \in
                                    {j \in 0..Len(h) : IsPrefix(t, SubSeq(h, j + 1, Len(h)))}})
      [] OTHER -> TRUE

(* string.h promises a negative result for unequal strings, whichever is   *)
(* greater.  The code does not keep that (UnequalIsNegative in MCStrings): *)
(* the sign it returns is that of C's order.                               *)
Ordered(m, c) ==
    /\ c.op = "strcmp"  => Sign(c.r) = Order(Str(m, c.d), Str(m, c.s))
    /\ c.op = "strncmp" => Sign(c.r) = Order(Cut(Str(m, c.d), c.n), Cut(Str(m, c.s), c.n))

(* Every function writes and returns what string.h promises, for every     *)
(* placement of its arguments, memmove also when they overlap; only the    *)
(* sign of strcmp and strncmp for unequal strings is another one (Ordered).*)
(* strncat may write one NUL more than it needs.                           *)
StringsAsDocumented ==
    [][call = Nothing => /\ Wrote(mem, mem', call')
                         /\ Answered(mem, call')
                         /\ Ordered(mem, call')]_stringVars
=============================================================================
