------------------------------- MODULE Format -------------------------------
(***************************************************************************)
(* Formatted output: serial_printf (drivers/serial.c), kprintf and kprint  *)
(* (drivers/screen.c), and int_to_str (lib/string.c), which kprint prints. *)
(* One step is one round of the loop over the format; the arguments are    *)
(* chosen as va_arg takes them.  `meaning' is what the format and the      *)
(* arguments taken so far stand for.  Two directives print something else: *)
(* %p of serial_printf writes the prefix 0x twice, and %d of kprintf       *)
(* prints nothing for a negative number; `misprint' notes that one of them *)
(* was met.                                                                *)
(*                                                                         *)
(* Left out: -INT_MIN, which has no defined result, and the wait for the   *)
(* serial line.                                                            *)
(***************************************************************************)
EXTENDS Integers, Sequences, SequencesExt

CONSTANTS Tokens,       \* characters of the formats
          FormatLength, \* bound of their length
          Ints,         \* int arguments
          Strs,         \* string arguments
          NIBBLES,      \* hexadecimal digits of an unsigned int
          LIMIT,        \* sizeof(buffer) - 1 in kprintf
          ROWS, COLS    \* size of the screen

(* The greatest int; -INT_MIN is left out. *)
INT_MAX == 2147483647

(* The characters of the strings *)
Letters == UNION {{str[k] : k \in DOMAIN str} : str \in Strs}

ASSUME StrsAssumption == Strs \subseteq Seq(Letters)

ASSUME FormatAssumption ==
    /\ \A n \in Ints : n \in Int /\ -INT_MAX <= n /\ n <= INT_MAX
    /\ NIBBLES \in 1..8 /\ LIMIT \in Nat /\ FormatLength \in Nat
    /\ ROWS \in Nat /\ COLS \in Nat

VARIABLES dev,      \* "serial", or "screen" for kprintf, or "str" for int_to_str
          fmt,      \* the format that is left
          out,      \* what has been sent, or the buffer
          meaning,  \* history
          misprint, \* history
          at,       \* "loop", "done", or "beyond" the end of the format
          screen,   \* the cells
          place     \* history: row and column kprint was called with

printVars == <<dev, fmt, out, meaning, misprint, at, screen, place>>

Blank  == " "
Cells  == (0..(ROWS - 1)) \X (0..(COLS - 1))
Digits == <<"0", "1", "2", "3", "4", "5", "6", "7", "8", "9", "a", "b", "c", "d", "e", "f">>
Upper  == SubSeq(Digits, 1, 10) \o <<"A", "B", "C", "D", "E", "F">>
Digit(d) == Digits[d + 1]

Power(b, k) == LET f[i \in 0..k] == IF i = 0 THEN 1 ELSE b * f[i - 1] IN f[k]
Unsigned(n) == n % Power(16, NIBBLES)

-----------------------------------------------------------------------------
(* Conversions *)

(* while(num > 0): the digits from the lowest; an int has at most ten. *)
LowRound(p) ==
    IF p.num = 0 THEN p
    ELSE [num |-> p.num \div 10, digits |-> Append(p.digits, Digit(p.num % 10))]
Low(n) ==
    LET f[k \in 0..10] == IF k = 0 THEN [num |-> n, digits |-> <<>>] ELSE LowRound(f[k - 1])
    IN f[10].digits

serial_print_int(n) ==
    IF n = 0 THEN <<"0">>
    ELSE Reverse(Low(IF n < 0 THEN -n ELSE n) \o (IF n < 0 THEN <<"-">> ELSE <<>>))

(* The same loop into a buffer that reverse_str turns round. *)
int_to_str(n) == serial_print_int(n)

Nibbles(n, digits) == [k \in 1..NIBBLES |-> digits[((n \div Power(16, NIBBLES - k)) % 16) + 1]]

serial_print_hex(n) ==
    LET buffer == Nibbles(n, Digits)
        start  == CHOOSE k \in 1..NIBBLES :
                    /\ k = NIBBLES \/ buffer[k] # "0"
                    /\ \A j \in 1..(k - 1) : buffer[j] = "0"
    IN <<"0", "x">> \o (IF n = 0 THEN <<"0">> ELSE SubSeq(buffer, start, NIBBLES))

(* The loop of kprintf gives nothing for a negative number. *)
kprintf_int(n) == IF n = 0 THEN <<"0">> ELSE Reverse(Low(IF n < 0 THEN 0 ELSE n))

-----------------------------------------------------------------------------
(* What numbers mean: digit by digit from the value. *)

Numeral(n, base) ==
    LET l == CHOOSE l \in 1..10 : /\ n < Power(base, l)
                                  /\ \A j \in 1..(l - 1) : n >= Power(base, j)
    IN [k \in 1..l |-> Digit((n \div Power(base, l - k)) % base)]

(* The same in capitals, filled up to NIBBLES digits with zeroes. *)
UpperNumeral(n) ==
    LET numeral == Numeral(n, 16)
    IN [k \in 1..NIBBLES |->
          LET j == k - NIBBLES + Len(numeral)
          IN IF j < 1 THEN "0" ELSE Upper[CHOOSE d \in 1..16 : Digits[d] = numeral[j]]]

Decimal(n) == IF n < 0 THEN <<"-">> \o Numeral(-n, 10) ELSE Numeral(n, 10)

-----------------------------------------------------------------------------
UpTo(q, n) == SubSeq(q, 1, IF n < Len(q) THEN n ELSE Len(q))
NoPlace   == <<>>

PrintInit ==
    /\ dev \in {"serial", "screen"}
    /\ fmt \in UNION {[1..n -> Tokens] : n \in 0..FormatLength}
    /\ out = <<>>
    /\ meaning = <<>>
    /\ misprint = FALSE
    /\ at = "loop"
    /\ screen = [c \in Cells |-> Blank]
    /\ place = NoPlace

(* A caller of int_to_str, which prints the string with kprint. *)
NumberInit ==
    /\ dev = "str"
    /\ fmt = <<>>
    /\ \E n \in Ints : out = int_to_str(n) /\ meaning = Decimal(n)
    /\ misprint = FALSE
    /\ at = "loop"
    /\ screen = [c \in Cells |-> Blank]
    /\ place = NoPlace

(* A round takes k characters of the format, writes q and should write m;  *)
(* wrong where the code is known to do otherwise.                          *)
Takes(k, q, m, wrong) ==
    /\ fmt' = SubSeq(fmt, k + 1, Len(fmt))
    /\ out' = out \o q
    /\ meaning' = meaning \o m
    /\ misprint' = (misprint \/ wrong)
    /\ UNCHANGED <<dev, at, screen, place>>
Writes(k, q, m)    == Takes(k, q, m, FALSE)
Misprints(k, q, m) == Takes(k, q, m, TRUE)

Next2(c) == Len(fmt) >= 2 /\ fmt[1] = "%" /\ fmt[2] = c

SerialText == fmt[1] # "%" /\ Writes(1, <<fmt[1]>>, <<fmt[1]>>)

SerialDirective ==
    \/ Next2("s") /\ \E str \in Strs : Writes(2, str, str)
    \/ Next2("c") /\ \E c \in Tokens : Writes(2, <<c>>, <<c>>)
    \/ Next2("d") /\ \E n \in Ints : Writes(2, serial_print_int(n), Decimal(n))
    \/ Next2("x") /\ \E n \in Ints :
        Writes(2, serial_print_hex(Unsigned(n)), <<"0", "x">> \o Numeral(Unsigned(n), 16))
    \* The prefix of the pointer, and that of serial_print_hex.
    \/ Next2("p") /\ \E n \in Ints :
        Misprints(2, <<"0", "x">> \o serial_print_hex(Unsigned(n)),
                  <<"0", "x">> \o Numeral(Unsigned(n), 16))
    \/ Next2("%") /\ Writes(2, <<"%">>, <<"%">>)

SerialOther ==
    /\ fmt[1] = "%" /\ Len(fmt) >= 2
    /\ fmt[2] \notin {"s", "c", "d", "x", "p", "%"}
    /\ Writes(2, <<"%", fmt[2]>>, <<"%", fmt[2]>>)

(* A single % at the end: the NUL is printed and skipped. *)
SerialBeyond ==
    /\ fmt = <<"%">>
    /\ at' = "beyond"
    /\ UNCHANGED <<dev, fmt, out, meaning, misprint, screen, place>>

SerialRound ==
    /\ dev = "serial" /\ at = "loop" /\ fmt # <<>>
    /\ SerialText \/ SerialDirective \/ SerialOther \/ SerialBeyond

SerialEnd ==
    /\ dev = "serial" /\ at = "loop" /\ fmt = <<>>
    /\ at' = "done"
    /\ UNCHANGED <<dev, fmt, out, meaning, misprint, screen, place>>

(* Seeded fault: no place for the NUL. *)
RoomOneMore == LIMIT + 1 - Len(out)
(* pos < 127, in the inner loops too. *)
Room == LIMIT - Len(out)

ScreenRound ==
    /\ dev = "screen" /\ at = "loop" /\ fmt # <<>> /\ Room > 0
    /\ \/ Next2("s") /\ \E str \in Strs : Writes(2, UpTo(str, Room), str)
       \/ Next2("d") /\ \E n \in Ints :
            Takes(2, UpTo(kprintf_int(n), Room), Decimal(n), n < 0)
       \/ Next2("x") /\ \E n \in Ints :
            Writes(2, UpTo(Nibbles(Unsigned(n), Upper), Room), UpperNumeral(Unsigned(n)))
       \/ ~Next2("s") /\ ~Next2("d") /\ ~Next2("x") /\ Writes(1, <<fmt[1]>>, <<fmt[1]>>)

(* kprint: put_char ignores what is outside the screen. *)
Kprint(row, col, str) ==
    screen' = [c \in Cells |->
                IF c[1] = row /\ c[2] - col + 1 \in DOMAIN str THEN str[c[2] - col + 1]
                ELSE screen[c]]

ScreenEnd ==
    /\ dev \in {"screen", "str"} /\ at = "loop" /\ (fmt = <<>> \/ Room = 0)
    /\ \E row \in -1..ROWS, col \in -1..COLS :
        /\ Kprint(row, col, out)
        /\ place' = <<row, col>>
    /\ at' = "done"
    /\ UNCHANGED <<dev, fmt, out, meaning, misprint>>

PrintNext == SerialRound \/ SerialEnd \/ ScreenRound \/ ScreenEnd

PrintSpec == (PrintInit \/ NumberInit) /\ [][PrintNext]_printVars

-----------------------------------------------------------------------------
(* Properties *)

(* What is on the screen in row r, from column c as far as it is visible.  *)
Shows(r, c, str) ==
    \A x \in Cells : screen[x] = IF x[1] = r /\ x[2] >= c /\ x[2] < c + Len(str)
                                 THEN str[x[2] - c + 1] ELSE Blank

(* The serial line gets exactly what the format means, except that a %p    *)
(* spoils it; kprintf shows the first LIMIT characters of what the format  *)
(* means, except that a %d for a negative number spoils it.  kprintf never *)
(* writes behind its buffer and touches no cell outside the part of the    *)
(* row that is on the screen.  Only a format with a single % at its end is *)
(* read beyond that end.                                                   *)
PrintsMeaning ==
    /\ dev = "serial" => (out = meaning <=> ~misprint)
    /\ dev = "screen" => /\ Len(out) <= LIMIT
                         /\ misprint \/ IsPrefix(out, meaning)
    /\ dev = "str" => out = meaning
    /\ at = "beyond" => fmt = <<"%">>
    /\ at = "done" /\ dev = "screen" =>
        Len(out) = LIMIT \/ (fmt = <<>> /\ (out = meaning <=> ~misprint))
    /\ place # NoPlace => Shows(place[1], place[2], out)
    /\ place = NoPlace => \A x \in Cells : screen[x] = Blank
=============================================================================
