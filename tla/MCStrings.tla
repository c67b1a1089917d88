----------------------------- MODULE MCStrings -----------------------------
(* The string functions against the text of string.h, where they differ.   *)
EXTENDS Strings

(* What string.h says of strcmp and strncmp: 0 for equal strings, and for  *)
(* unequal ones a negative number.                                         *)
UnequalIsNegative ==
    /\ call.op = "strcmp"  => (call.r < 0 <=> Str(mem, call.d) # Str(mem, call.s))
    /\ call.op = "strncmp" => (call.r < 0 <=> Cut(Str(mem, call.d), call.n)
                                                # Cut(Str(mem, call.s), call.n))
=============================================================================
