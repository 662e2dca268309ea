------------------------------ MODULE Numbers -------------------------------
(***************************************************************************)
(* The conversion of literals to numbers (parser/Utils.hpp).  The value of *)
(* an integer literal is a signed integer of fixed width; one that does    *)
(* not fit is undefined behaviour, which the builds let wrap.              *)
(* parse_double_unsafe returns 0.0 for every literal and is left out.      *)
(***************************************************************************)
EXTENDS Integers, Sequences

CONSTANT MaxInt     (* 2^(w-1) - 1, w the width of std::int64_t *)

ASSUME MaxIntAssumption == MaxInt \in Nat /\ MaxInt >= 9

Fits(n) == -MaxInt - 1 <= n /\ n <= MaxInt

Wrapped(n) == ((n + MaxInt + 1) % (2 * (MaxInt + 1))) - (MaxInt + 1)

(* c - '0' *)
DigitValue(c) ==
    LET digits == <<"0", "1", "2", "3", "4", "5", "6", "7", "8", "9">>
    IN  (CHOOSE i \in DOMAIN digits : digits[i] = c) - 1

NextValueSwapped(value, c) == (value + DigitValue(c)) * 10

(* One turn of the loop. *)
NextValue(value, c) == DigitValue(c) + value * 10

(* parse_int_unsafe *)
ParseInt(text) ==
    LET read[i \in 0 .. Len(text)] ==
            IF i = 0 THEN [value |-> 0, undefined |-> FALSE]
            ELSE LET next == NextValue(read[i - 1].value, text[i]) IN
                 [value     |-> Wrapped(next),
                  undefined |-> read[i - 1].undefined \/ ~Fits(next)]
    IN  read[Len(text)]
=============================================================================
