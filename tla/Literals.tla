------------------------------ MODULE Literals ------------------------------
(***************************************************************************)
(* The integer literals the scanner finds, and the numbers the parser      *)
(* makes of them.                                                          *)
(***************************************************************************)
EXTENDS Scanner, Numbers

(* The number a literal stands for: from its last digit on, each digit as  *)
(* many times as its place is worth, ten times the place behind it.        *)
Number(text) ==
    LET last[n \in 0 .. Len(text)] ==
            IF n = 0 THEN [place |-> 1, value |-> 0]
            ELSE LET behind == last[n - 1] IN
                 [place |-> 10 * behind.place,
                  value |-> DigitValue(text[Len(text) - n + 1]) * behind.place
                                + behind.value]
    IN  last[Len(text)].value

(* integer() converts every INTEGER token to the number it stands for,     *)
(* and its arithmetic is undefined for exactly the literals above the      *)
(* largest integer: no intermediate result is out of range before          *)
(* (SimpleExpressionParser::integer, parse_int_unsafe).                    *)
IntegersKeepTheirValue ==
    \A i \in DOMAIN lexemes : lexemes[i].type = "INTEGER" =>
        LET parsed == ParseInt(lexemes[i].text) IN
        /\ parsed.undefined <=> Number(lexemes[i].text) > MaxInt
        /\ parsed.undefined \/ parsed.value = Number(lexemes[i].text)
=============================================================================
