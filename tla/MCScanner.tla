----------------------------- MODULE MCScanner ------------------------------
(***************************************************************************)
(* Families of short texts for Scanner: each holds the pieces that one     *)
(* group of patterns tells apart, in every order.                          *)
(***************************************************************************)
EXTENDS Literals, SequencesExt

CONSTANTS
    NumberLength, DecimalLength, StringLength, WordLength, OperatorLength, LineLength
                 (* bounds: pieces in a text of each family                *)

MCSourceTexts ==
    BoundedSeq({"0", "1", ".", Exponent, "+", "x"}, NumberLength)
    \cup BoundedSeq({"1", "2", "7", "8"}, DecimalLength)
    \cup {<<Quote>> \o s : s \in BoundedSeq({Quote, Backslash, "x", LineEnd}, StringLength)}
    \cup BoundedSeq({"let", "type", "class", "x", "_", "1", Blank, "("}, WordLength)
    \cup BoundedSeq({"<", "=", ">", "-", "!", "/", ":", "|", "&"}, OperatorLength)
    \cup BoundedSeq({"/", LineEnd, Blank, Quote, "x"}, LineLength)
    \cup BoundedSeq(Pieces, 2)

(* A string ends in a NUL; in a buffer anything can follow, a quote too.   *)
MCBehindTheEnd == {Quote, "nul"}

=============================================================================
