------------------------------ MODULE TextArea ------------------------------
(***************************************************************************)
(* lexing::TextArea: the half open stretch of source text [start, end) a   *)
(* token or a syntax node was read from.                                   *)
(***************************************************************************)
EXTENDS Naturals

Area == [start : Nat, end : Nat]

(* The smallest area that covers both: TextArea::combine.                  *)
Combine(first, second) ==
    [start |-> IF first.start < second.start THEN first.start ELSE second.start,
     end   |-> IF first.end > second.end THEN first.end ELSE second.end]

(* outer covers inner *)
Covers(outer, inner) == outer.start <= inner.start /\ inner.end <= outer.end
=============================================================================
