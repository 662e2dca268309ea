------------------------------ MODULE Grammar -------------------------------
(***************************************************************************)
(* Pieces of sentences with their syntax trees, to write a grammar down as *)
(* the set of its sentences of each length.  It is the reference the       *)
(* parser is compared with and shares nothing with it but the form of the  *)
(* trees.                                                                  *)
(***************************************************************************)
EXTENDS Naturals, Sequences

(* Some tokens, the trees of the phrases among them, and the area of the   *)
(* first and the last of these: it leaves out parentheses that only group. *)
Word(type) ==
    [toks |-> <<type>>, ast |-> <<>>, kids |-> 0, area |-> [start |-> 0, end |-> 1]]
Nothing == [toks |-> <<>>, ast |-> <<>>, kids |-> 0, area |-> [start |-> 0, end |-> 0]]

Moved(area, n) == [start |-> area.start + n, end |-> area.end + n]

Join(x, y) ==
    LET n == Len(x.toks)
    IN  [toks |-> x.toks \o y.toks,
         ast |-> x.ast \o [i \in DOMAIN y.ast |->
                              [y.ast[i] EXCEPT !.area = Moved(@, n)]],
         kids |-> x.kids + y.kids,
         area |-> [start |-> x.area.start, end |-> Moved(y.area, n).end]]

(* The phrase of a kind that the piece's trees and tokens make up *)
Phrase(kind, x) ==
    [x EXCEPT !.ast = Append(@, [kind |-> kind, arity |-> x.kids,
                                 size |-> Len(x.ast) + 1, area |-> x.area]),
              !.kids = 1]

Phrases(kind, pieces) == {Phrase(kind, x) : x \in pieces}

(* One piece of each set after the other *)
Then(xs, ys) == {Join(x, y) : x \in xs, y \in ys}

Words(types) == {Word(t) : t \in types}

(* left and right are the pieces by length: those of n tokens in all, with *)
(* a token of types between the two.                                       *)
Between(left, types, right, n) ==
    UNION {Then(Then(left[k], Words(types)), right[n - 1 - k]) : k \in 1 .. n - 2}

(* Pieces between brackets *)
Enclosed(open, pieces, close) == Then(Then(open, pieces), close)

(* The sentences with their trees; the beginnings of sentences; whole      *)
(* sources that hold a sentence and nothing else.                          *)
Trees(pieces) == {<<x.toks, x.ast>> : x \in pieces}

Beginnings(pieces) ==
    UNION {{SubSeq(x.toks, 1, n) : n \in 0 .. Len(x.toks)} : x \in pieces}

Complete(pieces) == {Append(x.toks, "END_OF_FILE") : x \in pieces}
=============================================================================
