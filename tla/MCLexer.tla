------------------------------ MODULE MCLexer -------------------------------
(***************************************************************************)
(* Small instances of Lexer.  The sources are what the scanner's patterns  *)
(* make of every text of at most MaxPieces pieces: blanks, line ends, a    *)
(* word, a symbol and a character that begins no token.                    *)
(***************************************************************************)
EXTENDS Lexer, SequencesExt

CONSTANT MaxPieces

Patterns == INSTANCE ScannerPatterns

MCTexts ==
    BoundedSeq({Patterns!Blank, Patterns!LineEnd, Patterns!Stray, "let", ","}, MaxPieces)

Characters(text) == FoldLeft(LAMBDA sum, p : sum + Patterns!Length(p), 0, text)

Source(text) ==
    LET scanned == Patterns!Scan(text)
    IN  [i \in DOMAIN scanned |->
            [type |-> scanned[i].type, size |-> Characters(scanned[i].text)]]

MCContents == {Source(text) : text \in MCTexts}

(* One text of two different tokens, to tell the tokens of a trace apart.   *)
MCTwoTokens == {Source(<<"let", ",">>)}

MCPositions == {0, Word - 4}
=============================================================================
