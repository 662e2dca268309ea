--------------------------- MODULE LexicalGrammar ---------------------------
(***************************************************************************)
(* What a scanner of this language promises: every token type has a        *)
(* language, and from the front of the text it takes the longest lexeme of *)
(* any of them.  A word that is a keyword is no identifier.  Where no      *)
(* lexeme begins the scanner stops with an error.  Behind a quote that is  *)
(* never closed nothing is promised.                                       *)
(*                                                                         *)
(* The languages say which texts are lexemes, with no notion of an order   *)
(* in which patterns are tried or of a state while a text is read.         *)
(***************************************************************************)
EXTENDS Texts

AllIn(text, set) == \A i \in 1 .. Len(text) : text[i] \in set

IsWord(text) ==
    text # <<>> /\ AllIn(text, WordPieces) /\ text[1] \notin Digits

IsKeyword(text, type) == type \in Keywords /\ text = KeywordText(type)

IsReserved(text) == \E type \in Keywords : text = KeywordText(type)

IsNumber(text) == text # <<>> /\ AllIn(text, Digits)

(* 0 and every number without a leading 0 *)
IsInteger(text) == IsNumber(text) /\ (text[1] = "0" => Len(text) = 1)

(* number . [digits] [e [sign] number] *)
IsExponent(text) ==
    /\ text # <<>> /\ text[1] = Exponent
    /\ \/ IsNumber(Drop(text, 1))
       \/ At(text, 2) \in {"+", "-"} /\ IsNumber(Drop(text, 2))

IsFraction(text) ==
    \E n \in 0 .. Len(text) :
        /\ AllIn(SubSeq(text, 1, n), Digits)
        /\ n = Len(text) \/ IsExponent(Drop(text, n))

IsDouble(text) ==
    \E dot \in 1 .. Len(text) :
        /\ text[dot] = "."
        /\ IsNumber(SubSeq(text, 1, dot - 1))
        /\ IsFraction(Drop(text, dot))

(* A piece is escaped by an odd number of backslashes before it. *)
IsEscaped(text, i) ==
    \E n \in 1 .. i - 2 :
        /\ n % 2 = 1
        /\ AllIn(SubSeq(text, i - n, i - 1), {Backslash})
        /\ text[i - n - 1] # Backslash

(* Quotes around a text in which every quote is escaped. *)
IsString(text) ==
    /\ Len(text) >= 2 /\ text[1] = Quote
    /\ \A i \in 2 .. Len(text) :
           (text[i] = Quote /\ ~IsEscaped(text, i)) <=> i = Len(text)

IsComment(text) ==
    /\ StartsWith(text, <<"/", "/">>)
    /\ AllIn(text, Pieces \ {LineEnd})

IsSymbol(text, type) == type \in DOMAIN Symbols /\ text = Symbols[type]

IsLexeme(text, type) ==
    \/ type = "WHITESPACE" /\ text # <<>> /\ AllIn(text, {Blank})
    \/ type = "NEWLINE" /\ text # <<>> /\ AllIn(text, {LineEnd})
    \/ IsKeyword(text, type)
    \/ type = "IDENTIFIER" /\ IsWord(text) /\ ~IsReserved(text)
    \/ type = "INTEGER" /\ IsInteger(text)
    \/ type = "DOUBLE" /\ IsDouble(text)
    \/ type = "STANDARD_STRING" /\ IsString(text)
    \/ type = "LINE_COMMENT_START" /\ IsComment(text)
    \/ IsSymbol(text, type)

LexemeTypes ==
    {"WHITESPACE", "NEWLINE", "IDENTIFIER", "INTEGER", "DOUBLE", "STANDARD_STRING",
     "LINE_COMMENT_START"} \cup DOMAIN Symbols \cup Keywords

(* The first n pieces of a text are a lexeme. *)
Begins(text, n) == \E type \in LexemeTypes : IsLexeme(SubSeq(text, 1, n), type)

Unclosed(text) ==
    /\ text # <<>> /\ text[1] = Quote
    /\ \A n \in 1 .. Len(text) : ~IsString(SubSeq(text, 1, n))

-----------------------------------------------------------------------------
VARIABLES
    content,     (* the text that is left                                  *)
    lexemes,     (* the lexemes taken so far: [type, text]                 *)
    stopped      (* an error was found, or the end of a quote missed       *)

vars == <<content, lexemes, stopped>>

Init == lexemes = <<>> /\ stopped = FALSE

(* The longest lexeme at the front is taken. *)
Take ==
    /\ ~stopped
    /\ \E n \in 1 .. Len(content), type \in LexemeTypes :
           /\ IsLexeme(SubSeq(content, 1, n), type)
           /\ \A longer \in n + 1 .. Len(content) : ~Begins(content, longer)
           /\ lexemes' = Append(lexemes, [type |-> type, text |-> SubSeq(content, 1, n)])
           /\ content' = Drop(content, n)
    /\ UNCHANGED stopped

Reject ==
    /\ ~stopped /\ content # <<>>
    /\ \A n \in 1 .. Len(content) : ~Begins(content, n)
    /\ stopped' = TRUE
    /\ UNCHANGED <<content, lexemes>>

MissTheEnd ==
    /\ ~stopped /\ Unclosed(content)
    /\ stopped' = TRUE

Next == Take \/ Reject \/ MissTheEnd

Spec == Init /\ [][Next]_vars
=============================================================================
