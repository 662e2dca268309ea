-------------------------- MODULE ScannerPatterns ---------------------------
(***************************************************************************)
(* Lexer::lexNext down to the characters: the ladder of patterns, tried in *)
(* a fixed order, of which the first that matches makes the token.         *)
(***************************************************************************)
EXTENDS Texts

-----------------------------------------------------------------------------
(* The patterns: how many pieces one takes from the front of a text, and 0 *)
(* where it does not match.                                                *)

(* [set]* *)
Span(text, set) ==
    CHOOSE n \in 0 .. Len(text) :
        /\ \A i \in 1 .. n : text[i] \in set
        /\ n < Len(text) => text[n + 1] \notin set

(* a fixed text *)
StartOfWord(text, word) ==
    IF StartsWith(text, word) THEN Len(word) ELSE 0

WordBeforeBlank(text, word) ==
    IF StartsWith(text, word) /\ At(text, Len(word) + 1) \in {Blank, "end of text"}
    THEN Len(word) ELSE 0

(* word([^a-zA-Z0-9_]|$), of which the callers take the word only *)
WholeWord(text, word) ==
    IF StartsWith(text, word) /\ At(text, Len(word) + 1) \notin WordPieces
    THEN Len(word) ELSE 0

Identifier(text) ==
    IF At(text, 1) \in WordPieces \ Digits THEN Span(text, WordPieces) ELSE 0

Integer(text) ==
    IF At(text, 1) = "0" THEN 1 ELSE Span(text, Digits)

(* ([eE][+\-]?[0-9]+)? *)
OptionalExponent(text) ==
    LET sign   == IF At(text, 2) \in {"+", "-"} THEN 1 ELSE 0
        digits == Span(Drop(text, 1 + sign), Digits)
    IN  IF At(text, 1) = Exponent /\ digits > 0 THEN 1 + sign + digits ELSE 0

Double(text) ==
    LET whole    == Span(text, Digits)
        mantissa == whole + 1 + Span(Drop(text, whole + 1), Digits)
    IN  IF whole > 0 /\ At(text, whole + 1) = "."
        THEN mantissa + OptionalExponent(Drop(text, mantissa)) ELSE 0

(* last_was_slash, when the loop of lexStandardString looks at i *)
LastWasSlash(text) ==
    LET last[i \in 1 .. Len(text)] ==
            i > 2 /\ text[i - 1] = Backslash /\ ~last[i - 1]
    IN  last

(* where that loop can break: its first break is the closing quote *)
Breaks(text) ==
    LET last == LastWasSlash(text)
    IN  {i \in 2 .. Len(text) : text[i] = Quote /\ ~last[i]}

Unclosed(text) == At(text, 1) = Quote /\ Breaks(text) = {}

StandardString(text) ==
    IF At(text, 1) = Quote /\ Breaks(text) # {}
    THEN CHOOSE i \in Breaks(text) : \A j \in Breaks(text) : i <= j
    ELSE 0

(* skipToNewLine, behind the two slashes of a comment *)
Comment(text) ==
    IF StartsWith(text, <<"/", "/">>) THEN Span(text, Pieces \ {LineEnd}) ELSE 0

-----------------------------------------------------------------------------
(* lexNext *)

(* The rules of the ladder, named for the tokens they make, in the order   *)
(* they are tried *)
Ladder ==
    <<"WHITESPACE", "NEWLINE",
      "LET", "TRUE", "FALSE", "FUN", "TYPECLASS", "TYPE", "IF", "ELIF", "ELSE",
      "FOR", "WHILE", "SELF_VALUE", "SELF_TYPE", "UNDERSCORE",
      "IDENTIFIER", "DOUBLE", "INTEGER", "COLON_COLON", "COLON", "STANDARD_STRING",
      "DOT", "COMMA", "QUESTIONMARK", "R_ARROW", "L_ARROW", "LE", "GE", "EQ",
      "NEQ", "LAMBDA_ARROW", "LINE_COMMENT_START", "DIVISION", "LT", "GT",
      "ASSIGN", "PLUS", "MINUS", "LOGICAL_NOT", "ASTERIX", "PERCENT",
      "L_PARANTHESIS", "R_PARANTHESIS", "L_BRACKET", "R_BRACKET", "LOGICAL_OR",
      "LOGICAL_AND", "BITWISE_OR", "BITWISE_AND", "SEMICOLON">>

(* How many pieces a rule takes from the front of a text *)
Size(text, type) ==
    CASE type = "WHITESPACE" -> Span(text, {Blank})
      [] type = "NEWLINE" -> Span(text, {LineEnd})
      [] type = "IDENTIFIER" -> Identifier(text)
      [] type = "DOUBLE" -> Double(text)
      [] type = "INTEGER" -> Integer(text)
      [] type = "STANDARD_STRING" -> StandardString(text)
      [] type = "LINE_COMMENT_START" -> Comment(text)
      [] type \in Keywords -> WholeWord(text, KeywordText(type))
      [] type \in DOMAIN Symbols -> StartOfWord(text, Symbols[type])

(* The rule that makes the next token, and one of size 0 if none does. *)
FirstRule(text) ==
    LET matching == {r \in DOMAIN Ladder : Size(text, Ladder[r]) > 0}
        first    == Ladder[CHOOSE r \in matching : \A other \in matching : r <= other]
    IN  IF matching = {} THEN [type |-> "UNLEXABLE", size |-> 0]
        ELSE [type |-> first, size |-> Size(text, first)]

(* The lexemes of a text, up to the first stretch no rule matches, which   *)
(* is one of the type UNLEXABLE: the sources the module Lexer starts from. *)
Scan(text) ==
    LET from[i \in 1 .. Len(text) + 1] ==
            IF i > Len(text) THEN <<>>
            ELSE LET rule == FirstRule(Drop(text, i - 1)) IN
                 IF rule.size = 0
                 THEN <<[type |-> "UNLEXABLE", text |-> Drop(text, i - 1)]>>
                 ELSE <<[type |-> rule.type, text |-> SubSeq(text, i, i + rule.size - 1)]>>
                          \o from[i + rule.size]
    IN  from[1]
=============================================================================
