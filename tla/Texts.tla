------------------------------- MODULE Texts --------------------------------
(***************************************************************************)
(* Source texts.  A text is a sequence of pieces.  A piece is a character, *)
(* one of those the patterns of the lexer tell apart, or the stem of a     *)
(* keyword: a stretch of letters that the patterns meet as a whole.        *)
(***************************************************************************)
EXTENDS Naturals, Sequences

(* The words with a token type of their own; typeclass is two stems.       *)
Keywords ==
    {"LET", "TRUE", "FALSE", "FUN", "TYPECLASS", "TYPE", "IF", "ELIF", "ELSE", "FOR",
     "WHILE", "SELF_VALUE", "SELF_TYPE", "UNDERSCORE"}

KeywordText(keyword) ==
    CASE keyword = "LET" -> <<"let">>
      [] keyword = "TRUE" -> <<"true">>
      [] keyword = "FALSE" -> <<"false">>
      [] keyword = "FUN" -> <<"fun">>
      [] keyword = "TYPECLASS" -> <<"type", "class">>
      [] keyword = "TYPE" -> <<"type">>
      [] keyword = "IF" -> <<"if">>
      [] keyword = "ELIF" -> <<"elif">>
      [] keyword = "ELSE" -> <<"else">>
      [] keyword = "FOR" -> <<"for">>
      [] keyword = "WHILE" -> <<"while">>
      [] keyword = "SELF_VALUE" -> <<"self">>
      [] keyword = "SELF_TYPE" -> <<"Self">>
      [] keyword = "UNDERSCORE" -> <<"_">>

(* The fixed texts of the other tokens. *)
Symbols ==
    [COLON_COLON |-> <<":", ":">>, COLON |-> <<":">>, DOT |-> <<".">>,
     COMMA |-> <<",">>, QUESTIONMARK |-> <<"?">>, R_ARROW |-> <<"-", ">">>,
     L_ARROW |-> <<"<", "-">>, LE |-> <<"<", "=">>, GE |-> <<">", "=">>,
     EQ |-> <<"=", "=">>, NEQ |-> <<"!", "=">>, LAMBDA_ARROW |-> <<"=", ">">>,
     DIVISION |-> <<"/">>, LT |-> <<"<">>, GT |-> <<">">>, ASSIGN |-> <<"=">>,
     PLUS |-> <<"+">>, MINUS |-> <<"-">>, LOGICAL_NOT |-> <<"!">>,
     ASTERIX |-> <<"*">>, PERCENT |-> <<"%">>, L_PARANTHESIS |-> <<"(">>,
     R_PARANTHESIS |-> <<")">>, L_BRACKET |-> <<"{">>, R_BRACKET |-> <<"}">>,
     LOGICAL_OR |-> <<"|", "|">>, LOGICAL_AND |-> <<"&", "&">>,
     BITWISE_OR |-> <<"|">>, BITWISE_AND |-> <<"&">>, SEMICOLON |-> <<";">>]

Digits == {"0", "1", "2", "3", "4", "5", "6", "7", "8", "9"}

(* [eE] and the other letters *)
Exponent == "e"
Letters ==
    {Exponent, "x", "let", "true", "false", "fun", "type", "class", "if", "elif",
     "else", "for", "while", "self", "Self"}

(* [a-zA-Z0-9_] *)
WordPieces == Letters \cup Digits \cup {"_"}

Quote == "\""
Backslash == "\\"
Blank == " "        (* any of [ \f\r\t\v] *)
LineEnd == "\n"
Stray == "$"        (* a character no pattern starts with *)

Pieces ==
    WordPieces \cup {Quote, Backslash, Blank, LineEnd, Stray}
        \cup UNION {{Symbols[s][i] : i \in 1 .. Len(Symbols[s])} : s \in DOMAIN Symbols}

(* How many characters a piece has. *)
Length(piece) ==
    CASE piece = "if" -> 2
      [] piece \in {"let", "fun", "for"} -> 3
      [] piece \in {"true", "type", "elif", "else", "self", "Self"} -> 4
      [] piece \in {"false", "while", "class"} -> 5
      [] OTHER -> 1

(* The piece at i, and something that is no piece behind the end. *)
At(text, i) == IF i \in 1 .. Len(text) THEN text[i] ELSE "end of text"

Drop(text, n) == SubSeq(text, n + 1, Len(text))

StartsWith(text, word) ==
    Len(word) <= Len(text) /\ SubSeq(text, 1, Len(word)) = word
=============================================================================
