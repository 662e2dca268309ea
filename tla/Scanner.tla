------------------------------ MODULE Scanner -------------------------------
(***************************************************************************)
(* Lexer::lexNext as it goes through a text: one step per token, per       *)
(* stretch of whitespace it skips, and per error.  What the Lexer does     *)
(* with the tokens is the module Lexer's matter.                           *)
(***************************************************************************)
EXTENDS ScannerPatterns

CONSTANTS
    SourceTexts,     (* the texts to start from                            *)
    BehindTheEnd     (* the characters that can follow a text in memory    *)

ASSUME SourceTextsAssumption == SourceTexts \subseteq Seq(Pieces)
ASSUME BehindTheEndAssumption == BehindTheEnd # {}

-----------------------------------------------------------------------------
VARIABLES
    content_,    (* the text that is left                                  *)
    lexemes,     (* history: the lexemes scanned so far: [type, text]      *)
    error,       (* the error lexNext returned, which it repeats for ever  *)
    undefined    (* content_[i] was read behind the end of content_        *)

vars == <<content_, lexemes, error, undefined>>

Init ==
    /\ content_ \in SourceTexts
    /\ lexemes = <<>>
    /\ error = "none"
    /\ undefined = FALSE

Running == error = "none" /\ ~undefined /\ content_ # <<>>

(* moveForward: a token, or whitespace that lexNext skips, is cut off. *)
MoveForward(type, size) ==
    /\ lexemes' = Append(lexemes, [type |-> type, text |-> SubSeq(content_, 1, size)])
    /\ content_' = Drop(content_, size)

Lexes ==
    /\ Running
    /\ FirstRule(content_).size > 0
    /\ MoveForward(FirstRule(content_).type, FirstRule(content_).size)
    /\ UNCHANGED <<error, undefined>>

UnknownToken ==
    /\ Running
    /\ FirstRule(content_).size = 0 /\ ~Unclosed(content_)
    /\ error' = "UnknownToken"
    /\ UNCHANGED <<content_, lexemes, undefined>>

(* The loop of lexStandardString ran to the end, and the character behind  *)
(* the end decides: a quote there closes the string, which moveForward     *)
(* cuts to what there is.                                                  *)
ReadsBehindTheEnd ==
    /\ Running
    /\ Unclosed(content_)
    /\ undefined' = TRUE
    /\ \E next \in BehindTheEnd :
           IF next = Quote
           THEN MoveForward("STANDARD_STRING", Len(content_)) /\ UNCHANGED error
           ELSE error' = "UnclosedString" /\ UNCHANGED <<content_, lexemes>>

Next == Lexes \/ UnknownToken \/ ReadsBehindTheEnd

Spec == Init /\ [][Next]_vars

-----------------------------------------------------------------------------
(* Properties *)

(* lexNext takes the longest lexeme of any token type, although it takes   *)
(* the first pattern that matches: the order of the ladder, the lookahead  *)
(* behind keywords and the parity of backslashes in strings add up to the  *)
(* lexical grammar.  It reports an error only where no lexeme begins, and  *)
(* reads behind the end of the source only from a quote that no string     *)
(* begins with (lexNext, lexStandardString).                               *)
Grammar ==
    INSTANCE LexicalGrammar WITH
        content <- content_, stopped <- undefined \/ error # "none"

MaximalMunch == Grammar!Spec

(* What ends a token: a line end ends a comment, a blank any other. *)
Spaces == {"WHITESPACE", "NEWLINE"}
Separator(type) == IF type = "LINE_COMMENT_START" THEN LineEnd ELSE Blank
SeparatorType(type) == IF type = "LINE_COMMENT_START" THEN "NEWLINE" ELSE "WHITESPACE"

(* The last n lexemes written apart: each token and what ends it, and no   *)
(* other space.                                                            *)
WrittenApart ==
    LET apart[n \in 0 .. Len(lexemes)] ==
            IF n = 0 THEN <<>>
            ELSE LET l == lexemes[Len(lexemes) - n + 1] IN
                 IF l.type \in Spaces THEN apart[n - 1]
                 ELSE l.text \o <<Separator(l.type)>> \o apart[n - 1]
    IN  apart

(* Which tokens a text has does not depend on what stands next to them:    *)
(* the tokens written apart are scanned as the same tokens, so a keyword   *)
(* is a keyword in front of a bracket too and no token needs its           *)
(* neighbour to be one (lexNext).                                          *)
Rescans ==
    LET apart == WrittenApart IN
    ~undefined => \A n \in 1 .. Len(lexemes) :
        LET l == lexemes[Len(lexemes) - n + 1] IN
        l.type \notin Spaces =>
            /\ FirstRule(apart[n]) = [type |-> l.type, size |-> Len(l.text)]
            /\ FirstRule(<<Separator(l.type)>> \o apart[n - 1])
                   = [type |-> SeparatorType(l.type), size |-> 1]
=============================================================================
