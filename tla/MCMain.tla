------------------------------ MODULE MCMain --------------------------------
(***************************************************************************)
(* Small instances of Main: the scanner's patterns, the Lexer and its      *)
(* client together, over the texts of MCLexer that are one line.           *)
(***************************************************************************)
EXTENDS Main, MCLexer

MCLines == {Source(text) : text \in {t \in MCTexts : \A i \in DOMAIN t : t[i] # Patterns!LineEnd}}
=============================================================================
