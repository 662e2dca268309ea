---------------------------- MODULE MCTypeParser ----------------------------
(***************************************************************************)
(* A client that parses one type: Parser{text}.type().                     *)
(***************************************************************************)
EXTENDS TypeParser, Grammar, FiniteSets

CONSTANT TypeLength      (* bound: the tokens of a type of the grammar     *)

Reference == INSTANCE TypeGrammar WITH Alphabet <- Alphabet, MaxLength <- TypeLength

Init == Starting("type")

Next == LexNext \/ TypeNext

Spec == Init /\ [][Next]_vars

FairSpec == Spec /\ WF_vars(Next)

-----------------------------------------------------------------------------
Accepted == stack = <<>> /\ ret.tag = "value"
Rejected == stack = <<>> /\ ret.tag = "error"

TypeTrees == Trees(Reference!Types)
TypeBeginnings == Beginnings(Reference!Types)
TypeSources == Complete(Reference!Types)
Compounds == {x.toks : x \in Reference!CompoundTypes}
CompoundBeginnings == Beginnings(Reference!CompoundTypes)

(* A type that is returned is a type of the grammar: it was made of the    *)
(* tokens taken and of nothing else, and its tree, areas included, is the  *)
(* one the grammar gives them (TypeParser::type).                          *)
ReturnsTypesOfTheGrammar ==
    Accepted => <<SubSeq(read, 1, taken), ret.ast>> \in TypeTrees

(* No type of the grammar is rejected: wherever the error is noticed, no   *)
(* type begins with what was read.                                         *)
RejectsNoTypeOfTheGrammar ==
    Rejected => read \notin TypeBeginnings \cup TypeSources

(* A type that is returned could not have gone on with the next token.     *)
TakesTheLongestType ==
    Accepted /\ ~stuck => read \notin TypeBeginnings

(* The first token no type can go on with, and the compound types that     *)
(* were begun before the n-th token and are not complete there             *)
FirstWrong ==
    CHOOSE n \in DOMAIN read :
        /\ SubSeq(read, 1, n - 1) \in TypeBeginnings
        /\ SubSeq(read, 1, n) \notin TypeBeginnings

OpenBefore(n) ==
    {i \in 1 .. n - 1 : SubSeq(read, i, n - 1) \in CompoundBeginnings \ Compounds}

(* type() drops the error of the method it called, pops another token and  *)
(* names that one.  So the error of a rejected type names the token no     *)
(* type can go on with where the type is flat, and behind it one more for  *)
(* each type in parentheses, parameters with the type behind their arrow   *)
(* included, that was not complete: never an earlier one, and never one    *)
(* that is further off (TypeParser::type).                                 *)
ErrorsMoveOnByLevel ==
    Rejected /\ ret.err.what = "UnexpectedToken" =>
        ret.err.at = FirstWrong + Cardinality(OpenBefore(FirstWrong))

(* Every call comes back: no sequence of tokens keeps the parser busy.     *)
Terminates == <>Done
=============================================================================
