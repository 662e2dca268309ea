---------------------------- MODULE MCExpression ----------------------------
(***************************************************************************)
(* The client of MCParser, compared with the grammar of expressions.       *)
(***************************************************************************)
EXTENDS MCParser, Grammar, Functions

Reference(alphabet, length) == INSTANCE ExpressionGrammar WITH
    Alphabet <- alphabet, MaxLength <- length

(* The expressions among the sources of each shape *)
Expressions ==
    UNION {Reference(UNION Range(shape), Len(shape))!Expressions : shape \in Shapes}

ExpressionTrees == Trees(Expressions)
ExpressionBeginnings == Beginnings(Expressions)
ExpressionSources == Complete(Expressions)

(* An expression that is returned, if no alternative failed behind tokens  *)
(* it had taken, is the expression the grammar gives the tokens taken:     *)
(* operators nest by precedence, lambdas and ifs reach as far as they can, *)
(* and every area is that of the tokens below the node.                    *)
ReturnsExpressionsOfTheGrammar ==
    Accepted /\ ~dropped => <<SubSeq(read, 1, taken), ret.ast>> \in ExpressionTrees

(* No expression of the grammar is rejected: wherever the error was        *)
(* noticed, no expression begins with what was read.                       *)
RejectsNoExpressionOfTheGrammar ==
    Rejected => read \notin ExpressionBeginnings \cup ExpressionSources

(* An expression that is returned could not have gone on with the next     *)
(* token.                                                                  *)
TakesTheLongestExpression ==
    Accepted /\ ~stuck => read \notin ExpressionBeginnings
=============================================================================
