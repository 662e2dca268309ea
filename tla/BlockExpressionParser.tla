----------------------- MODULE BlockExpressionParser ------------------------
(***************************************************************************)
(* BlockExpressionParser: block_expression() and try_singe_expr_block().   *)
(* A block is statements, each with a separator behind it, and => with an  *)
(* expression; or a single expression.                                     *)
(***************************************************************************)
EXTENDS ParserCore

Separators == {t \in TokenTypes : IsSeparator(t)}

BlockStarts ==
    /\ Looks("block_expression")
    /\ \/ /\ NextIs("L_BRACKET")
          /\ Pop
          /\ Continue([Top EXCEPT !.at = "block_expression.loop", !.area = NextArea])
       \/ ~NextIs("L_BRACKET") /\ Rejects

BlockGoesOn ==
    /\ Looks("block_expression.loop")
    /\ \/ NextIs("LAMBDA_ARROW") /\ Pop /\ Call("block.ret", "expression_bp")
       \/ ~NextIs("LAMBDA_ARROW") /\ Keep /\ Call("block.stmt", "statement")

BlockGetsStatement ==
    /\ Gets("block.stmt")
    /\ Keep
    /\ GotoWith(IF Top.kids = 0 THEN "block.single" ELSE "block.separator")

(* ast::Statement holds an ast::Expression. *)
IsExpression(statement) == Root(statement).kind # "LetAssignment"

BlockReturns ==
    Return(Grown(Top.ast, "BlockExpr", Top.kids, Combine(Top.area, NextArea)))

SingleExpression ==
    /\ Looks("block.single") /\ NextIs("R_BRACKET") /\ IsExpression(Top.ast)
    /\ Pop
    /\ BlockReturns

BlockSeparator ==
    /\ \/ Looks("block.separator")
       \/ Looks("block.single") /\ ~(NextIs("R_BRACKET") /\ IsExpression(Top.ast))
    /\ \/ NextIn(Separators) /\ Pop /\ Goto("block_expression.loop")
       \/ ~NextIn(Separators) /\ Rejects

BlockGetsExpression == Gets("block.ret") /\ Keep /\ GotoWith("block.close")

BlockCloses ==
    /\ Looks("block.close")
    /\ \/ NextIs("R_BRACKET") /\ Pop /\ BlockReturns
       \/ ~NextIs("R_BRACKET") /\ Rejects

BlockNext ==
    \/ BlockStarts \/ BlockGoesOn \/ BlockGetsStatement \/ SingleExpression
    \/ BlockSeparator \/ BlockGetsExpression \/ BlockCloses
    \/ Swallows({"block.stmt", "block.ret"})
=============================================================================
