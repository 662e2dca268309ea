------------------------- MODULE IfExpressionParser -------------------------
(***************************************************************************)
(* IfExpressionParser: if_expression() and elif_expression(), which is the *)
(* same up to the end of its body.  Whatever fails, they give up without   *)
(* an error and without giving tokens back.                                *)
(***************************************************************************)
EXTENDS ParserCore

Keyword(method) == IF method = "if_expression" THEN "IF" ELSE "ELIF"

IfStarts ==
    \E method \in {"if_expression", "elif_expression"} :
        /\ Looks(method) /\ NextIs(Keyword(method))
        /\ Pop
        /\ Continue([Top EXCEPT !.at = "if.open", !.tok = NextToken, !.area = NextArea])

NoIf == Looks("if_expression") /\ ~NextIs("IF") /\ Rejects

IfOpens ==
    /\ Looks("if.open")
    /\ \/ NextIs("L_PARANTHESIS") /\ Pop /\ Call("if.condition", "expression_bp")
       \/ ~NextIs("L_PARANTHESIS") /\ Rejects

IfGetsCondition == Gets("if.condition") /\ Keep /\ GotoWith("if.close")

IfCloses ==
    /\ Looks("if.close")
    /\ \/ NextIs("R_PARANTHESIS") /\ Pop /\ Call("if.then", "expression_bp")
       \/ ~NextIs("R_PARANTHESIS") /\ Rejects

IfGetsBody ==
    /\ Gets("if.then")
    /\ Keep
    /\ IF Top.tok = "IF"
       THEN GotoWith("if.else")
       ELSE Return(Grown(Top.ast \o ret.ast, "ElifExpr", 2,
                         Combine(Top.area, Root(ret.ast).area)))

IfGoesOnWithoutElif ==
    /\ Looks("if.else")
    /\ \/ NextIs("ELSE") /\ Pop /\ Call("if.last", "expression_bp")
       \/ ~NextIs("ELSE") /\ Rejects

(* The elifs, and an else that must be there *)
IfGoesOn ==
    /\ Looks("if.else")
    /\ \/ NextIs("ELIF") /\ Keep /\ Call("if.elif", "elif_expression")
       \/ NextIs("ELSE") /\ Pop /\ Call("if.last", "expression_bp")
       \/ ~NextIn({"ELIF", "ELSE"}) /\ Rejects

IfGetsElif == Gets("if.elif") /\ Keep /\ GotoWith("if.else")

IfReturns ==
    /\ Gets("if.last")
    /\ Keep
    /\ Return(Grown(Top.ast \o ret.ast, "IfExpr", Top.kids + 1,
                    Combine(Top.area, Root(ret.ast).area)))

IfNext ==
    \/ IfStarts \/ NoIf \/ IfOpens \/ IfGetsCondition \/ IfCloses
    \/ IfGetsBody \/ IfGoesOn \/ IfGetsElif \/ IfReturns
    \/ Swallows({"if.condition", "if.then", "if.elif", "if.last"})
=============================================================================
