----------------------- MODULE ExpressionPrattParser ------------------------
(***************************************************************************)
(* ExpressionPrattParser: expression() is expression_bp(0), a precedence   *)
(* climbing loop over prefix, infix and postfix operators.                 *)
(***************************************************************************)
EXTENDS ParserCore

(* infix_binding_power: the operators by level, the loosest first.  The    *)
(* left power decides whether a loop takes the operator, the right power   *)
(* is what its right operand's loop takes.                                 *)
InfixLevel(op) ==
    CASE op = "LOGICAL_OR"  -> 1
      [] op = "LOGICAL_AND" -> 3
      [] op = "BITWISE_OR"  -> 5
      [] op = "BITWISE_AND" -> 7
      [] op \in {"EQ", "NEQ"} -> 9
      [] op \in {"LT", "LE", "GT", "GE"} -> 11
      [] op \in {"MINUS", "PLUS"} -> 13
      [] op \in {"ASTERIX", "DIVISION", "PERCENT"} -> 15
      [] op = "DOT" -> 18

LeftPower(op) == InfixLevel(op)
RightAssociative(op) == InfixLevel(op)
RightPower(op) == InfixLevel(op) + 1

(* prefix_binding_power and postfix_binding_power *)
PrefixPower == 17
PostfixPower == 18

EndToken(open) == IF open = "L_BRACKET" THEN "R_BRACKET" ELSE "R_PARANTHESIS"

PrefixNode(op) == [PLUS |-> "UnaryPlus", MINUS |-> "UnaryMinus",
                   LOGICAL_NOT |-> "LogicalNot"][op]

-----------------------------------------------------------------------------
(* lhs() *)

PrefixOperators == {t \in TokenTypes : IsPrefixOperator(t)}

Prefix ==
    /\ Looks("expression_bp") /\ NextIn(PrefixOperators)
    /\ Pop
    /\ CallFrom([Top EXCEPT !.at = "lhs.rhs", !.tok = NextToken, !.area = NextArea],
                "expression_bp", PrefixPower)

PrefixGetsOperand ==
    /\ Gets("lhs.rhs")
    /\ Keep
    /\ Continue([Top EXCEPT
           !.at = "expression_bp.loop",
           !.ast = Grown(ret.ast, PrefixNode(Top.tok), 1,
                         Combine(Top.area, Root(ret.ast).area))])

Simple ==
    /\ Looks("expression_bp") /\ ~NextIn(PrefixOperators)
    /\ Keep
    /\ Call("expression_bp.lhs", "simple_expression")

GetsLhs ==
    /\ Gets("expression_bp.lhs")
    /\ Keep
    /\ Continue([Top EXCEPT !.at = "expression_bp.loop", !.ast = ret.ast])

-----------------------------------------------------------------------------
(* expression_bp()'s loop.  A method's loop has one tree, the left operand. *)

(* The operators of both kinds that bind at least as tightly as min_bp *)
Binds(op) ==
    \/ IsPostfixOperator(op) /\ PostfixPower >= Top.bp
    \/ IsInfixOperator(op) /\ LeftPower(op) >= Top.bp

ExpressionEnds ==
    /\ Looks("expression_bp.loop")
    /\ ~NextIs("LOGICAL_NOT") /\ ~(Peeked /\ Binds(NextToken))
    /\ Keep
    /\ Return(Top.ast)

(* LOGICAL_NOT is an operator, but neither infix nor postfix. *)
NotAnInfix ==
    /\ Looks("expression_bp.loop") /\ NextIs("LOGICAL_NOT")
    /\ Keep
    /\ ReturnError(Internal)

Infix ==
    /\ Looks("expression_bp.loop") /\ Peeked
    /\ IsInfixOperator(NextToken) /\ Binds(NextToken)
    /\ Pop
    /\ CallFrom([Top EXCEPT !.at = "expression_bp.rhs", !.tok = NextToken],
                "expression_bp", RightPower(NextToken))

InfixGetsOperand ==
    /\ Gets("expression_bp.rhs")
    /\ Keep
    /\ Continue([Top EXCEPT
           !.at = "expression_bp.loop",
           !.ast = Grown(@ \o ret.ast, Top.tok, 2,
                         Combine(Root(@).area, Root(ret.ast).area))])

FunctionCall ==
    /\ Looks("expression_bp.loop") /\ Peeked
    /\ IsPostfixOperator(NextToken) /\ Binds(NextToken)
    /\ Pop
    /\ Continue([Top EXCEPT !.at = "function_params", !.kids = 1, !.tok = NextToken,
                            !.area = Root(Top.ast).area])

(* function_params(): also what follows the last parameter, a comma or not *)
CallEnds ==
    /\ Looks("function_params") \/ Looks("function_params.sep")
    /\ NextIs(EndToken(Top.tok))
    /\ Pop
    /\ Continue([Top EXCEPT
           !.at = "expression_bp.loop",
           !.ast = Grown(@, "FunctionCall", Top.kids, Combine(Top.area, NextArea))])

Param ==
    /\ Looks("function_params") /\ ~NextIs(EndToken(Top.tok))
    /\ Keep
    /\ Call("function_params.param", "expression_bp")

GetsParam == Gets("function_params.param") /\ Keep /\ GotoWith("function_params.sep")

NextParam ==
    /\ Looks("function_params.sep") /\ NextIs("COMMA")
    /\ Pop
    /\ Goto("function_params")

NotAParam ==
    /\ Looks("function_params.sep") /\ ~NextIn({"COMMA", EndToken(Top.tok)})
    /\ PopsBadToken

PrattPropagates ==
    Propagates({"lhs.rhs", "expression_bp.lhs", "expression_bp.rhs",
                "function_params.param"})

ExpressionNext ==
    \/ Prefix \/ PrefixGetsOperand \/ Simple \/ GetsLhs
    \/ ExpressionEnds \/ NotAnInfix \/ Infix \/ InfixGetsOperand
    \/ FunctionCall \/ CallEnds \/ Param \/ GetsParam \/ NextParam \/ NotAParam
    \/ PrattPropagates
=============================================================================
