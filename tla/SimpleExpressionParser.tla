----------------------- MODULE SimpleExpressionParser -----------------------
(***************************************************************************)
(* SimpleExpressionParser: what an expression can begin with.  The methods *)
(* for literals come first; then four others are tried in turn, each at    *)
(* the token the one before it left off.                                   *)
(***************************************************************************)
EXTENDS ParserCore

Literals == {"INTEGER", "DOUBLE", "TRUE", "FALSE", "SELF_VALUE", "STANDARD_STRING"}

(* integer(), duoble(), boolean(), self_value() and string(): the literal's *)
(* node is named after its token.                                           *)
Literal ==
    /\ Looks("simple_expression") /\ NextIn(Literals)
    /\ Pop
    /\ Return(Leaf(NextToken, NextArea))

Alternatives ==
    <<"identifier_or_simple_lambda", "if_expression", "block_expression",
      "l_par_expression">>

FirstAlternative ==
    /\ Looks("simple_expression") /\ ~NextIn(Literals)
    /\ Keep
    /\ CallFrom([Top EXCEPT !.at = "simple_expression.tried", !.kids = 1],
                Alternatives[1], 0)

AlternativeSucceeds ==
    /\ Gets("simple_expression.tried")
    /\ Keep
    /\ Return(ret.ast)

SameAlternative ==
    /\ Fails("simple_expression.tried") /\ Top.kids < Len(Alternatives)
    /\ Retry
    /\ CallFrom(Top, Alternatives[Top.kids], 0)

NextAlternative ==
    /\ Fails("simple_expression.tried") /\ Top.kids < Len(Alternatives)
    /\ Retry
    /\ CallFrom([Top EXCEPT !.kids = @ + 1], Alternatives[Top.kids + 1], 0)

LastAlternativeFails ==
    /\ Fails("simple_expression.tried") /\ Top.kids = Len(Alternatives)
    /\ Retry
    /\ Goto("simple_expression.failed")

NoSimpleExpressionFromStart ==
    /\ Looks("simple_expression.failed")
    /\ Keep
    /\ ReturnError([Unexpected EXCEPT !.at = Top.start + 1])

(* The error names the token the last alternative left off at. *)
NoSimpleExpression ==
    /\ Looks("simple_expression.failed")
    /\ Keep
    /\ ReturnError(Unexpected)

-----------------------------------------------------------------------------
(* SimpleLambdaOrIdentifierParser *)

IdentifierOrLambda ==
    /\ Looks("identifier_or_simple_lambda")
    /\ \/ /\ NextIs("IDENTIFIER")
          /\ Pop
          /\ Continue([Top EXCEPT !.at = "simple_lambda",
                                  !.ast = Leaf("Identifier", NextArea)])
       \/ ~NextIs("IDENTIFIER") /\ Rejects

(* A lambda parameter's type annotation needs parentheses. *)
TypedIdentifier ==
    Looks("simple_lambda") /\ NextIs("COLON") /\ Rejects

SimpleLambda ==
    /\ Looks("simple_lambda") /\ NextIs("LAMBDA_ARROW")
    /\ Pop
    /\ Call("simple_lambda.body", "expression_bp")

IdentifierBeforeArrow ==
    /\ Looks("simple_lambda") /\ ~NextIs("COLON")
    /\ Keep
    /\ Return(Top.ast)

JustIdentifier ==
    /\ Looks("simple_lambda") /\ ~NextIn({"COLON", "LAMBDA_ARROW"})
    /\ Keep
    /\ Return(Top.ast)

SimpleLambdaReturns ==
    /\ Gets("simple_lambda.body")
    /\ Keep
    /\ Return(Grown(AsParameters(Top.ast) \o ret.ast, "LambdaExpr", 2,
                    Combine(Root(Top.ast).area, Root(ret.ast).area)))

-----------------------------------------------------------------------------
SimpleExpressionNext ==
    \/ Literal \/ FirstAlternative \/ AlternativeSucceeds \/ NextAlternative
    \/ LastAlternativeFails \/ NoSimpleExpression
    \/ IdentifierOrLambda \/ TypedIdentifier \/ SimpleLambda \/ JustIdentifier
    \/ SimpleLambdaReturns
    \/ Swallows({"simple_lambda.body"})
=============================================================================
