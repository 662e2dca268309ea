------------------------ MODULE LParExpressionParser ------------------------
(***************************************************************************)
(* LParExpressionParser: what starts with a parenthesis, a grouped         *)
(* expression, a tuple or a lambda expression.  Which one it is shows only *)
(* behind the closing parenthesis.                                         *)
(***************************************************************************)
EXTENDS ParserCore

LParStartsUnread ==
    /\ Looks("l_par_expression")
    /\ \/ /\ NextIs("L_PARANTHESIS")
          /\ Keep
          /\ CallFrom([Top EXCEPT !.at = "lpar.first", !.area = NextArea],
                      "expression_bp", 0)
       \/ ~NextIs("L_PARANTHESIS") /\ Rejects

LParStarts ==
    /\ Looks("l_par_expression")
    /\ \/ /\ NextIs("L_PARANTHESIS")
          /\ Pop
          /\ CallFrom([Top EXCEPT !.at = "lpar.first", !.area = NextArea],
                      "expression_bp", 0)
       \/ ~NextIs("L_PARANTHESIS") /\ Rejects

LParGetsFirst == Gets("lpar.first") /\ Keep /\ GotoWith("lpar.next")

LParGrouped ==
    /\ Looks("lpar.next") /\ NextIs("R_PARANTHESIS")
    /\ Pop
    /\ Goto("try_lambda")

LParList ==
    /\ Looks("lpar.next") /\ NextIs("COMMA")
    /\ Keep
    /\ Goto("tuple")

LParNeither ==
    /\ Looks("lpar.next") /\ ~NextIn({"R_PARANTHESIS", "COMMA"})
    /\ Rejects

-----------------------------------------------------------------------------
(* tuple_or_lambda_params() *)

TupleGoesOn ==
    /\ Looks("tuple") /\ NextIs("COMMA")
    /\ Pop
    /\ Call("tuple.elem", "expression_bp")

TupleGetsElement == Gets("tuple.elem") /\ Keep /\ GotoWith("tuple")

TupleIsParameters ==
    /\ Looks("tuple") /\ NextIs("COLON")
    /\ Pop
    /\ Call("params.type", "type")

TupleEnds ==
    /\ Looks("tuple") /\ NextIs("R_PARANTHESIS")
    /\ Pop
    /\ Continue([Top EXCEPT
           !.at = "try_lambda",
           !.ast = Grown(@, "TupleExpr", Top.kids, Combine(Top.area, NextArea))])

TupleBreaksOff ==
    /\ Looks("tuple") /\ ~NextIn({"COMMA", "COLON", "R_PARANTHESIS"})
    /\ Rejects

-----------------------------------------------------------------------------
(* try_lambda(), of an expression or a tuple of them *)

(* The expressions that become parameters: the elements of the tuple read  *)
(* here, or the one expression in parentheses, be it a tuple or not.       *)
Elements == IF Top.kids > 1 THEN SubSeq(Top.ast, 1, Len(Top.ast) - 1) ELSE Top.ast

(* exprs_to_parameters *)
AllIdentifiers(trees) == \A i \in DOMAIN trees : trees[i].kind = "Identifier"

NotALambda ==
    /\ Looks("try_lambda") /\ ~NextIs("LAMBDA_ARROW")
    /\ Keep
    /\ Return(Top.ast)

TryLambda ==
    /\ Looks("try_lambda") /\ NextIs("LAMBDA_ARROW")
    /\ Pop
    /\ Call("try_lambda.body", "expression_bp")

(* The parameters are only looked at when the body was parsed. *)
TryLambdaReturns ==
    /\ Gets("try_lambda.body")
    /\ LET params == Elements IN
       \/ /\ AllIdentifiers(params)
          /\ Keep
          /\ Return(Grown(AsParameters(params) \o ret.ast, "LambdaExpr", Len(params) + 1,
                          Combine(Top.area, Root(ret.ast).area)))
       \/ ~AllIdentifiers(params) /\ Rejects

-----------------------------------------------------------------------------
(* lambda_parameters_from_starting_tuple(), then the try_lambda() for      *)
(* parameters.  setType leaves the area of the parameter as it was.        *)
ParamsGetType ==
    /\ Gets("params.type")
    /\ \/ /\ AllIdentifiers(Top.ast)
          /\ Keep
          /\ LET params == AsParameters(Top.ast)
                 last == Root(params)
             IN  Continue([Top EXCEPT
                     !.at = "params",
                     !.ast = SubSeq(params, 1, Len(params) - 1)
                                 \o Grown(ret.ast, last.kind, 1, last.area)])
       \/ ~AllIdentifiers(Top.ast) /\ Rejects

ParamsGoOn ==
    /\ Looks("params") /\ NextIs("COMMA")
    /\ Pop
    /\ Goto("lambda_parameter")

ParamsEnd ==
    /\ Looks("params")
    /\ \/ NextIs("R_PARANTHESIS") /\ Pop /\ Goto("params.arrow")
       \/ ~NextIn({"COMMA", "R_PARANTHESIS"}) /\ Rejects

ParamStartsUncounted ==
    /\ Looks("lambda_parameter")
    /\ \/ /\ NextIs("IDENTIFIER")
          /\ Pop
          /\ Continue([Top EXCEPT !.at = "lambda_parameter.colon",
                                  !.ast = @ \o Leaf("LambdaParameter", NextArea)])
       \/ ~NextIs("IDENTIFIER") /\ Rejects

(* lambda_parameter() *)
ParamStarts ==
    /\ Looks("lambda_parameter")
    /\ \/ /\ NextIs("IDENTIFIER")
          /\ Pop
          /\ Continue([Top EXCEPT !.at = "lambda_parameter.colon", !.kids = @ + 1,
                                  !.ast = @ \o Leaf("LambdaParameter", NextArea)])
       \/ ~NextIs("IDENTIFIER") /\ Rejects

ParamColon ==
    /\ Looks("lambda_parameter.colon")
    /\ \/ NextIs("COLON") /\ Pop /\ Call("lambda_parameter.type", "type")
       \/ ~NextIs("COLON") /\ Keep /\ Goto("params")

ParamGetsType ==
    /\ Gets("lambda_parameter.type")
    /\ Keep
    /\ Continue([Top EXCEPT
           !.at = "params",
           !.ast = SubSeq(@, 1, Len(@) - 1)
                       \o Grown(ret.ast, "LambdaParameter", 1,
                                Combine(Root(@).area, Root(ret.ast).area))])

ParamsArrow ==
    /\ Looks("params.arrow")
    /\ \/ NextIs("LAMBDA_ARROW") /\ Pop /\ Call("params.body", "expression_bp")
       \/ ~NextIs("LAMBDA_ARROW") /\ Rejects

ParamsReturn ==
    /\ Gets("params.body")
    /\ Keep
    /\ Return(Grown(Top.ast \o ret.ast, "LambdaExpr", Top.kids + 1,
                    Combine(Top.area, Root(ret.ast).area)))

-----------------------------------------------------------------------------
UntypedNext ==
    \/ LParStarts \/ LParGetsFirst \/ LParGrouped \/ LParList \/ LParNeither
    \/ TupleGoesOn \/ TupleGetsElement \/ TupleEnds \/ TupleBreaksOff
    \/ NotALambda \/ TryLambda \/ TryLambdaReturns
    \/ Swallows({"lpar.first", "tuple.elem", "try_lambda.body"})

TypedNext ==
    \/ TupleIsParameters \/ ParamsGetType \/ ParamsGoOn \/ ParamsEnd
    \/ ParamStarts \/ ParamColon \/ ParamGetsType \/ ParamsArrow \/ ParamsReturn
    \/ Swallows({"params.type", "lambda_parameter.type", "params.body"})

LParNext == UntypedNext \/ TypedNext
=============================================================================
