----------------------------- MODULE TypeParser -----------------------------
(***************************************************************************)
(* TypeParser: type(), its private methods; and IdentifierParser's         *)
(* identifier(), which the methods that call it have as a step of theirs.  *)
(***************************************************************************)
EXTENDS ParserCore

(* type() *)

StartCompound ==
    /\ Looks("type") /\ NextIs("L_PARANTHESIS")
    /\ Keep
    /\ Call("type.started", "compound_type")

StartSelf ==
    /\ Looks("type") /\ NextIs("SELF_TYPE")
    /\ Pop
    /\ Continue([Top EXCEPT !.at = "type.suffix", !.kids = 1,
                            !.ast = Leaf("SelfType", NextArea)])

StartNamed ==
    /\ Looks("type") /\ ~NextIn({"L_PARANTHESIS", "SELF_TYPE"})
    /\ Keep
    /\ Call("type.started", "named_type")

Started == Gets("type.started") /\ Keep /\ GotoWith("type.suffix")

StartFailedStartsOver == Fails("type.started") /\ Keep /\ Goto("type")

(* Whatever went wrong, type() pops one more token and reports that one.   *)
StartFailed == Fails("type.started") /\ Keep /\ Goto("type.failed")

TypeFails == Looks("type.failed") /\ PopsBadToken

(* The private type(already_parsed): a loop, written as a tail call.       *)
Optional ==
    /\ Looks("type.suffix") /\ NextIs("QUESTIONMARK")
    /\ Pop
    /\ Continue([Top EXCEPT
           !.ast = Grown(@, "OptionalType", 1, Combine(Root(@).area, NextArea))])

Arrow ==
    /\ Looks("type.suffix") /\ NextIs("LAMBDA_ARROW")
    /\ Pop
    /\ Call("type.arrow", "type")

ArrowGetsType ==
    /\ Gets("type.arrow")
    /\ Keep
    /\ Continue([Top EXCEPT
           !.at = "type.suffix",
           !.ast = Grown(@ \o ret.ast, "LambdaType", 2,
                         Combine(Root(@).area, Root(ret.ast).area))])

TypeReturnsBeforeQuestionmark ==
    /\ Looks("type.suffix") /\ ~NextIs("LAMBDA_ARROW")
    /\ Keep
    /\ Return(Top.ast)

TypeReturns ==
    /\ Looks("type.suffix") /\ ~NextIn({"QUESTIONMARK", "LAMBDA_ARROW"})
    /\ Keep
    /\ Return(Top.ast)

-----------------------------------------------------------------------------
(* identifier(), of a client that calls it itself *)
Identifier ==
    /\ Looks("identifier")
    /\ \/ NextIs("IDENTIFIER") /\ Pop /\ Return(Leaf("Identifier", NextArea))
       \/ ~NextIs("IDENTIFIER") /\ Keep /\ ReturnError(Unexpected)

(* named_type(): identifiers separated by :: *)

NamePartPopsAnything ==
    /\ Looks("named_type")
    /\ \/ /\ NextIs("IDENTIFIER")
          /\ Pop
          /\ Continue([Top EXCEPT !.at = "named_type.next", !.kids = @ + 1,
                                  !.ast = @ \o Leaf("Identifier", NextArea)])
       \/ ~NextIs("IDENTIFIER") /\ PopsBadToken

NamePart ==
    /\ Looks("named_type")
    /\ \/ /\ NextIs("IDENTIFIER")
          /\ Pop
          /\ Continue([Top EXCEPT !.at = "named_type.next", !.kids = @ + 1,
                                  !.ast = @ \o Leaf("Identifier", NextArea)])
       \/ ~NextIs("IDENTIFIER") /\ Keep /\ ReturnError(Unexpected)

NameGoesOn ==
    /\ Looks("named_type.next") /\ NextIs("COLON_COLON")
    /\ Pop
    /\ Goto("named_type")

NameReturns ==
    /\ Looks("named_type.next") /\ ~NextIs("COLON_COLON")
    /\ Keep
    /\ Return(Grown(Top.ast, "NamedType", Top.kids,
                    Combine(Top.ast[1].area, Root(Top.ast).area)))

-----------------------------------------------------------------------------
(* compound_type(): what starts with a parenthesis *)

Parenthesis ==
    /\ Looks("compound_type") /\ NextIs("L_PARANTHESIS")
    /\ Pop
    /\ CallFrom([Top EXCEPT !.at = "compound_type.first", !.area = NextArea], "type", 0)

FirstOfCompound ==
    Gets("compound_type.first") /\ Keep /\ GotoWith("compound_type.which")

(* grouped_type(): the type itself, its area widened to the parentheses    *)
AreaInside(area) == Root(Top.ast).area
GroupedArea(area) == area
Grouped ==
    /\ Looks("compound_type.which") /\ NextIs("R_PARANTHESIS")
    /\ Pop
    /\ Return([Top.ast EXCEPT
                   ![Len(Top.ast)].area = GroupedArea(Combine(Top.area, NextArea))])

(* tuple_type(), union_type() and lambda_type_with_multiple() are one loop *)
(* over the separator that chose them.                                     *)
List ==
    /\ Looks("compound_type.which")
    /\ NextIn({"BITWISE_AND", "BITWISE_OR", "COMMA"})
    /\ Keep
    /\ Continue([Top EXCEPT !.at = "type_list", !.tok = NextToken])

NotCompound ==
    /\ Looks("compound_type.which")
    /\ ~NextIn({"R_PARANTHESIS", "BITWISE_AND", "BITWISE_OR", "COMMA"})
    /\ PopsBadToken

ListGoesOn ==
    /\ Looks("type_list") /\ NextIs(Top.tok)
    /\ Pop
    /\ Call("type_list.elem", "type")

ListGetsType == Gets("type_list.elem") /\ Keep /\ GotoWith("type_list")

ListEnds ==
    /\ Looks("type_list") /\ NextIs("R_PARANTHESIS")
    /\ Pop
    /\ IF Top.tok = "COMMA"
       THEN Goto("lambda_type.arrow")
       ELSE Return(Grown(Top.ast,
                         IF Top.tok = "BITWISE_AND" THEN "TupleType" ELSE "UnionType",
                         Top.kids, Combine(Top.area, NextArea)))

ListFails ==
    /\ Looks("type_list") /\ ~NextIn({Top.tok, "R_PARANTHESIS"})
    /\ PopsBadToken

LambdaArrowIsThin ==
    /\ Looks("lambda_type.arrow")
    /\ \/ NextIs("R_ARROW") /\ Pop /\ Call("lambda_type.ret", "type")
       \/ ~NextIs("R_ARROW") /\ PopsBadToken

LambdaArrow ==
    /\ Looks("lambda_type.arrow")
    /\ \/ NextIs("LAMBDA_ARROW") /\ Pop /\ Call("lambda_type.ret", "type")
       \/ ~NextIs("LAMBDA_ARROW") /\ PopsBadToken

LambdaReturns ==
    /\ Gets("lambda_type.ret")
    /\ Keep
    /\ Return(Grown(Top.ast \o ret.ast, "LambdaType", Top.kids + 1,
                    Combine(Top.area, Root(ret.ast).area)))

-----------------------------------------------------------------------------
TypePropagates ==
    Propagates({"type.arrow", "compound_type.first", "type_list.elem",
                "lambda_type.ret"})

TypeNext ==
    \/ StartCompound \/ StartSelf \/ StartNamed \/ Started \/ StartFailed
    \/ TypeFails \/ Optional \/ Arrow \/ ArrowGetsType \/ TypeReturns
    \/ Identifier \/ NamePart \/ NameGoesOn \/ NameReturns
    \/ Parenthesis \/ FirstOfCompound \/ Grouped \/ List \/ NotCompound
    \/ ListGoesOn \/ ListGetsType \/ ListEnds \/ ListFails
    \/ LambdaArrow \/ LambdaReturns
    \/ TypePropagates
=============================================================================
