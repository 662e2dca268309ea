-------------------------- MODULE StatementParser ---------------------------
(***************************************************************************)
(* StatmentParser, LetStmtParser and ForElementParser.                     *)
(*                                                                         *)
(* stmt_list() loops until it fails, so block() fails whenever it is       *)
(* called and with it while, if and for: what the methods do with a block  *)
(* they got (StatementParser.hpp 94-105, 130-136, 183-212, 217-240 and     *)
(* 261-294) is never reached and has no step here.                         *)
(***************************************************************************)
EXTENDS ParserCore

(* statement() *)

StatementIsLet ==
    Looks("statement") /\ NextIs("LET") /\ Keep /\ Call("statement.let", "let")

(* wile() and ifStmt() up to the block *)
StatementIsLoop ==
    /\ Looks("statement") /\ NextIn({"WHILE", "IF"})
    /\ Pop
    /\ Call("statement.condition", "expression_bp")

StatementGetsCondition ==
    Gets("statement.condition") /\ Keep /\ Call("statement.body", "block")

StatementIsFor ==
    /\ Looks("statement") /\ NextIs("FOR")
    /\ Pop
    /\ Goto("for")

StatementIsExpression ==
    /\ Looks("statement") /\ ~NextIn({"LET", "WHILE", "IF", "FOR"})
    /\ Keep
    /\ Call("statement.expression", "expression_bp")

StatementReturns ==
    /\ Gets("statement.let") \/ Gets("statement.expression")
    /\ Keep
    /\ Return(ret.ast)

-----------------------------------------------------------------------------
(* forStmt(): the parenthesis that opens the elements is also the one that *)
(* ends them.                                                              *)

Opening == {"L_BRACKET", "L_PARANTHESIS"}

ForOpens ==
    /\ Looks("for")
    /\ \/ /\ NextIn(Opening)
          /\ Pop
          /\ Continue([Top EXCEPT !.at = "for.elems", !.tok = NextToken])
       \/ ~NextIn(Opening) /\ Rejects

ForElements ==
    /\ Looks("for.elems") /\ ~NextIn(Opening)
    /\ Keep
    /\ Call("for.elem", "for_element")

ForGetsElement == Gets("for.elem") /\ Keep /\ GotoWith("for.elems")

ForCloses ==
    /\ Looks("for.elems") /\ NextIn(Opening)
    /\ \/ NextIs(Top.tok) /\ Pop /\ Call("statement.body", "block")
       \/ ~NextIs(Top.tok) /\ Rejects

(* ForElementParser: for_element() and the two kinds of it *)
ForElement ==
    /\ Looks("for_element")
    /\ \/ /\ NextIs("IDENTIFIER")
          /\ Pop
          /\ Continue([Top EXCEPT !.at = "for_element.which", !.area = NextArea])
       \/ ~NextIs("IDENTIFIER") /\ Rejects

ForElementWhich ==
    /\ Looks("for_element.which")
    /\ \/ /\ NextIn({"L_ARROW", "ASSIGN"})
          /\ Pop
          /\ CallFrom([Top EXCEPT !.at = "for_element.rhs", !.tok = NextToken],
                      "expression_bp", 0)
       \/ ~NextIn({"L_ARROW", "ASSIGN"}) /\ Rejects

ForElementReturns ==
    /\ Gets("for_element.rhs")
    /\ Keep
    /\ Return(Grown(ret.ast,
                    IF Top.tok = "ASSIGN" THEN "ForLetElement" ELSE "ForMonadicElement",
                    1, Combine(Top.area, Root(ret.ast).area)))

-----------------------------------------------------------------------------
(* block() and stmt_list() *)

BlockOpens ==
    /\ Looks("block")
    /\ \/ NextIs("L_BRACKET") /\ Pop /\ Call("stmt_list.stmt", "statement")
       \/ ~NextIs("L_BRACKET") /\ Rejects

ListGetsStatement == Gets("stmt_list.stmt") /\ Keep /\ GotoWith("stmt_list")

ListSeparator ==
    /\ Looks("stmt_list")
    /\ \/ PopNothing
       \/ /\ Peeked /\ IsSeparator(NextToken)
          /\ Pop
          /\ Call("stmt_list.stmt", "statement")
       \/ /\ Peeked /\ ~IsSeparator(NextToken)
          /\ Pop
          /\ ReturnError(NullOpt)

-----------------------------------------------------------------------------
(* LetStmtParser: let() *)

Let ==
    /\ Looks("let")
    /\ \/ /\ NextIs("LET")
          /\ Pop
          /\ Continue([Top EXCEPT !.at = "let.identifier", !.area = NextArea])
       \/ ~NextIs("LET") /\ Keep /\ ReturnError(Unexpected)

LetIdentifier ==
    /\ Looks("let.identifier")
    /\ \/ NextIs("IDENTIFIER") /\ Pop /\ Goto("let.colon")
       \/ ~NextIs("IDENTIFIER") /\ Keep /\ ReturnError(Unexpected)

LetColon ==
    /\ Looks("let.colon")
    /\ \/ NextIs("COLON") /\ Pop /\ Call("let.type", "type")
       \/ ~NextIs("COLON") /\ Keep /\ Goto("let.assign")

LetGetsType == Gets("let.type") /\ Keep /\ GotoWith("let.assign")

(* The error is made of the let token, which started the statement.        *)
LetAssign ==
    /\ Looks("let.assign")
    /\ \/ NextIs("ASSIGN") /\ Pop /\ Call("let.rhs", "expression_bp")
       \/ PopNothing
       \/ /\ Peeked /\ ~NextIs("ASSIGN")
          /\ Pop
          /\ ReturnError([what |-> "UnexpectedToken", at |-> Top.start + 1])

LetReturnsAreaOfRhs ==
    /\ Gets("let.rhs")
    /\ Keep
    /\ Return(Grown(Top.ast \o ret.ast, "LetAssignment", Top.kids + 1,
                    Root(ret.ast).area))

LetReturns ==
    /\ Gets("let.rhs")
    /\ Keep
    /\ Return(Grown(Top.ast \o ret.ast, "LetAssignment", Top.kids + 1,
                    Combine(Top.area, Root(ret.ast).area)))

LetPropagates == Propagates({"let.type", "let.rhs"})

-----------------------------------------------------------------------------
LetNext ==
    \/ Let \/ LetIdentifier \/ LetColon \/ LetGetsType \/ LetAssign
    \/ LetReturns \/ LetPropagates

StatementNext ==
    \/ StatementIsLet \/ StatementIsLoop \/ StatementGetsCondition
    \/ StatementIsFor \/ StatementIsExpression \/ StatementReturns
    \/ ForOpens \/ ForElements \/ ForGetsElement \/ ForCloses
    \/ ForElement \/ ForElementWhich \/ ForElementReturns
    \/ BlockOpens \/ ListGetsStatement \/ ListSeparator
    \/ LetNext
    \/ Swallows({"statement.let", "statement.condition", "statement.body",
                 "statement.expression", "for.elem", "for_element.rhs",
                 "stmt_list.stmt"})
=============================================================================
