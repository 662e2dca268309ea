------------------------------ MODULE MCParser ------------------------------
(***************************************************************************)
(* Clients that call one public method of a Parser.                        *)
(***************************************************************************)
EXTENDS Parser

(* The sources to try: the i-th token of a source is of a type in the i-th *)
(* set of one of the shapes.                                               *)
CONSTANT Shapes

Fits(tokens, shape) ==
    \A i \in DOMAIN tokens :
        \/ tokens[i] = "END_OF_FILE"
        \/ i \in DOMAIN shape /\ tokens[i] \in shape[i]

(* These tokens, and n more of the given types *)
Shape(tokens, n, types) ==
    [i \in 1 .. Len(tokens) + n |-> IF i <= Len(tokens) THEN {tokens[i]} ELSE types]

(* Every operator between, before and behind names; and a few operators    *)
(* with literals and everything else that makes up an expression.          *)
Operators == {t \in Alphabet : IsInfixOperator(t) \/ IsPrefixOperator(t)}
OperatorShapes ==
    {Shape(<<>>, 5, Operators \cup {"IDENTIFIER"}),
     Shape(<<>>, 5,
           {"IDENTIFIER", "INTEGER", "L_PARANTHESIS", "R_PARANTHESIS", "COMMA",
            "LAMBDA_ARROW", "PLUS", "ASTERIX", "DOT"})}

(* What keywords, braces and parentheses make of names *)
CompoundShapes ==
    {Shape(<<"IF", "L_PARANTHESIS", "IDENTIFIER", "R_PARANTHESIS", "IDENTIFIER">>, 7,
           {"IDENTIFIER", "IF", "ELSE", "ELIF", "L_PARANTHESIS", "R_PARANTHESIS"}),
     Shape(<<>>, 8,
           {"IDENTIFIER", "L_BRACKET", "R_BRACKET", "LAMBDA_ARROW", "SEMICOLON",
            "LET", "ASSIGN"}),
     Shape(<<"L_PARANTHESIS">>, 8,
           {"IDENTIFIER", "L_PARANTHESIS", "R_PARANTHESIS", "COMMA", "LAMBDA_ARROW"})}

ExpressionShapes == OperatorShapes \cup CompoundShapes

(* what let(), statement() and for_element() are called at                 *)
DirectOpenings ==
    {<<>>, <<"LET", "IDENTIFIER">>, <<"LET", "IDENTIFIER", "COLON">>, <<"FOR">>,
     <<"IDENTIFIER", "L_ARROW">>}

(* a let with a type; loops with a block behind them, or about to have one; *)
(* the one way to a parameter with a type                                  *)
StatementOpenings ==
    {<<"L_BRACKET", "LET", "IDENTIFIER", "COLON">>,
     <<"L_BRACKET", "LET", "IDENTIFIER", "SEMICOLON">>,
     <<"L_BRACKET", "WHILE">>, <<"L_BRACKET", "IF">>,
     <<"L_BRACKET", "FOR", "L_PARANTHESIS", "IDENTIFIER">>,
     <<"L_BRACKET", "FOR", "L_BRACKET", "L_BRACKET", "L_BRACKET", "IDENTIFIER">>,
     <<"L_PARANTHESIS", "IDENTIFIER", "COMMA", "INTEGER", "COLON">>,
     <<"L_PARANTHESIS", "IDENTIFIER", "COMMA", "L_PARANTHESIS", "IDENTIFIER",
       "R_PARANTHESIS", "COLON", "IDENTIFIER", "COMMA", "IDENTIFIER">>,
     <<"L_PARANTHESIS", "IDENTIFIER", "COMMA", "L_PARANTHESIS", "IDENTIFIER",
       "R_PARANTHESIS", "COLON", "IDENTIFIER", "COMMA", "IDENTIFIER", "COLON",
       "IDENTIFIER", "R_PARANTHESIS">>,
     <<"L_PARANTHESIS", "IDENTIFIER", "COMMA", "L_PARANTHESIS", "IDENTIFIER",
       "R_PARANTHESIS", "COLON", "IDENTIFIER", "R_PARANTHESIS">>}
StatementShapes ==
    {Shape(o, 4, Alphabet) : o \in StatementOpenings}
        \cup {Shape(o, 3, Alphabet) : o \in DirectOpenings}

(* (a, b : T) => c; what starts with { for; what starts with if *)
TypedShapes ==
    {Shape(<<"L_PARANTHESIS", "IDENTIFIER", "COMMA", "IDENTIFIER", "COLON", "IDENTIFIER",
             "R_PARANTHESIS", "LAMBDA_ARROW", "IDENTIFIER">>, 0, {})}
NoTokenShapes == {Shape(<<"L_BRACKET", "FOR">>, 5, Alphabet)}
DroppedShapes == {Shape(<<"IF">>, 5, Alphabet)}

(* Parser's steps, on the sources of the shapes *)
ShapedNext ==
    \/ LexNext /\ \E shape \in Shapes : Fits(read', shape)
    \/ ParserNext

FairSpec == Init /\ [][ShapedNext]_vars /\ WF_vars(ShapedNext)

-----------------------------------------------------------------------------
Accepted == stack = <<>> /\ ret.tag = "value"
Rejected == stack = <<>> /\ ret.tag = "error"

-----------------------------------------------------------------------------
(* What comments say and the code does not do *)

(* A parameter list with a type in it, (a, b : T) => c, is not rejected    *)
(* (LParExpressionParser.hpp:186: "when in any case there is a "id : type" *)
(* pattern in the parsing then it musst be a lambda parameter list").      *)
AcceptsTypedParameters ==
    Rejected => ~ \E shape \in TypedShapes : Fits(read, shape) /\ ~AtEnd

(* A source that starts with if and is accepted is an if expression: where *)
(* the parenthesis is missing there is an error (IfExpressionParser.hpp:26 *)
(* "return error "expected ("").                                           *)
IfIsAnIf ==
    Accepted /\ read[1] = "IF" => \E i \in DOMAIN ret.ast : ret.ast[i].kind = "IfExpr"

(* A statement list returns when the lexer has no token for it             *)
(* (StatementParser.hpp:67: "return expected a token from the lexer, got   *)
(* none").                                                                 *)
StatementListReturnsWithoutToken == undefined => Top.at # "stmt_list"

-----------------------------------------------------------------------------
(* Every call comes back: no sequence of tokens keeps the parser busy.     *)
Terminates == <>Done
=============================================================================
