------------------------- MODULE ExpressionGrammar --------------------------
(***************************************************************************)
(* The expressions of neo with their trees: the "expression" part of       *)
(* docs/grammar.ebnf as far as the parser has it (calls, tuples, lambdas   *)
(* without types, if with a parenthesised condition and an else, blocks    *)
(* with => before their value), made unambiguous by precedence.            *)
(*                                                                         *)
(* Precedence is a condition on trees here, not an algorithm: a phrase     *)
(* knows the loosest operator open to its left and to its right, and may   *)
(* stand beside an operator that is looser than that.                      *)
(***************************************************************************)
EXTENDS Grammar, SequencesExt, FiniteSetsExt

CONSTANTS Alphabet, MaxLength

(* The infix operators, the loosest first; prefix operators lie below the  *)
(* member access, calls level with it.                                     *)
InfixLevels ==
    << {"LOGICAL_OR"}, {"LOGICAL_AND"}, {"BITWISE_OR"}, {"BITWISE_AND"},
       {"EQ", "NEQ"}, {"LT", "LE", "GT", "GE"}, {"PLUS", "MINUS"},
       {"ASTERIX", "DIVISION", "PERCENT"}, {"prefix"}, {"DOT", "call"} >>
LevelOf(op) == CHOOSE l \in DOMAIN InfixLevels : op \in InfixLevels[l]
Tightest == Len(InfixLevels) + 1
InfixTokens == UNION {InfixLevels[l] : l \in DOMAIN InfixLevels} \cap Alphabet
PrefixTokens == {"PLUS", "MINUS", "LOGICAL_NOT"} \cap Alphabet
PrefixName(t) ==
    CASE t = "PLUS" -> "UnaryPlus" [] t = "MINUS" -> "UnaryMinus"
      [] t = "LOGICAL_NOT" -> "LogicalNot"

Root(tree) == tree[Len(tree)]
Levelled(x, left, right) ==
    [toks |-> x.toks, ast |-> x.ast, kids |-> 1, area |-> Root(x.ast).area,
     left |-> left, right |-> right]
(* Parentheses around one expression leave no trace, not even in its area. *)
Closed(x) == Levelled(x, Tightest, Tightest)
(* A lambda and an if go on as far to the right as they can. *)
Greedy(x) == Levelled(x, Tightest, 0)

OfLength(levels, field, n) == IF n \in DOMAIN levels THEN levels[n][field] ELSE {}
Column(levels, field) == [k \in DOMAIN levels |-> levels[k][field]]

Named(x) == [x EXCEPT !.ast = [i \in DOMAIN @ |-> [@[i] EXCEPT !.kind = "LambdaParameter"]]]
OnlyNames(x) == \A i \in DOMAIN x.ast : x.ast[i].kind = "Identifier"

W(types) == Words(types \cap Alphabet)

-----------------------------------------------------------------------------
(* The phrases of n tokens by what they are, given those of fewer. *)
ExpressionLevel(levels, n) ==
    LET expr(k) == OfLength(levels, "expr", k)
        Exprs == Column(levels, "expr")
        Inside(open, field, close) ==
            Enclosed(W({open}), OfLength(levels, field, n - 2), W({close}))

        atoms ==
            IF n # 1 THEN {}
            ELSE Phrases("Identifier", W({"IDENTIFIER"}))
                     \cup UNION {Phrases(t, W({t})) :
                                   t \in {"INTEGER", "DOUBLE", "TRUE", "FALSE",
                                          "SELF_VALUE", "STANDARD_STRING"}}
        grouped == Inside("L_PARANTHESIS", "expr", "R_PARANTHESIS")
        tuples == Phrases("TupleExpr", Inside("L_PARANTHESIS", "several", "R_PARANTHESIS"))
        blocks ==
            Phrases("BlockExpr",
                Inside("L_BRACKET", "value", "R_BRACKET")
                    \cup {x \in Inside("L_BRACKET", "expr", "R_BRACKET") : x.toks[2] # "IF"})
        lambdas ==
            Phrases("LambdaExpr",
                UNION {Then(Then(OfLength(levels, "params", k), W({"LAMBDA_ARROW"})),
                            expr(n - 1 - k)) : k \in 1 .. n - 2})
        ifs ==
            Phrases("IfExpr",
                UNION {Then(Then(OfLength(levels, "unfinished", k), W({"ELSE"})),
                            expr(n - 1 - k)) : k \in 1 .. n - 2})

        infixes ==
            {Levelled(Phrase(op, Join(Join(x, Word(op)), y)),
                      Min({LevelOf(op), x.left}), Min({LevelOf(op), y.right})) :
                <<op, x, y>> \in UNION {
                    {<<t, l, r>> \in InfixTokens \X expr(k) \X expr(n - 1 - k) :
                        /\ l.right >= LevelOf(t) /\ r.left > LevelOf(t)} : k \in 1 .. n - 2}}
        prefixes ==
            {Levelled(Phrase(PrefixName(op), Join(Word(op), x)),
                      Tightest, Min({LevelOf("prefix"), x.right})) :
                <<op, x>> \in {<<t, r>> \in PrefixTokens \X expr(n - 1) :
                                   r.left >= LevelOf("prefix")}}
        calls ==
            {Levelled(Phrase("FunctionCall", Join(x, y)),
                      Min({LevelOf("call"), x.left}), Tightest) :
                <<x, y>> \in UNION {
                    {<<l, r>> \in expr(k) \X OfLength(levels, "arguments", n - k) :
                        l.right >= LevelOf("call")} : k \in 1 .. n - 2}}

        all == {Closed(x) : x \in atoms \cup grouped \cup tuples \cup blocks}
                   \cup {Greedy(x) : x \in lambdas \cup ifs}
                   \cup infixes \cup prefixes \cup calls

        (* expressions with commas between them, two at least *)
        several ==
            Between(Exprs, {"COMMA"} \cap Alphabet, Exprs, n)
                \cup Between(Column(levels, "several"), {"COMMA"} \cap Alphabet, Exprs, n)
        listed(k) == expr(k) \cup OfLength(levels, "several", k)
        (* the arguments of a call in either kind of brackets, with a comma *)
        (* behind the last one if one likes                                 *)
        arguments ==
            UNION {Then(Then(W({b[1]}),
                             IF n = 2 THEN {Nothing}
                             ELSE listed(n - 2) \cup Then(listed(n - 3), W({"COMMA"}))),
                        W({b[2]})) :
                     b \in {<<"L_PARANTHESIS", "R_PARANTHESIS">>, <<"L_BRACKET", "R_BRACKET">>}}
        (* what stands before a lambda's arrow *)
        params ==
            {Named(x) : x \in
                {y \in (IF n = 1 THEN atoms ELSE {})
                           \cup Inside("L_PARANTHESIS", "expr", "R_PARANTHESIS")
                           \cup Inside("L_PARANTHESIS", "several", "R_PARANTHESIS") :
                    OnlyNames(y)}}
        (* statements and what they are before a block's value *)
        stmt ==
            {x \in all : x.toks[1] # "IF"}
                \cup Phrases("LetAssignment",
                        Then(Then(Then(W({"LET"}), W({"IDENTIFIER"})), W({"ASSIGN"})),
                             expr(n - 3)))
        value ==
            Then(W({"LAMBDA_ARROW"}), expr(n - 1))
                \cup UNION {Then(Then(OfLength(levels, "stmt", k), W({"SEMICOLON", "NEWLINE"})),
                                 OfLength(levels, "value", n - 1 - k)) : k \in 1 .. n - 2}
        (* if ( condition ) body, and its elifs *)
        conditional(keyword) ==
            UNION {Then(Then(Then(W({keyword}), W({"L_PARANTHESIS"})),
                             Then(expr(k), W({"R_PARANTHESIS"}))),
                        expr(n - 3 - k)) : k \in 1 .. n - 4}
        unfinished ==
            conditional("IF")
                \cup UNION {Then(OfLength(levels, "unfinished", k),
                                 OfLength(levels, "elif", n - k)) : k \in 1 .. n - 1}
    IN  [expr |-> all, several |-> several, arguments |-> arguments,
         params |-> params, stmt |-> stmt, value |-> value,
         elif |-> Phrases("ElifExpr", conditional("ELIF")), unfinished |-> unfinished]

ExpressionLevels ==
    FoldLeft(LAMBDA levels, n : Append(levels, ExpressionLevel(levels, n)),
             <<>>, [n \in 1 .. MaxLength |-> n])

(* Every expression of at most MaxLength tokens, with its tree *)
Expressions ==
    LET levels == ExpressionLevels
    IN  UNION {levels[n].expr : n \in 1 .. MaxLength}
=============================================================================
