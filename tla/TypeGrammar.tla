---------------------------- MODULE TypeGrammar -----------------------------
(***************************************************************************)
(* The types of neo, from the "Types" part of docs/grammar.ebnf, made      *)
(* unambiguous as the parser's tests have it: => takes as much to its      *)
(* right as it can and nothing but a postfix type to its left, a union     *)
(* stands in parentheses as a tuple does.                                  *)
(***************************************************************************)
EXTENDS Grammar, SequencesExt

CONSTANTS Alphabet, MaxLength

W(types) == Words(types \cap Alphabet)

Of(levels, field) == [k \in DOMAIN levels |-> levels[k][field]]

At(levels, field, n) == IF n \in DOMAIN levels THEN levels[n][field] ELSE {}

(* A type in parentheses is the type, over a wider area. *)
Regrouped(x) ==
    [x EXCEPT !.ast[Len(x.ast)].area = x.area]

(* The phrases of n tokens, given those of fewer *)
TypeLevel(levels, n) ==
    LET Inside(field) == Enclosed(W({"L_PARANTHESIS"}), At(levels, field, n - 2), W({"R_PARANTHESIS"}))
        names ==
            IF n = 1 THEN Phrases("Identifier", W({"IDENTIFIER"}))
            ELSE Between(Of(levels, "names"), {"COLON_COLON"} \cap Alphabet, Of(levels, "names"), n)
        self == IF n = 1 THEN Phrases("SelfType", W({"SELF_TYPE"})) ELSE {}
        enclosed ==
            {Regrouped(x) : x \in Inside("type")}
                \cup Phrases("TupleType", Inside("ands"))
                \cup Phrases("UnionType", Inside("ors"))
        primary == Phrases("NamedType", names) \cup self \cup enclosed
        postfix ==
            primary \cup Phrases("OptionalType",
                                 Then(At(levels, "postfix", n - 1), W({"QUESTIONMARK"})))
        Lambdas(field) ==
            Phrases("LambdaType",
                Between(Of(levels, field), {"LAMBDA_ARROW"} \cap Alphabet, Of(levels, "type"), n))
        lambda == Lambdas("postfix") \cup Lambdas("lists")
        type == postfix \cup lambda
        (* two types or more with a separator between them *)
        Several(field, sep) ==
            Between(Of(levels, "type"), {sep} \cap Alphabet, Of(levels, "type"), n)
                \cup Between(Of(levels, field), {sep} \cap Alphabet, Of(levels, "type"), n)
    IN  [names |-> names, postfix |-> postfix, type |-> type,
         ands |-> Several("ands", "BITWISE_AND"),
         ors |-> Several("ors", "BITWISE_OR"),
         commas |-> Several("commas", "COMMA"),
         lists |-> Inside("commas"),
         compound |-> enclosed \cup Lambdas("lists")]

TypeLevels ==
    FoldLeft(LAMBDA levels, n : Append(levels, TypeLevel(levels, n)),
             <<>>, [n \in 1 .. MaxLength |-> n])

(* Every type of at most MaxLength tokens, with its tree *)
Types == UNION {TypeLevels[n].type : n \in 1 .. MaxLength}

(* ... and those among them that begin with a parenthesis of their own *)
CompoundTypes == UNION {TypeLevels[n].compound : n \in 1 .. MaxLength}
=============================================================================
