-------------------------------- MODULE AST ---------------------------------
(***************************************************************************)
(* The classes of the syntax tree (include/ast): of which kinds the parts  *)
(* of a node are, in the order its constructor takes them.  Names that are *)
(* members of their node, as a let's, are no parts.  The document's lists  *)
(* of at least two (tuples, unions) are stated too; the classes hold       *)
(* vectors of any length and leave them to the parser.                     *)
(***************************************************************************)
EXTENDS Tokens, Naturals, Sequences

(* The node kinds: literals and binary operations are named after their    *)
(* tokens.                                                                 *)
LiteralKinds == {"INTEGER", "DOUBLE", "TRUE", "FALSE", "SELF_VALUE", "STANDARD_STRING"}
BinaryKinds == {t \in TokenTypes : IsInfixOperator(t)}
UnaryKinds == {"UnaryPlus", "UnaryMinus", "LogicalNot"}

TypeKinds ==
    {"NamedType", "SelfType", "UnionType", "TupleType", "OptionalType", "LambdaType"}

ExpressionKinds ==
    {"Identifier", "IfExpr", "FunctionCall", "LambdaExpr", "TupleExpr", "BlockExpr"}
        \cup LiteralKinds \cup BinaryKinds \cup UnaryKinds

StatementKinds == ExpressionKinds \cup {"LetAssignment"}

(* The parts of nodes that are nodes themselves *)
PartKinds == {"ElifExpr", "LambdaParameter", "ForLetElement", "ForMonadicElement"}

NodeKinds == TypeKinds \cup StatementKinds \cup PartKinds

-----------------------------------------------------------------------------
(* parts: the kinds of a node's children *)

AllOf(parts, kinds) == \A i \in DOMAIN parts : parts[i] \in kinds
AllBut(n, parts) == SubSeq(parts, 1, Len(parts) - n)
LastPart(parts) == parts[Len(parts)]

BinaryParts(parts) == Len(parts) = 2 /\ AllOf(parts, ExpressionKinds)
UnaryParts(parts) == Len(parts) = 1 /\ AllOf(parts, ExpressionKinds)
TupleExprParts(parts) == Len(parts) >= 2 /\ AllOf(parts, ExpressionKinds)

(* the caller and the arguments *)
FunctionCallParts(parts) == Len(parts) >= 1 /\ AllOf(parts, ExpressionKinds)

(* a condition and a body *)
ElifExprParts(parts) == Len(parts) = 2 /\ AllOf(parts, ExpressionKinds)

(* a condition, a body, elifs and the body of else *)
IfExprParts(parts) ==
    /\ Len(parts) >= 3
    /\ AllOf(SubSeq(parts, 1, 2), ExpressionKinds)
    /\ AllOf(SubSeq(parts, 3, Len(parts) - 1), {"ElifExpr"})
    /\ LastPart(parts) \in ExpressionKinds

(* statements and the value *)
BlockExprParts(parts) ==
    /\ Len(parts) >= 1
    /\ AllOf(AllBut(1, parts), StatementKinds)
    /\ LastPart(parts) \in ExpressionKinds

(* an optional type *)
LambdaParameterParts(parts) == Len(parts) <= 1 /\ AllOf(parts, TypeKinds)

(* parameters and a body; the parser knows no return type *)
LambdaExprParts(parts) ==
    /\ Len(parts) >= 2
    /\ AllOf(AllBut(1, parts), {"LambdaParameter"})
    /\ LastPart(parts) \in ExpressionKinds

(* an optional type and the right hand side *)
LetAssignmentParts(parts) ==
    /\ Len(parts) \in {1, 2}
    /\ AllOf(AllBut(1, parts), TypeKinds)
    /\ LastPart(parts) \in ExpressionKinds

ForLetElementParts(parts) == Len(parts) = 1 /\ AllOf(parts, ExpressionKinds)
ForMonadicElementParts(parts) == Len(parts) = 1 /\ AllOf(parts, ExpressionKinds)

NamedTypeParts(parts) == Len(parts) >= 1 /\ AllOf(parts, {"Identifier"})
OptionalTypeParts(parts) == Len(parts) = 1 /\ AllOf(parts, TypeKinds)
TupleTypeParts(parts) == Len(parts) >= 2 /\ AllOf(parts, TypeKinds)
UnionTypeParts(parts) == Len(parts) >= 2 /\ AllOf(parts, TypeKinds)

(* arguments and the type returned *)
LambdaTypeParts(parts) == Len(parts) >= 2 /\ AllOf(parts, TypeKinds)

Declared(kind, parts) ==
    \/ kind \in LiteralKinds \cup {"Identifier", "SelfType"} /\ parts = <<>>
    \/ kind \in BinaryKinds /\ BinaryParts(parts)
    \/ kind \in UnaryKinds /\ UnaryParts(parts)
    \/ kind = "TupleExpr" /\ TupleExprParts(parts)
    \/ kind = "FunctionCall" /\ FunctionCallParts(parts)
    \/ kind = "ElifExpr" /\ ElifExprParts(parts)
    \/ kind = "IfExpr" /\ IfExprParts(parts)
    \/ kind = "BlockExpr" /\ BlockExprParts(parts)
    \/ kind = "LambdaParameter" /\ LambdaParameterParts(parts)
    \/ kind = "LambdaExpr" /\ LambdaExprParts(parts)
    \/ kind = "LetAssignment" /\ LetAssignmentParts(parts)
    \/ kind = "ForLetElement" /\ ForLetElementParts(parts)
    \/ kind = "ForMonadicElement" /\ ForMonadicElementParts(parts)
    \/ kind = "NamedType" /\ NamedTypeParts(parts)
    \/ kind = "OptionalType" /\ OptionalTypeParts(parts)
    \/ kind = "TupleType" /\ TupleTypeParts(parts)
    \/ kind = "UnionType" /\ UnionTypeParts(parts)
    \/ kind = "LambdaType" /\ LambdaTypeParts(parts)
=============================================================================
