------------------------------- MODULE Parser -------------------------------
(***************************************************************************)
(* class Parser: all the mixed-in parsers over one Lexer, and a client     *)
(* that makes a Parser of a source and calls one of its public methods.    *)
(***************************************************************************)
EXTENDS TypeParser, ExpressionPrattParser, SimpleExpressionParser,
        IfExpressionParser, BlockExpressionParser, LParExpressionParser,
        StatementParser

(* The methods to call; expression() is expression_bp(0).                  *)
CONSTANT Entries
ASSUME EntriesAssumption ==
    Entries \subseteq
        {"type", "identifier", "expression_bp", "simple_expression",
         "identifier_or_simple_lambda", "if_expression", "block_expression",
         "l_par_expression", "statement", "let", "for_element"}

ParserNext ==
    \/ TypeNext
    \/ ExpressionNext \/ SimpleExpressionNext
    \/ IfNext \/ BlockNext \/ LParNext
    \/ StatementNext

Init == \E entry \in Entries : Starting(entry)

Next == LexNext \/ ParserNext

Spec == Init /\ [][Next]_vars

-----------------------------------------------------------------------------
(* An error is about where the parser is: it names the last token taken or *)
(* the next one, however many methods it went through and whatever they    *)
(* tried meanwhile.  The one error that looks back is let's about a        *)
(* missing =, which names the let (LetStmtParser.hpp:68).                  *)
ErrorsAreFresh ==
    ret.tag = "error" /\ ret.err.what \in {"UnexpectedToken", "UnknownToken"} =>
        \/ ret.err.at \in {taken, taken + 1}
        \/ /\ ret.err.at < taken
           /\ read[ret.err.at] = "LET" /\ read[taken] # "ASSIGN"

(* The methods in progress are bounded by the tokens taken: no method      *)
(* comes back to itself without having taken one, so the call stack is as  *)
(* deep as the source is nested and no deeper.  A brace costs most: a      *)
(* block, a statement, an expression and a simple expression.              *)
DepthBounded == Len(stack) <= 4 * (taken + 1)

(* Every node a method returns covers at least one token, and none that    *)
(* was taken before the method was called or is still to be taken, however *)
(* its area was put together (TextArea::combine in every parser method).   *)
AreasWithin ==
    ret.tag = "value" =>
        \A i \in DOMAIN ret.ast :
            /\ ret.ast[i].area.start < ret.ast[i].area.end
            /\ Covers([start |-> ret.start, end |-> taken], ret.ast[i].area)

(* A node's area covers the areas of all nodes below it.  One node does    *)
(* not: the parameter that gets its type by setType                        *)
(* (LParExpressionParser.hpp:166), whose area stays that of its name.      *)
Below(tree, i) == i - tree[i].size + 1 .. i

AreasNest ==
    ret.tag = "value" =>
        \A i \in DOMAIN ret.ast :
            ret.ast[i].kind # "LambdaParameter" =>
                \A j \in Below(ret.ast, i) : Covers(ret.ast[i].area, ret.ast[j].area)

(* Where the parts of node i end, the last first, and behind them where    *)
(* the first begins: a tree's nodes stand directly before its root.        *)
Ends(nodes, i) ==
    LET end[k \in 0 .. nodes[i].arity] ==
            IF k = 0 THEN i - 1
            ELSE IF end[k - 1] \in DOMAIN nodes THEN end[k - 1] - nodes[end[k - 1]].size
            ELSE 0
    IN  end

(* The node's tree is the node and as many parts as it counts, of the      *)
(* kinds its class declares.                                               *)
IsBuilt(nodes, i) ==
    LET n == nodes[i].arity
        end == Ends(nodes, i)
    IN  /\ nodes[i].size \in 1 .. i /\ end[n] = i - nodes[i].size
        /\ \A k \in 0 .. n - 1 : end[k] \in DOMAIN nodes
        /\ Declared(nodes[i].kind, [k \in 1 .. n |-> nodes[end[n - k]].kind])

(* Whatever a method returns, the innermost too, is one tree of which      *)
(* every node has the parts its class declares: no child is lost, left     *)
(* over, counted twice or of the wrong kind, also where expressions        *)
(* already built turn into a tuple, into parameters or into the value of a *)
(* block (include/ast, ast::forward in every parser method).               *)
BuildsDeclaredNodes ==
    ret.tag = "value" =>
        /\ Root(ret.ast).size = Len(ret.ast)
        /\ \A i \in DOMAIN ret.ast : IsBuilt(ret.ast, i)
=============================================================================
