----------------------------- MODULE ParserCore -----------------------------
(***************************************************************************)
(* What the parser's classes share: the lexer they read from, the stack of *)
(* calls in progress and the result on its way to the caller.              *)
(*                                                                         *)
(* The classes are mixed into one Parser object (CRTP) and call each       *)
(* other's methods, so a method is a group of labelled steps of one        *)
(* pushdown machine: a step looks at the next token at most, takes at most *)
(* one, and calls, goes on or returns.  A method's local variables are the *)
(* fields of its frame.                                                    *)
(*                                                                         *)
(* The parser only ever peeks one token, so its view of the Lexer is the   *)
(* abstract TokenStream: tokens are read on demand, taken in order, and an *)
(* error is final.  The tokens the source turns out to hold are chosen     *)
(* when they are read.  Positions count tokens: token i is at [i - 1, i).  *)
(***************************************************************************)
EXTENDS AST, TextArea

CONSTANTS
    Alphabet,    (* the token types a source is made of, END_OF_FILE apart *)
    MaxTokens,   (* bound: the tokens of a source                          *)
    Unlexable    (* whether a source may hold a stretch lexNext rejects    *)

ASSUME AlphabetAssumption == Alphabet \subseteq TokenTypes \ {"END_OF_FILE"}
ASSUME MaxTokensAssumption == MaxTokens \in Nat
ASSUME UnlexableAssumption == Unlexable \in BOOLEAN

VARIABLES
    read,        (* the tokens read so far: all taken but the last, which  *)
                 (* may still be in lexed_                                 *)
    taken,       (* how many were taken                                    *)
    stuck,       (* lexNext fails from here on                             *)
    undefined,   (* peek_and_pop ran on an empty vector                    *)
    dropped,     (* history: an alternative failed after it had taken      *)
                 (* tokens, and another was tried behind them              *)
    stack,       (* the frames of the calls in progress, the latest last   *)
    ret          (* what the last call to end returned, until it is used   *)

vars == <<read, taken, stuck, undefined, dropped, stack, ret>>

(* A syntax tree in postfix order: the children's nodes come before their  *)
(* parent, which says how many there are and of how many nodes, itself     *)
(* included, its tree is.  The last node is the root.                      *)
Node == [kind : NodeKinds, arity : Nat, size : Nat, area : Area]
Tree == Seq(Node)
Root(tree) == tree[Len(tree)]
Leaf(kind, area) == <<[kind |-> kind, arity |-> 0, size |-> 1, area |-> area]>>
Grown(trees, kind, arity, area) ==
    Append(trees, [kind |-> kind, arity |-> arity, size |-> Len(trees) + 1,
                   area |-> area])

(* Identifiers that become lambda parameters: LambdaParameter{identifier} *)
AsParameters(identifiers) ==
    [i \in DOMAIN identifiers |-> [identifiers[i] EXCEPT !.kind = "LambdaParameter"]]

(* TextArea of the i-th token *)
TokenArea(i) == [start |-> i - 1, end |-> i]

(* The steps the methods can be at, class by class; a method's own name is *)
(* its first step, another name.step one behind a call or a pop.           *)
Labels ==
    {"type", "type.started", "type.failed", "type.suffix", "type.arrow", "identifier",
     "named_type", "named_type.next", "compound_type", "compound_type.first",
     "compound_type.which", "type_list", "type_list.elem", "lambda_type.arrow",
     "lambda_type.ret",
     "expression_bp", "expression_bp.lhs", "expression_bp.loop", "expression_bp.rhs",
     "lhs.rhs", "function_params", "function_params.param", "function_params.sep",
     "simple_expression", "simple_expression.tried", "simple_expression.failed",
     "identifier_or_simple_lambda", "simple_lambda", "simple_lambda.body",
     "if_expression", "elif_expression", "if.open", "if.condition", "if.close",
     "if.then", "if.else", "if.elif", "if.last",
     "block_expression", "block_expression.loop", "block.ret", "block.stmt",
     "block.single", "block.separator", "block.close",
     "l_par_expression", "lpar.first", "lpar.next", "tuple", "tuple.elem",
     "try_lambda", "try_lambda.body", "params.type", "params", "lambda_parameter",
     "lambda_parameter.colon", "lambda_parameter.type", "params.arrow", "params.body",
     "statement", "statement.let", "statement.condition", "statement.body",
     "statement.expression", "for", "for.elems", "for.elem", "for_element",
     "for_element.which", "for_element.rhs", "block", "stmt_list.stmt", "stmt_list",
     "let", "let.identifier", "let.colon", "let.type", "let.assign", "let.rhs"}

(* at: the step the method is at; start: the tokens taken when it was      *)
(* called; bp: its binding power argument; tok and area: a token's type    *)
(* and an area it remembers; ast: the trees it has built, one after the    *)
(* other; kids: how many they are.                                         *)
Frame == [at : Labels, start : Nat, bp : Nat, tok : TokenTypes, area : Area,
          ast : Tree, kids : Nat]
NewFrame(label, start, bp) ==
    [at |-> label, start |-> start, bp |-> bp, tok |-> "END_OF_FILE",
     area |-> [start |-> 0, end |-> 0], ast |-> <<>>, kids |-> 0]

(* common::error::Error: where it was noticed, by token; nullopt too.      *)
Error == [what : {"UnexpectedToken", "UnknownToken", "InternalCompilerError", "nullopt"},
          at : Nat]
NullOpt == [what |-> "nullopt", at |-> 0]
Internal == [what |-> "InternalCompilerError", at |-> 0]

(* start is history: the start of the frame that returned. *)
Result == [tag : {"none", "value", "error"}, ast : Tree, err : Error, start : Nat]
NoResult == [tag |-> "none", ast |-> <<>>, err |-> NullOpt, start |-> 0]

Starting(label) ==
    /\ read = <<>> /\ taken = 0
    /\ stuck = FALSE /\ undefined = FALSE /\ dropped = FALSE
    /\ stack = <<NewFrame(label, 0, 0)>>
    /\ ret = NoResult

Done == stack = <<>> \/ undefined

-----------------------------------------------------------------------------
(* The lexer *)

AtEnd == read # <<>> /\ read[Len(read)] = "END_OF_FILE"

(* A step that looks at the next token reads it first: Lexer::peek.        *)
LexNext ==
    /\ ~Done /\ ret = NoResult
    /\ ~stuck /\ taken = Len(read)
    /\ \/ /\ ~AtEnd /\ Len(read) < MaxTokens
          /\ \E type \in Alphabet : read' = Append(read, type)
          /\ UNCHANGED stuck
       \/ /\ read' = Append(read, "END_OF_FILE")
          /\ UNCHANGED stuck
       \/ /\ Unlexable /\ ~AtEnd /\ Len(read) < MaxTokens
          /\ stuck' = TRUE
          /\ UNCHANGED read
    /\ UNCHANGED <<taken, undefined, dropped, stack, ret>>

Peeked == taken < Len(read)
NextToken == read[taken + 1]
AreaBehindNext == TokenArea(taken + 2)
NextArea == TokenArea(taken + 1)
NextIs(type) == Peeked /\ NextToken = type
NextIn(types) == Peeked /\ NextToken \in types

(* The error a method makes of the next token, or of the lack of one. *)
Unexpected ==
    IF Peeked THEN [what |-> "UnexpectedToken", at |-> taken + 1]
              ELSE [what |-> "UnknownToken", at |-> taken + 1]

(* What a step does with the next token: Lexer::pop, or nothing.           *)
PopTwo == taken' = taken + 2 /\ UNCHANGED dropped
Pop == taken' = taken + 1 /\ UNCHANGED dropped
Keep == UNCHANGED <<taken, dropped>>

-----------------------------------------------------------------------------
(* The methods *)

Top == stack[Len(stack)]

RetryFromStart == taken' = Top.start /\ UNCHANGED dropped

(* What a method does that tries something else after a failure: the       *)
(* tokens taken since it was called are not given back.                    *)
Retry == UNCHANGED taken /\ dropped' = (dropped \/ taken > Top.start)
In(label) == ~Done /\ Top.at = label

(* The method at label looks at the next token ... *)
Looks(label) == In(label) /\ ret = NoResult /\ (Peeked \/ stuck)
(* ... or at what the method it called returned. *)
Gets(label) == In(label) /\ ret.tag = "value"
Fails(label) == In(label) /\ ret.tag = "error"

Continue(frame) ==
    /\ stack' = [stack EXCEPT ![Len(stack)] = frame]
    /\ ret' = NoResult
    /\ UNCHANGED <<read, stuck, undefined>>

Goto(label) == Continue([Top EXCEPT !.at = label])

(* The caller keeps the trees it has and the tree it got. *)
GotoWith(label) ==
    Continue([Top EXCEPT !.at = label, !.ast = @ \o ret.ast, !.kids = @ + 1])

(* The caller, which goes on as frame, calls a method. *)
CallFrom(frame, callee, bp) ==
    /\ stack' = Append([stack EXCEPT ![Len(stack)] = frame],
                       NewFrame(callee, taken', bp))
    /\ ret' = NoResult
    /\ UNCHANGED <<read, stuck, undefined>>

Call(label, callee) == CallFrom([Top EXCEPT !.at = label], callee, 0)

Leave(result) ==
    /\ stack' = SubSeq(stack, 1, Len(stack) - 1)
    /\ ret' = result
    /\ UNCHANGED <<read, stuck, undefined>>

Return(tree) ==
    Leave([tag |-> "value", ast |-> tree, err |-> NullOpt, start |-> Top.start])

ReturnError(error) ==
    Leave([tag |-> "error", ast |-> <<>>, err |-> error, start |-> Top.start])

(* peek_and_pop with nothing to peek: pop_back on the empty vector.        *)
PopNothing ==
    /\ ~Peeked
    /\ undefined' = TRUE
    /\ UNCHANGED <<read, taken, stuck, dropped, stack, ret>>

(* A peek_and_pop whose token is the error *)
PopsBadToken == PopNothing \/ (Peeked /\ Pop /\ ReturnError(Unexpected))

(* A method that gives up says so with std::nullopt and leaves the tokens  *)
(* it took where they are: in the past.                                    *)
Rejects == Keep /\ ReturnError(NullOpt)

(* A method that called another at one of the labels passes its error on   *)
(* or, returning an optional, forgets it.                                  *)
Errs(labels) == ~Done /\ Top.at \in labels /\ ret.tag = "error"
Propagates(labels) == Errs(labels) /\ Keep /\ ReturnError(ret.err)
Swallows(labels) == Errs(labels) /\ Rejects

-----------------------------------------------------------------------------
CoreTypeOK ==
    /\ read \in Seq(TokenTypes)
    /\ taken \in 0 .. Len(read)
    /\ stuck \in BOOLEAN
    /\ undefined \in BOOLEAN /\ dropped \in BOOLEAN
    /\ stack \in Seq(Frame)
    /\ ret \in Result

(* The parser as a client of the token stream that Lexer implements: it    *)
(* takes each token of the source once and in order.  A method that tries  *)
(* an alternative gives no token back and skips none, and no token is read *)
(* while one is waiting (peek and pop in every parser method).             *)
Source == INSTANCE TokenStream WITH
    Token <- TokenTypes, produced <- read, delivered <- SubSeq(read, 1, taken), seen <- <<>>

ReadsAStream == Source!Spec
=============================================================================
