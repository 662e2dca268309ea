---------------------------- MODULE Parser_proofs ----------------------------
(***************************************************************************)
(* Proofs about the Parser, for every source and every public method: the  *)
(* types of its state, the areas of the nodes it returns, and the order in *)
(* which it reads the token stream.                                        *)
(***************************************************************************)
EXTENDS Parser, TLAPS, SequenceTheorems

-----------------------------------------------------------------------------
(* Areas and trees *)

(* The areas of at least one token, from the lo-th to the hi-th *)
AreasIn(lo, hi) == {a \in Area : lo <= a.start /\ a.start < a.end /\ a.end <= hi}
NodesIn(lo, hi) == [kind : NodeKinds, arity : Nat, size : Nat, area : AreasIn(lo, hi)]
TreesIn(lo, hi) == Seq(NodesIn(lo, hi))

LEMMA AreasGrow ==
    ASSUME NEW lo \in Nat, NEW hi \in Nat, NEW low \in Nat, NEW high \in Nat,
           low <= lo, hi <= high
    PROVE  AreasIn(lo, hi) \subseteq AreasIn(low, high)
BY DEF AreasIn, Area

LEMMA TreesGrow ==
    ASSUME NEW lo \in Nat, NEW hi \in Nat, NEW low \in Nat, NEW high \in Nat,
           low <= lo, hi <= high
    PROVE  TreesIn(lo, hi) \subseteq TreesIn(low, high)
<1>1. NodesIn(lo, hi) \subseteq NodesIn(low, high)
  BY AreasGrow DEF NodesIn
<1> QED BY <1>1, SeqMonotonic DEF TreesIn

LEMMA TreesAreTrees ==
    ASSUME NEW lo \in Nat, NEW hi \in Nat
    PROVE  TreesIn(lo, hi) \subseteq Tree
<1>1. NodesIn(lo, hi) \subseteq Node
  BY DEF NodesIn, AreasIn, Node
<1> QED BY <1>1, SeqMonotonic DEF TreesIn, Tree

(* What covers two areas between two tokens lies between them. *)
LEMMA CombineIn ==
    ASSUME NEW lo \in Nat, NEW hi \in Nat,
           NEW first \in AreasIn(lo, hi), NEW second \in AreasIn(lo, hi)
    PROVE  Combine(first, second) \in AreasIn(lo, hi)
BY DEF Combine, AreasIn, Area

LEMMA TokenAreaIn ==
    ASSUME NEW lo \in Nat, NEW hi \in Nat, lo <= hi
    PROVE  TokenArea(hi + 1) \in AreasIn(lo, hi + 1)
BY DEF TokenArea, AreasIn, Area

LEMMA LeafIn ==
    ASSUME NEW lo \in Nat, NEW hi \in Nat, NEW area \in AreasIn(lo, hi),
           NEW kind \in NodeKinds
    PROVE  Leaf(kind, area) \in TreesIn(lo, hi) /\ Leaf(kind, area) # <<>>
BY DEF Leaf, TreesIn, NodesIn

LEMMA GrownIn ==
    ASSUME NEW lo \in Nat, NEW hi \in Nat, NEW area \in AreasIn(lo, hi),
           NEW kind \in NodeKinds, NEW arity \in Nat, NEW trees \in TreesIn(lo, hi)
    PROVE  /\ Grown(trees, kind, arity, area) \in TreesIn(lo, hi)
           /\ Grown(trees, kind, arity, area) # <<>>
<1> DEFINE node == [kind |-> kind, arity |-> arity, size |-> Len(trees) + 1,
                    area |-> area]
<1>1. node \in NodesIn(lo, hi) /\ trees \in Seq(NodesIn(lo, hi))
  <2>1. Len(trees) + 1 \in Nat
    BY LenProperties DEF TreesIn
  <2> QED BY <2>1 DEF TreesIn, NodesIn
<1> QED BY <1>1, AppendProperties DEF Grown, TreesIn

LEMMA ConcatIn ==
    ASSUME NEW lo \in Nat, NEW hi \in Nat,
           NEW left \in TreesIn(lo, hi), NEW right \in TreesIn(lo, hi)
    PROVE  /\ left \o right \in TreesIn(lo, hi)
           /\ left # <<>> \/ right # <<>> => left \o right # <<>>
<1>1. left \in Seq(NodesIn(lo, hi)) /\ right \in Seq(NodesIn(lo, hi))
  BY DEF TreesIn
<1>2. left \o right \in Seq(NodesIn(lo, hi))
  BY <1>1, ConcatProperties
<1>3. left \o right = <<>> => left = <<>> /\ right = <<>>
  BY <1>1, ConcatEqualIffEmpty
<1> QED BY <1>2, <1>3 DEF TreesIn

LEMMA RootIn ==
    ASSUME NEW lo \in Nat, NEW hi \in Nat, NEW trees \in TreesIn(lo, hi),
           trees # <<>>
    PROVE  /\ Root(trees).kind \in NodeKinds
           /\ Root(trees).area \in AreasIn(lo, hi)
           /\ trees[1].area \in AreasIn(lo, hi)
<1>1. trees \in Seq(NodesIn(lo, hi)) /\ Len(trees) \in Nat \ {0}
  BY EmptySeq DEF TreesIn
<1>2. Root(trees) \in NodesIn(lo, hi) /\ trees[1] \in NodesIn(lo, hi)
  <2>1. Len(trees) \in 1 .. Len(trees) /\ 1 \in 1 .. Len(trees)
    BY <1>1
  <2> QED BY <1>1, <2>1, ElementOfSeq DEF Root
<1> QED BY <1>2 DEF NodesIn

(* Turning identifiers into parameters leaves their areas alone. *)
LEMMA ParametersIn ==
    ASSUME NEW lo \in Nat, NEW hi \in Nat, NEW trees \in TreesIn(lo, hi)
    PROVE  /\ AsParameters(trees) \in TreesIn(lo, hi)
           /\ trees # <<>> => AsParameters(trees) # <<>>
<1>1. /\ trees \in Seq(NodesIn(lo, hi)) /\ Len(trees) \in Nat
      /\ DOMAIN trees = 1 .. Len(trees)
      /\ trees # <<>> => Len(trees) # 0
  BY LenProperties, EmptySeq DEF TreesIn
<1>3. \A node \in NodesIn(lo, hi) :
          [node EXCEPT !.kind = "LambdaParameter"] \in NodesIn(lo, hi)
  <2> TAKE node \in NodesIn(lo, hi)
  <2> DEFINE kind == "LambdaParameter"
  <2>1. kind \in NodeKinds
    BY DEF NodeKinds, PartKinds
  <2> HIDE DEF kind
  <2>2. [node EXCEPT !.kind = kind] \in NodesIn(lo, hi)
    BY <2>1 DEF NodesIn
  <2> QED BY <2>2 DEF kind
<1>2. \A i \in 1 .. Len(trees) : trees[i] \in NodesIn(lo, hi)
  BY <1>1, ElementOfSeq
<1>4. AsParameters(trees) \in [1 .. Len(trees) -> NodesIn(lo, hi)]
  BY <1>1, <1>2, <1>3 DEF AsParameters
<1>5. AsParameters(trees) \in Seq(NodesIn(lo, hi)) /\ Len(AsParameters(trees)) = Len(trees)
  BY <1>1, <1>4
<1> QED BY <1>1, <1>5 DEF TreesIn

LEMMA AllButLastIn ==
    ASSUME NEW lo \in Nat, NEW hi \in Nat, NEW trees \in TreesIn(lo, hi)
    PROVE  SubSeq(trees, 1, Len(trees) - 1) \in TreesIn(lo, hi)
<1>1. trees \in Seq(NodesIn(lo, hi)) /\ Len(trees) \in Nat
  BY LenProperties DEF TreesIn
<1>2. \A i \in 1 .. Len(trees) - 1 : trees[i] \in NodesIn(lo, hi)
  BY <1>1, ElementOfSeq
<1> QED BY <1>1, <1>2, SubSeqProperties DEF TreesIn

(* Giving the root another area *)
LEMMA WidenedIn ==
    ASSUME NEW lo \in Nat, NEW hi \in Nat, NEW trees \in TreesIn(lo, hi),
           trees # <<>>, NEW area \in AreasIn(lo, hi)
    PROVE  /\ [trees EXCEPT ![Len(trees)].area = area] \in TreesIn(lo, hi)
           /\ [trees EXCEPT ![Len(trees)].area = area] # <<>>
<1> DEFINE node == [trees[Len(trees)] EXCEPT !.area = area]
<1>1. trees \in Seq(NodesIn(lo, hi)) /\ Len(trees) \in Nat \ {0}
  BY EmptySeq DEF TreesIn
<1>2. node \in NodesIn(lo, hi)
  <2>1. trees[Len(trees)] \in NodesIn(lo, hi)
    <3>1. Len(trees) \in 1 .. Len(trees)
      BY <1>1
    <3> QED BY <1>1, <3>1, ElementOfSeq
  <2> QED BY <2>1 DEF NodesIn
<1>3. [trees EXCEPT ![Len(trees)].area = area] = [trees EXCEPT ![Len(trees)] = node]
  OBVIOUS
<1>4. [trees EXCEPT ![Len(trees)] = node] \in Seq(NodesIn(lo, hi))
      /\ Len([trees EXCEPT ![Len(trees)] = node]) = Len(trees)
  <2> HIDE DEF node
  <2>1. Len(trees) \in 1 .. Len(trees)
    BY <1>1
  <2> QED BY <1>1, <1>2, <2>1, ExceptSeq
<1> QED BY <1>1, <1>3, <1>4 DEF TreesIn

LEMMA NodesOf ==
    ASSUME NEW trees \in Tree
    PROVE  /\ Len(trees) \in Nat
           /\ trees # <<>> => Len(trees) \in 1 .. Len(trees)
           /\ \A i \in 1 .. Len(trees) : trees[i] \in Node /\ trees[i].area \in Area
<1>1. Len(trees) \in Nat /\ (trees # <<>> => Len(trees) \in Nat \ {0})
  BY EmptySeq, LenProperties DEF Tree
<1>2. \A i \in 1 .. Len(trees) : trees[i] \in Node
  BY ElementOfSeq DEF Tree
<1> QED BY <1>1, <1>2 DEF Node

LEMMA ConcatIs ==
    ASSUME NEW left \in Tree, NEW right \in Tree
    PROVE  /\ left \o right \in Tree
           /\ Len(left) \in Nat /\ Len(right) \in Nat
           /\ Len(left \o right) = Len(left) + Len(right)
           /\ \A i \in 1 .. Len(left \o right) :
                  (left \o right)[i] = IF i <= Len(left) THEN left[i] ELSE right[i - Len(left)]
BY ConcatProperties, NodesOf DEF Tree

LEMMA GrownIsATree ==
    ASSUME NEW trees \in Tree, NEW kind \in NodeKinds, NEW arity \in Nat, NEW area \in Area
    PROVE  Grown(trees, kind, arity, area) \in Tree
<1>1. [kind |-> kind, arity |-> arity, size |-> Len(trees) + 1, area |-> area] \in Node
  BY NodesOf DEF Node
<1> QED BY <1>1, AppendProperties DEF Grown, Tree

LEMMA ParametersAreTrees ==
    ASSUME NEW trees \in Tree
    PROVE  AsParameters(trees) \in Tree
<1>1. Len(trees) \in Nat /\ DOMAIN trees = 1 .. Len(trees)
      /\ \A i \in 1 .. Len(trees) : trees[i] \in Node
  BY NodesOf, LenProperties DEF Tree
<1> DEFINE kind == "LambdaParameter"
<1>2. kind \in NodeKinds
  BY DEF NodeKinds, PartKinds
<1> HIDE DEF kind
<1>3. \A node \in Node : [node EXCEPT !.kind = kind] \in Node
  BY <1>2 DEF Node
<1>4. AsParameters(trees) \in [1 .. Len(trees) -> Node]
  BY <1>1, <1>3 DEF AsParameters, kind
<1> QED BY <1>1, <1>4 DEF Tree

-----------------------------------------------------------------------------
(* The invariant *)

(* Where a method has built a tree already and is going to make a node of  *)
(* it: the node's area combines with the area of the tree's root.          *)
WithTree ==
    {"type.suffix", "type.arrow", "named_type.next", "compound_type.which",
     "expression_bp.loop", "expression_bp.rhs", "simple_lambda",
     "simple_lambda.body", "lpar.next", "tuple", "tuple.elem", "try_lambda",
     "try_lambda.body", "params.type", "lambda_parameter.colon",
     "lambda_parameter.type"}

(* Where a method remembers the area of a token it has taken *)
WithArea ==
    {"compound_type.first", "compound_type.which", "type_list", "type_list.elem",
     "lambda_type.arrow", "lambda_type.ret",
     "lhs.rhs", "function_params", "function_params.param", "function_params.sep",
     "if.open", "if.condition", "if.close", "if.then", "if.else", "if.elif", "if.last",
     "block_expression.loop", "block.ret", "block.stmt", "block.single",
     "block.separator", "block.close",
     "lpar.first", "lpar.next", "tuple", "tuple.elem", "try_lambda", "try_lambda.body",
     "params.type", "params", "lambda_parameter", "lambda_parameter.colon",
     "lambda_parameter.type", "params.arrow", "params.body",
     "for_element.which", "for_element.rhs",
     "let.identifier", "let.colon", "let.type", "let.assign", "let.rhs"}

(* The frames there can be when n tokens were taken: the trees and the     *)
(* area lie between the tokens the method found and those taken by now.    *)
FramesAt(n) ==
    {f \in Frame :
        /\ f.start <= n
        /\ f.ast \in TreesIn(f.start, n)
        /\ f.at \in WithTree => f.ast # <<>>
        /\ f.at \in WithArea => f.area \in AreasIn(f.start, n)
        /\ f.at = "lhs.rhs" => f.tok \in PrefixOperators
        /\ f.at = "expression_bp.rhs" => f.tok \in BinaryKinds}

ResultsAt(n) ==
    {r \in Result :
        r.tag = "value" => r.ast # <<>> /\ r.ast \in TreesIn(r.start, n)}

Inv ==
    /\ read \in Seq(TokenTypes)
    /\ taken \in 0 .. Len(read)
    /\ stuck \in BOOLEAN /\ undefined \in BOOLEAN /\ dropped \in BOOLEAN
    /\ stack \in Seq(FramesAt(taken))
    /\ ret \in ResultsAt(taken)
    /\ \A i \in 1 .. Len(stack) - 1 : stack[i].start <= stack[i + 1].start
    /\ ret.tag # "none" /\ stack # <<>> => Top.start <= ret.start

LEMMA FramesGrow ==
    ASSUME NEW n \in Nat, NEW m \in Nat, n <= m
    PROVE  FramesAt(n) \subseteq FramesAt(m)
<1> SUFFICES ASSUME NEW f \in FramesAt(n) PROVE f \in FramesAt(m)
  OBVIOUS
<1>1. f \in Frame /\ f.start \in Nat /\ f.start <= n
  BY DEF FramesAt, Frame
<1>2. TreesIn(f.start, n) \subseteq TreesIn(f.start, m)
  BY <1>1, TreesGrow
<1>3. AreasIn(f.start, n) \subseteq AreasIn(f.start, m)
  BY <1>1, AreasGrow
<1> QED BY <1>1, <1>2, <1>3 DEF FramesAt

(* A method that was just called *)
LEMMA NewFrameIn ==
    ASSUME NEW n \in Nat, NEW bp \in Nat,
           NEW callee \in Labels \ (WithTree \cup WithArea)
    PROVE  NewFrame(callee, n, bp) \in FramesAt(n)
<1> DEFINE f == NewFrame(callee, n, bp)
<1>1. f \in Frame
  BY DEF NewFrame, Frame, Area, TokenTypes, Tree
<1>2. f.ast \in TreesIn(f.start, n)
  BY DEF NewFrame, TreesIn
<1>3. callee # "lhs.rhs" /\ callee # "expression_bp.rhs"
  BY DEF WithTree, WithArea
<1> QED BY <1>1, <1>2, <1>3 DEF FramesAt, NewFrame

(* What a step does to the token stream: it takes the next token or leaves *)
(* it, and puts none back.                                                 *)
Moves ==
    /\ taken' = taken \/ (Peeked /\ taken' = taken + 1)
    /\ dropped' \in BOOLEAN

LEMMA Takes ==
    ASSUME Inv, Keep \/ (Peeked /\ Pop) \/ Retry
    PROVE  Moves
BY DEF Inv, Keep, Pop, Retry, Moves

(* The method that runs *)
LEMMA Running ==
    ASSUME Inv, ~Done
    PROVE  /\ Len(stack) \in Nat \ {0}
           /\ Top \in FramesAt(taken) /\ Top \in Frame
           /\ Top.start \in 0 .. taken
           /\ taken \in Nat /\ Len(read) \in Nat
<1>1. stack \in Seq(FramesAt(taken)) /\ stack # <<>>
  BY DEF Inv, Done
<1>2. Len(stack) \in Nat \ {0}
  BY <1>1, EmptySeq
<1>3. Len(stack) \in 1 .. Len(stack)
  BY <1>2
<1>4. Top \in FramesAt(taken)
  BY <1>1, <1>3, ElementOfSeq DEF Top
<1>5. taken \in Nat /\ Len(read) \in Nat
  BY LenProperties DEF Inv
<1> QED BY <1>2, <1>4, <1>5 DEF FramesAt, Frame

LEMMA Moved ==
    ASSUME Inv, ~Done, Moves
    PROVE  /\ taken' \in 0 .. Len(read) /\ taken <= taken' /\ taken' \in Nat
           /\ FramesAt(taken) \subseteq FramesAt(taken')
           /\ stack \in Seq(FramesAt(taken'))
           /\ Top \in FramesAt(taken')
<1>1. taken \in Nat /\ Len(read) \in Nat /\ taken <= Len(read)
  BY Running DEF Inv
<1>2. taken' \in Nat /\ taken <= taken' /\ taken' <= Len(read)
  BY <1>1 DEF Moves, Peeked
<1>3. FramesAt(taken) \subseteq FramesAt(taken')
  BY <1>1, <1>2, FramesGrow
<1>4. stack \in Seq(FramesAt(taken'))
  BY <1>3, SeqMonotonic DEF Inv
<1> QED BY <1>1, <1>2, <1>3, <1>4, Running

(* A step that goes on in the method *)
LEMMA ContinueKeeps ==
    ASSUME Inv, ~Done, Moves, NEW frame \in FramesAt(taken'),
           frame.start = Top.start, Continue(frame)
    PROVE  Inv' /\ read' = read
<1> DEFINE n == Len(stack)
<1>1. stack \in Seq(FramesAt(taken')) /\ n \in Nat \ {0} /\ n \in 1 .. n
  BY Moved, Running
<1>2. stack' = [stack EXCEPT ![n] = frame]
  BY DEF Continue
<1>3. /\ stack' \in Seq(FramesAt(taken'))
      /\ Len(stack') = n
      /\ \A i \in 1 .. n : stack'[i] = IF i = n THEN frame ELSE stack[i]
  BY <1>1, <1>2, ExceptSeq
<1>4. \A i \in 1 .. n : stack'[i].start = stack[i].start
  BY <1>3 DEF Top
<1>5. \A i \in 1 .. n - 1 : stack'[i].start <= stack'[i + 1].start
  BY <1>1, <1>4 DEF Inv
<1>6. ret' = NoResult /\ NoResult \in ResultsAt(taken')
  BY DEF Continue, NoResult, ResultsAt, Result, Error, NullOpt, Tree
<1>7. /\ read' = read /\ stuck' \in BOOLEAN /\ undefined' \in BOOLEAN
      /\ dropped' \in BOOLEAN /\ ret'.tag = "none"
  BY DEF Inv, Continue, Moves, NoResult
<1>8. read' \in Seq(TokenTypes) /\ taken' \in 0 .. Len(read')
  BY <1>7, Moved DEF Inv
<1> QED BY <1>3, <1>5, <1>6, <1>7, <1>8 DEF Inv

(* A step that calls another method *)
LEMMA CallKeeps ==
    ASSUME Inv, ~Done, Moves, NEW frame \in FramesAt(taken'),
           frame.start = Top.start,
           NEW callee \in Labels \ (WithTree \cup WithArea), NEW bp \in Nat,
           CallFrom(frame, callee, bp)
    PROVE  Inv' /\ read' = read
<1> DEFINE n == Len(stack)
           callers == [stack EXCEPT ![n] = frame]
           new == NewFrame(callee, taken', bp)
<1>1. stack \in Seq(FramesAt(taken')) /\ n \in Nat \ {0} /\ n \in 1 .. n
  BY Moved, Running
<1>2. /\ callers \in Seq(FramesAt(taken'))
      /\ Len(callers) = n
      /\ \A i \in 1 .. n : callers[i] = IF i = n THEN frame ELSE stack[i]
  BY <1>1, ExceptSeq
<1>3. new \in FramesAt(taken') /\ new.start = taken'
  BY Moved, NewFrameIn DEF NewFrame
<1>4. stack' = Append(callers, new)
  BY DEF CallFrom
<1> HIDE DEF callers, new
<1>5. /\ stack' \in Seq(FramesAt(taken'))
      /\ Len(stack') = n + 1
      /\ \A i \in 1 .. n : stack'[i] = callers[i]
      /\ stack'[n + 1] = new
  BY <1>2, <1>3, <1>4, AppendProperties
<1>6. \A i \in 1 .. n : stack'[i].start = stack[i].start
  BY <1>2, <1>5 DEF Top
<1>7. stack'[n].start <= stack'[n + 1].start
  BY <1>1, <1>3, <1>5, <1>6, Running, Moved DEF Top
<1>8. \A i \in 1 .. n : stack'[i].start <= stack'[i + 1].start
  <2>1. \A i \in 1 .. n - 1 : stack'[i].start <= stack'[i + 1].start
    BY <1>1, <1>6 DEF Inv
  <2> QED BY <1>1, <1>7, <2>1
<1>9. ret' = NoResult /\ NoResult \in ResultsAt(taken')
  BY DEF CallFrom, NoResult, ResultsAt, Result, Error, NullOpt, Tree
<1>10. /\ read' = read /\ stuck' \in BOOLEAN /\ undefined' \in BOOLEAN
       /\ dropped' \in BOOLEAN /\ ret'.tag = "none"
  BY DEF Inv, CallFrom, Moves, NoResult
<1>11. read' \in Seq(TokenTypes) /\ taken' \in 0 .. Len(read')
  BY <1>10, Moved DEF Inv
<1> QED BY <1>1, <1>5, <1>8, <1>9, <1>10, <1>11 DEF Inv

(* A step that leaves the method with a result of its own *)
LEMMA LeaveKeeps ==
    ASSUME Inv, ~Done, Moves, NEW result \in ResultsAt(taken'),
           result.start = Top.start, Leave(result)
    PROVE  Inv' /\ read' = read
<1> DEFINE n == Len(stack)
<1>1. stack \in Seq(FramesAt(taken')) /\ n \in Nat \ {0}
  BY Moved, Running
<1>2. \A i \in 1 .. n - 1 : stack[i] \in FramesAt(taken')
  BY <1>1, ElementOfSeq
<1>3. /\ stack' \in Seq(FramesAt(taken'))
      /\ Len(stack') = n - 1
      /\ \A i \in 1 .. n - 1 : stack'[i] = stack[i]
  <2>1. stack' = SubSeq(stack, 1, n - 1) /\ 1 \in Int /\ n - 1 \in Int
    BY <1>1 DEF Leave
  <2> HIDE DEF n
  <2>2. /\ stack' \in Seq(FramesAt(taken'))
        /\ Len(stack') = IF 1 <= n - 1 THEN (n - 1) - 1 + 1 ELSE 0
        /\ \A i \in 1 .. (n - 1) - 1 + 1 : stack'[i] = stack[1 + i - 1]
    BY <1>2, <2>1, SubSeqProperties
  <2> QED BY <1>1, <2>2
<1>4. \A i \in 1 .. n - 2 : stack'[i].start <= stack'[i + 1].start
  <2> TAKE i \in 1 .. n - 2
  <2>1. i \in 1 .. n - 1 /\ i + 1 \in 1 .. n - 1
    BY <1>1
  <2>2. stack'[i] = stack[i] /\ stack'[i + 1] = stack[i + 1]
    BY <1>3, <2>1
  <2> QED BY <2>1, <2>2 DEF Inv
<1>5. stack' # <<>> => Top'.start <= ret'.start
  <2> SUFFICES ASSUME stack' # <<>> PROVE Top'.start <= ret'.start
    OBVIOUS
  <2>1. n - 1 \in 1 .. n - 1
    BY <1>1, <1>3, EmptySeq
  <2>2. Top' = stack[n - 1]
    BY <1>3, <2>1 DEF Top
  <2>3. stack[n - 1].start <= stack[(n - 1) + 1].start /\ (n - 1) + 1 = n
    BY <1>1, <2>1 DEF Inv
  <2> QED BY <2>2, <2>3 DEF Leave, Top
<1>6. /\ read' = read /\ stuck' \in BOOLEAN /\ undefined' \in BOOLEAN
      /\ dropped' \in BOOLEAN /\ ret' \in ResultsAt(taken')
  BY DEF Inv, Leave, Moves
<1>7. read' \in Seq(TokenTypes) /\ taken' \in 0 .. Len(read')
  BY <1>6, Moved DEF Inv
<1> QED BY <1>1, <1>3, <1>4, <1>5, <1>6, <1>7 DEF Inv

LEMMA ReturnKeeps ==
    ASSUME Inv, ~Done, Moves, NEW tree \in TreesIn(Top.start, taken'), tree # <<>>,
           Return(tree)
    PROVE  Inv' /\ read' = read
<1> DEFINE result == [tag |-> "value", ast |-> tree, err |-> NullOpt, start |-> Top.start]
<1>1. tree \in Tree /\ Top.start \in Nat
  BY Running, Moved, TreesAreTrees
<1>2. result \in ResultsAt(taken')
  BY <1>1 DEF ResultsAt, Result, Error, NullOpt
<1>3. Leave(result)
  BY DEF Return
<1> QED BY <1>2, <1>3, LeaveKeeps

LEMMA ErrorKeeps ==
    ASSUME Inv, ~Done, Moves, NEW error \in Error, ReturnError(error)
    PROVE  Inv' /\ read' = read
<1> DEFINE result == [tag |-> "error", ast |-> <<>>, err |-> error, start |-> Top.start]
<1>1. result \in ResultsAt(taken')
  BY Running DEF ResultsAt, Result, Tree
<1>2. Leave(result)
  BY DEF ReturnError
<1> QED BY <1>1, <1>2, LeaveKeeps

-----------------------------------------------------------------------------
(* The common forms of a step *)

LEMMA UnexpectedIsAnError == ASSUME Inv PROVE Unexpected \in Error
<1>1. taken + 1 \in Nat
  BY LenProperties DEF Inv
<1> QED BY <1>1 DEF Unexpected, Error

(* The next token's area, once it is taken *)
LEMMA NextAreaIn ==
    ASSUME Inv, ~Done, Peeked, Pop
    PROVE  NextArea \in AreasIn(Top.start, taken') /\ NextToken \in TokenTypes
<1>1. Top.start \in Nat /\ Top.start <= taken /\ taken \in Nat /\ Len(read) \in Nat
  BY Running
<1>2. taken + 1 \in 1 .. Len(read)
  BY <1>1 DEF Peeked
<1> QED BY <1>1, <1>2, TokenAreaIn, ElementOfSeq DEF NextArea, NextToken, Pop, Inv

(* The trees and the area the running method has, and those it got *)
LEMMA PartsIn ==
    ASSUME Inv, ~Done, Moves
    PROVE  /\ Top.start \in Nat /\ taken' \in Nat
           /\ Top.kids \in Nat /\ Top.tok \in TokenTypes /\ Top.area \in Area
           /\ Top.ast \in TreesIn(Top.start, taken')
           /\ Top.at \in WithTree => /\ Top.ast # <<>>
                                    /\ Root(Top.ast).area \in AreasIn(Top.start, taken')
           /\ Top.at \in WithArea => Top.area \in AreasIn(Top.start, taken')
           /\ ret.tag = "value" =>
                  /\ ret.ast \in TreesIn(Top.start, taken') /\ ret.ast # <<>>
                  /\ Root(ret.ast).area \in AreasIn(Top.start, taken')
                  /\ Top.ast \o ret.ast \in TreesIn(Top.start, taken')
                  /\ Top.ast \o ret.ast # <<>>
<1>1. Top \in FramesAt(taken') /\ Top \in Frame /\ taken' \in Nat /\ taken \in Nat
      /\ taken <= taken' /\ stack # <<>>
  BY Running, Moved DEF Done
<1>2. /\ Top.start \in Nat /\ Top.ast \in TreesIn(Top.start, taken')
      /\ Top.at \in WithTree => Top.ast # <<>>
  BY <1>1 DEF FramesAt, Frame
<1>3. ASSUME ret.tag = "value"
      PROVE  ret.ast \in TreesIn(Top.start, taken') /\ ret.ast # <<>>
  <2>1. /\ ret.ast # <<>> /\ ret.ast \in TreesIn(ret.start, taken)
        /\ ret.start \in Nat /\ Top.start <= ret.start
    BY <1>1, <1>3 DEF Inv, ResultsAt, Result
  <2>2. TreesIn(ret.start, taken) \subseteq TreesIn(Top.start, taken')
    BY <1>1, <1>2, <2>1, TreesGrow
  <2> QED BY <2>1, <2>2
<1>4. ret.tag = "value" => /\ Root(ret.ast).area \in AreasIn(Top.start, taken')
                          /\ Top.ast \o ret.ast \in TreesIn(Top.start, taken')
                          /\ Top.ast \o ret.ast # <<>>
  BY <1>1, <1>2, <1>3, RootIn, ConcatIn
<1>5. Top.at \in WithTree => Root(Top.ast).area \in AreasIn(Top.start, taken')
  BY <1>1, <1>2, RootIn
<1> QED BY <1>1, <1>2, <1>3, <1>4, <1>5 DEF FramesAt, Frame

LEMMA AtLabel ==
    ASSUME Inv, ~Done, Moves, NEW label \in Labels,
           label \notin {"lhs.rhs", "expression_bp.rhs"},
           label \in WithTree => Top.at \in WithTree,
           label \in WithArea => Top.at \in WithArea
    PROVE  /\ [Top EXCEPT !.at = label] \in FramesAt(taken')
           /\ [Top EXCEPT !.at = label].start = Top.start
<1> DEFINE frame == [Top EXCEPT !.at = label]
<1>1. Top \in FramesAt(taken') /\ Top \in Frame
  BY Running, Moved
<1>2. /\ frame \in Frame /\ frame.at = label /\ frame.start = Top.start
      /\ frame.ast = Top.ast /\ frame.area = Top.area /\ frame.tok = Top.tok
  BY <1>1 DEF Frame
<1> HIDE DEF frame
<1>3. frame \in FramesAt(taken')
  BY <1>1, <1>2 DEF FramesAt
<1> QED BY <1>2, <1>3 DEF frame

(* The running method's frame with what it builds or remembers changed *)
FrameWith(at, tok, area, trees, kids) ==
    [Top EXCEPT !.at = at, !.tok = tok, !.area = area, !.ast = trees, !.kids = kids]

LEMMA FrameWithIn ==
    ASSUME Inv, ~Done, Moves, NEW at \in Labels, NEW tok \in TokenTypes, NEW area \in Area,
           NEW trees \in TreesIn(Top.start, taken'), NEW kids \in Nat,
           at \in WithTree => trees # <<>>,
           at \in WithArea => area \in AreasIn(Top.start, taken'),
           at = "lhs.rhs" => tok \in PrefixOperators,
           at = "expression_bp.rhs" => tok \in BinaryKinds
    PROVE  /\ FrameWith(at, tok, area, trees, kids) \in FramesAt(taken')
           /\ FrameWith(at, tok, area, trees, kids).start = Top.start
<1> DEFINE frame == FrameWith(at, tok, area, trees, kids)
<1>1. Top \in Frame /\ Top.start <= taken' /\ trees \in Tree
  BY Running, Moved, TreesAreTrees DEF FramesAt
<1>2. /\ frame \in Frame /\ frame.at = at /\ frame.start = Top.start
      /\ frame.ast = trees /\ frame.area = area /\ frame.tok = tok
  BY <1>1 DEF Frame, FrameWith
<1> HIDE DEF frame
<1>3. frame \in FramesAt(taken')
  BY <1>1, <1>2 DEF FramesAt
<1> QED BY <1>2, <1>3 DEF frame

(* Only its step and the area of the token it takes *)
LEMMA AreaFrameIn ==
    ASSUME Inv, ~Done, Peeked, Pop, NEW at \in Labels \ (WithTree \cup {"lhs.rhs"})
    PROVE  /\ [Top EXCEPT !.at = at, !.area = NextArea] \in FramesAt(taken')
           /\ [Top EXCEPT !.at = at, !.area = NextArea].start = Top.start
<1>1. Moves /\ Top \in Frame
  BY Takes, Running
<1>2. NextArea \in AreasIn(Top.start, taken') /\ NextArea \in Area
  BY NextAreaIn DEF AreasIn
<1>3. at # "expression_bp.rhs"
  BY DEF WithTree
<1>4. [Top EXCEPT !.at = at, !.area = NextArea]
          = FrameWith(at, Top.tok, NextArea, Top.ast, Top.kids)
  BY <1>1 DEF FrameWith, Frame
<1> QED BY <1>1, <1>2, <1>3, <1>4, PartsIn, FrameWithIn

(* Only its step and its trees *)
LEMMA TreesKeep ==
    ASSUME Inv, ~Done, Moves, NEW at \in Labels,
           at \notin {"lhs.rhs", "expression_bp.rhs"},
           NEW trees \in TreesIn(Top.start, taken'), trees # <<>>,
           at \in WithArea => Top.at \in WithArea,
           Continue([Top EXCEPT !.at = at, !.ast = trees])
    PROVE  Inv' /\ read' = read
<1>1. Top \in Frame
  BY Running
<1>2. /\ Top.tok \in TokenTypes /\ Top.area \in Area /\ Top.kids \in Nat
      /\ [Top EXCEPT !.at = at, !.ast = trees]
              = FrameWith(at, Top.tok, Top.area, trees, Top.kids)
  BY <1>1 DEF FrameWith, Frame
<1>3. at \in WithArea => Top.area \in AreasIn(Top.start, taken')
  BY PartsIn
<1> QED BY <1>2, <1>3, FrameWithIn, ContinueKeeps

LEMMA GotoKeeps ==
    ASSUME Inv, ~Done, Moves, NEW label \in Labels,
           label \notin {"lhs.rhs", "expression_bp.rhs"},
           label \in WithTree => Top.at \in WithTree,
           label \in WithArea => Top.at \in WithArea,
           Goto(label)
    PROVE  Inv' /\ read' = read
BY AtLabel, ContinueKeeps DEF Goto

LEMMA CallAtKeeps ==
    ASSUME Inv, ~Done, Moves, NEW label \in Labels,
           label \notin {"lhs.rhs", "expression_bp.rhs"},
           label \in WithTree => Top.at \in WithTree,
           label \in WithArea => Top.at \in WithArea,
           NEW callee \in Labels \ (WithTree \cup WithArea),
           Call(label, callee)
    PROVE  Inv' /\ read' = read
BY AtLabel, CallKeeps DEF Call

LEMMA GotoWithKeeps ==
    ASSUME Inv, ~Done, Moves, ret.tag = "value", NEW label \in Labels,
           label \notin {"lhs.rhs", "expression_bp.rhs"},
           label \in WithArea => Top.at \in WithArea,
           GotoWith(label)
    PROVE  Inv' /\ read' = read
<1> DEFINE frame == [Top EXCEPT !.at = label, !.ast = @ \o ret.ast, !.kids = @ + 1]
<1>1. Top \in FramesAt(taken') /\ Top \in Frame /\ Top.start <= taken'
  BY Running, Moved DEF FramesAt
<1>2. /\ Top.ast \o ret.ast \in TreesIn(Top.start, taken')
      /\ Top.ast \o ret.ast # <<>>
  BY PartsIn, ConcatIn
<1>3. Top.ast \o ret.ast \in Tree
  BY <1>2, PartsIn, TreesAreTrees
<1>4. /\ frame \in Frame /\ frame.at = label /\ frame.start = Top.start
      /\ frame.ast = Top.ast \o ret.ast /\ frame.area = Top.area /\ frame.tok = Top.tok
  <2> DEFINE trees == Top.ast \o ret.ast
  <2>1. frame = [Top EXCEPT !.at = label, !.ast = trees, !.kids = Top.kids + 1]
    OBVIOUS
  <2>2. trees \in Tree /\ Top.kids + 1 \in Nat
    BY <1>1, <1>3 DEF Frame
  <2> HIDE DEF trees, frame
  <2>3. /\ frame \in Frame /\ frame.at = label /\ frame.start = Top.start
        /\ frame.ast = trees /\ frame.area = Top.area /\ frame.tok = Top.tok
    BY <1>1, <2>1, <2>2 DEF Frame
  <2> QED BY <2>3 DEF trees
<1>5. Continue(frame)
  BY DEF GotoWith
<1> HIDE DEF frame
<1>6. frame \in FramesAt(taken')
  BY <1>1, <1>2, <1>4 DEF FramesAt
<1> QED BY <1>4, <1>5, <1>6, ContinueKeeps

LEMMA RejectsKeeps ==
    ASSUME Inv, ~Done, Rejects
    PROVE  Inv' /\ read' = read /\ Moves
<1>1. Moves /\ NullOpt \in Error
  BY Takes DEF Rejects, NullOpt, Error
<1> QED BY <1>1, ErrorKeeps DEF Rejects

LEMMA UnexpectedKeeps ==
    ASSUME Inv, ~Done, Keep, ReturnError(Unexpected)
    PROVE  Inv' /\ read' = read /\ Moves
BY Takes, UnexpectedIsAnError, ErrorKeeps

LEMMA PopNothingKeeps ==
    ASSUME Inv, PopNothing
    PROVE  Inv' /\ read' = read /\ Moves
BY DEF Inv, PopNothing, Moves, Top

LEMMA PopsBadTokenKeeps ==
    ASSUME Inv, ~Done, PopsBadToken
    PROVE  Inv' /\ read' = read /\ Moves
BY Takes, UnexpectedIsAnError, ErrorKeeps, PopNothingKeeps DEF PopsBadToken

LEMMA PropagatesKeeps ==
    ASSUME Inv, NEW labels, Propagates(labels)
    PROVE  Inv' /\ read' = read /\ Moves
<1>1. Moves /\ ~Done /\ ret.err \in Error
  BY Takes DEF Propagates, Errs, Inv, ResultsAt, Result
<1> QED BY <1>1, ErrorKeeps DEF Propagates

LEMMA SwallowsKeeps ==
    ASSUME Inv, NEW labels, Swallows(labels)
    PROVE  Inv' /\ read' = read /\ Moves
BY RejectsKeeps DEF Swallows, Errs

(* Nodes from an area the method remembers to what it got, or to the token *)
(* it takes                                                                *)
LEMMA ReturnNodeKeeps ==
    ASSUME Inv, ~Done, Moves, ret.tag = "value", Top.at \in WithArea,
           NEW kind \in NodeKinds, NEW arity \in Nat,
           NEW trees \in TreesIn(Top.start, taken'),
           Return(Grown(trees, kind, arity, Combine(Top.area, Root(ret.ast).area)))
    PROVE  Inv' /\ read' = read
<1> DEFINE area == Combine(Top.area, Root(ret.ast).area)
<1>1. area \in AreasIn(Top.start, taken')
  BY PartsIn, CombineIn
<1> HIDE DEF area
<1>2. /\ Grown(trees, kind, arity, area) \in TreesIn(Top.start, taken')
      /\ Grown(trees, kind, arity, area) # <<>>
  BY <1>1, PartsIn, GrownIn
<1> QED BY <1>2, ReturnKeeps DEF area

LEMMA ReturnClosedKeeps ==
    ASSUME Inv, ~Done, Peeked, Pop, Top.at \in WithArea,
           NEW kind \in NodeKinds, NEW arity \in Nat,
           Return(Grown(Top.ast, kind, arity, Combine(Top.area, NextArea)))
    PROVE  Inv' /\ read' = read
<1> DEFINE area == Combine(Top.area, NextArea)
<1>1. Moves
  BY Takes
<1>2. area \in AreasIn(Top.start, taken')
  BY <1>1, PartsIn, NextAreaIn, CombineIn
<1> HIDE DEF area
<1>3. /\ Grown(Top.ast, kind, arity, area) \in TreesIn(Top.start, taken')
      /\ Grown(Top.ast, kind, arity, area) # <<>>
  BY <1>1, <1>2, PartsIn, GrownIn
<1> QED BY <1>1, <1>3, ReturnKeeps DEF area

-----------------------------------------------------------------------------
(* The steps of the methods, class by class *)

LEMMA TypeKeeps ==
    ASSUME Inv, TypeNext
    PROVE  Inv' /\ read' = read /\ Moves
<1> USE DEF Labels, WithTree, WithArea, Looks, In, Gets, Fails
<1>1. CASE StartCompound
  BY <1>1, Takes, CallAtKeeps DEF StartCompound
<1>2. CASE StartSelf
  <2> DEFINE trees == Leaf("SelfType", NextArea)
             frame == [Top EXCEPT !.at = "type.suffix", !.kids = 1, !.ast = trees]
  <2>1. Moves /\ ~Done /\ Peeked /\ Pop /\ Continue(frame)
    BY <1>2, Takes DEF StartSelf, NextIs
  <2>2. trees \in TreesIn(Top.start, taken') /\ trees # <<>>
    BY <2>1, PartsIn, NextAreaIn, LeafIn DEF NodeKinds, TypeKinds
  <2> HIDE DEF trees
  <2>3. /\ frame = FrameWith("type.suffix", Top.tok, Top.area, trees, 1)
        /\ Top.tok \in TokenTypes /\ Top.area \in Area
    BY <2>1, Running DEF FrameWith, Frame
  <2> QED BY <2>1, <2>2, <2>3, FrameWithIn, ContinueKeeps
<1>3. CASE StartNamed
  BY <1>3, Takes, CallAtKeeps DEF StartNamed
<1>4. CASE Started
  BY <1>4, Takes, GotoWithKeeps DEF Started
<1>5. CASE StartFailed
  BY <1>5, Takes, GotoKeeps DEF StartFailed
<1>6. CASE TypeFails
  BY <1>6, PopsBadTokenKeeps DEF TypeFails
<1>7. CASE Optional
  <2> DEFINE trees == Grown(Top.ast, "OptionalType", 1, Combine(Root(Top.ast).area, NextArea))
  <2>1. /\ Moves /\ ~Done /\ Peeked /\ Pop /\ Top.at = "type.suffix"
        /\ Continue([Top EXCEPT !.ast = trees])
    BY <1>7, Takes DEF Optional, NextIs
  <2>2. Combine(Root(Top.ast).area, NextArea) \in AreasIn(Top.start, taken')
    BY <2>1, PartsIn, NextAreaIn, CombineIn
  <2>3. trees \in TreesIn(Top.start, taken') /\ trees # <<>>
    BY <2>1, <2>2, PartsIn, GrownIn DEF NodeKinds, TypeKinds
  <2> HIDE DEF trees
  <2>4. [Top EXCEPT !.ast = trees] = [Top EXCEPT !.at = "type.suffix", !.ast = trees]
    BY <2>1, Running DEF Frame
  <2>9. "type.suffix" \in Labels \ WithArea
    OBVIOUS
  <2> HIDE DEF trees, Labels, WithTree, WithArea
  <2> QED BY <2>1, <2>3, <2>4, <2>9, TreesKeep
<1>8. CASE Arrow
  BY <1>8, Takes, CallAtKeeps DEF Arrow, NextIs
<1>9. CASE ArrowGetsType
  <2> DEFINE area == Combine(Root(Top.ast).area, Root(ret.ast).area)
             trees == Grown(Top.ast \o ret.ast, "LambdaType", 2, area)
  <2>1. /\ Moves /\ ~Done /\ Top.at = "type.arrow" /\ ret.tag = "value"
        /\ Continue([Top EXCEPT !.at = "type.suffix", !.ast = trees])
    BY <1>9, Takes DEF ArrowGetsType
  <2>2. area \in AreasIn(Top.start, taken')
    BY <2>1, PartsIn, CombineIn
  <2> HIDE DEF area
  <2>3. trees \in TreesIn(Top.start, taken') /\ trees # <<>>
    BY <2>1, <2>2, PartsIn, GrownIn DEF NodeKinds, TypeKinds
  <2>9. "type.suffix" \in Labels \ WithArea
    OBVIOUS
  <2> HIDE DEF trees, Labels, WithTree, WithArea
  <2> QED BY <2>1, <2>3, <2>9, TreesKeep
<1>10. CASE TypeReturns
  BY <1>10, Takes, PartsIn, ReturnKeeps DEF TypeReturns
<1>11. CASE Identifier
  BY <1>11, Takes, PartsIn, NextAreaIn, LeafIn, ReturnKeeps, UnexpectedKeeps
     DEF Identifier, NextIs, NodeKinds, StatementKinds, ExpressionKinds
<1>12. CASE NamePart
  <2>1. ~Done
    BY <1>12 DEF NamePart
  <2>2. CASE Keep /\ ReturnError(Unexpected)
    BY <2>1, <2>2, UnexpectedKeeps
  <2>3. CASE ~(Keep /\ ReturnError(Unexpected))
    <3> DEFINE trees == Top.ast \o Leaf("Identifier", NextArea)
               kids == Top.kids + 1
               frame == [Top EXCEPT !.at = "named_type.next", !.kids = kids, !.ast = trees]
    <3>1. Moves /\ Peeked /\ Pop /\ Continue(frame)
      BY <1>12, <2>3, Takes DEF NamePart, NextIs
    <3>2. /\ Leaf("Identifier", NextArea) \in TreesIn(Top.start, taken')
          /\ Leaf("Identifier", NextArea) # <<>>
      BY <2>1, <3>1, PartsIn, NextAreaIn, LeafIn
         DEF NodeKinds, StatementKinds, ExpressionKinds
    <3>3. trees \in TreesIn(Top.start, taken') /\ trees # <<>>
      BY <2>1, <3>1, <3>2, PartsIn, ConcatIn
    <3>4. kids \in Nat
      BY <2>1, <3>1, PartsIn
    <3> HIDE DEF trees, kids
    <3>5. frame = FrameWith("named_type.next", Top.tok, Top.area, trees, kids)
      BY <2>1, Running DEF FrameWith, Frame
    <3> QED BY <2>1, <3>1, <3>3, <3>4, <3>5, PartsIn, FrameWithIn, ContinueKeeps
  <2> QED BY <2>2, <2>3
<1>13. CASE NameGoesOn
  BY <1>13, Takes, GotoKeeps DEF NameGoesOn, NextIs
<1>14. CASE NameReturns
  <2> DEFINE area == Combine(Top.ast[1].area, Root(Top.ast).area)
             trees == Grown(Top.ast, "NamedType", Top.kids, area)
  <2>1. Moves /\ ~Done /\ Top.at = "named_type.next" /\ Return(trees)
    BY <1>14, Takes DEF NameReturns
  <2>2. area \in AreasIn(Top.start, taken')
    BY <2>1, PartsIn, RootIn, CombineIn
  <2> HIDE DEF area
  <2>3. trees \in TreesIn(Top.start, taken') /\ trees # <<>>
    BY <2>1, <2>2, PartsIn, GrownIn DEF NodeKinds, TypeKinds
  <2> QED BY <2>1, <2>3, ReturnKeeps
<1>15. CASE Parenthesis
  <2> DEFINE frame == [Top EXCEPT !.at = "compound_type.first", !.area = NextArea]
  <2>1. Moves /\ ~Done /\ Peeked /\ Pop /\ CallFrom(frame, "type", 0)
    BY <1>15, Takes DEF Parenthesis, NextIs
  <2>2. /\ "compound_type.first" \in Labels \ (WithTree \cup {"lhs.rhs"})
        /\ "type" \in Labels \ (WithTree \cup WithArea)
    OBVIOUS
  <2> HIDE DEF Labels, WithTree, WithArea
  <2>3. frame \in FramesAt(taken') /\ frame.start = Top.start
    BY <2>1, <2>2, AreaFrameIn
  <2> HIDE DEF frame
  <2> QED BY <2>1, <2>2, <2>3, CallKeeps
<1>16. CASE FirstOfCompound
  BY <1>16, Takes, GotoWithKeeps DEF FirstOfCompound
<1>17. CASE Grouped
  <2> DEFINE area == Combine(Top.area, NextArea)
             trees == [Top.ast EXCEPT ![Len(Top.ast)].area = area]
  <2>1. /\ Moves /\ ~Done /\ Peeked /\ Pop /\ Top.at = "compound_type.which"
        /\ Return(trees)
    BY <1>17, Takes DEF Grouped, GroupedArea, NextIs
  <2>2. area \in AreasIn(Top.start, taken')
    BY <2>1, PartsIn, NextAreaIn, CombineIn
  <2> HIDE DEF area
  <2>3. trees \in TreesIn(Top.start, taken') /\ trees # <<>>
    BY <2>1, <2>2, PartsIn, WidenedIn
  <2> QED BY <2>1, <2>3, ReturnKeeps
<1>18. CASE List
  <2> DEFINE frame == [Top EXCEPT !.at = "type_list", !.tok = NextToken]
  <2>1. Moves /\ ~Done /\ Top.at = "compound_type.which" /\ Continue(frame)
        /\ NextToken \in TokenTypes
    BY <1>18, Takes DEF List, NextIn, TokenTypes
  <2>2. frame = FrameWith("type_list", NextToken, Top.area, Top.ast, Top.kids)
    BY <2>1, Running DEF FrameWith, Frame
  <2>3. /\ "type_list" \in Labels \ WithTree
        /\ Top.at \in WithArea
    BY <2>1
  <2> HIDE DEF frame, Labels, WithTree, WithArea
  <2>4. frame \in FramesAt(taken') /\ frame.start = Top.start
    BY <2>1, <2>2, <2>3, PartsIn, FrameWithIn
  <2> QED BY <2>1, <2>4, ContinueKeeps
<1>19. CASE NotCompound
  BY <1>19, PopsBadTokenKeeps DEF NotCompound
<1>20. CASE ListGoesOn
  BY <1>20, Takes, CallAtKeeps DEF ListGoesOn, NextIs
<1>21. CASE ListGetsType
  BY <1>21, Takes, GotoWithKeeps DEF ListGetsType
<1>22. CASE ListEnds
  <2>1. Moves /\ ~Done /\ Peeked /\ Pop /\ Top.at = "type_list"
    BY <1>22, Takes DEF ListEnds, NextIs
  <2>2. CASE Goto("lambda_type.arrow")
    BY <2>1, <2>2, GotoKeeps
  <2>3. CASE ~Goto("lambda_type.arrow")
    <3> DEFINE kind == IF Top.tok = "BITWISE_AND" THEN "TupleType" ELSE "UnionType"
    <3>1. Return(Grown(Top.ast, kind, Top.kids, Combine(Top.area, NextArea)))
      BY <1>22, <2>3 DEF ListEnds
    <3>2. kind \in NodeKinds
      BY DEF NodeKinds, TypeKinds
    <3> HIDE DEF kind
    <3> QED BY <2>1, <3>1, <3>2, PartsIn, ReturnClosedKeeps
  <2> QED BY <2>1, <2>2, <2>3
<1>23. CASE ListFails
  BY <1>23, PopsBadTokenKeeps DEF ListFails
<1>24. CASE LambdaArrow
  BY <1>24, Takes, CallAtKeeps, PopsBadTokenKeeps DEF LambdaArrow, NextIs
<1>25. CASE LambdaReturns
  <2>1. Moves /\ ~Done /\ ret.tag = "value" /\ Top.at \in WithArea
    BY <1>25, Takes DEF LambdaReturns
  <2>2. "LambdaType" \in NodeKinds /\ Top.kids + 1 \in Nat
    BY <2>1, PartsIn DEF NodeKinds, TypeKinds
  <2> QED BY <1>25, <2>1, <2>2, PartsIn, ReturnNodeKeeps DEF LambdaReturns
<1>26. CASE TypePropagates
  BY <1>26, PropagatesKeeps DEF TypePropagates
<1> QED
  BY TypeNext, <1>1, <1>2, <1>3, <1>4, <1>5, <1>6, <1>7, <1>8, <1>9, <1>10, <1>11,
     <1>12, <1>13, <1>14, <1>15, <1>16, <1>17, <1>18, <1>19, <1>20, <1>21, <1>22,
     <1>23, <1>24, <1>25, <1>26 DEF TypeNext

(* The operators have nodes and binding powers. *)
LEMMA OperatorsAre ==
    /\ \A op \in PrefixOperators : PrefixNode(op) \in NodeKinds /\ op \in TokenTypes
    /\ \A op \in BinaryKinds : /\ op \in NodeKinds /\ op \in TokenTypes
                              /\ RightPower(op) \in Nat
    /\ \A op \in TokenTypes : IsInfixOperator(op) => op \in BinaryKinds
<1>1. \A op \in PrefixOperators : PrefixNode(op) \in NodeKinds /\ op \in TokenTypes
  BY DEF PrefixOperators, IsPrefixOperator, PrefixNode, NodeKinds, StatementKinds,
         ExpressionKinds, UnaryKinds
<1>2. \A op \in BinaryKinds : InfixLevel(op) \in Nat
  BY DEF BinaryKinds, IsInfixOperator, InfixLevel
<1>3. \A op \in BinaryKinds : op \in NodeKinds /\ op \in TokenTypes
  BY DEF BinaryKinds, NodeKinds, StatementKinds, ExpressionKinds
<1> QED BY <1>1, <1>2, <1>3 DEF RightPower, BinaryKinds

LEMMA ExpressionKeeps ==
    ASSUME Inv, ExpressionNext
    PROVE  Inv' /\ read' = read /\ Moves
<1> USE DEF Labels, WithTree, WithArea, Looks, In, Gets, Fails
<1>1. CASE Prefix
  <2> DEFINE frame == [Top EXCEPT !.at = "lhs.rhs", !.tok = NextToken, !.area = NextArea]
  <2>1. /\ Moves /\ ~Done /\ Peeked /\ Pop /\ NextToken \in PrefixOperators
        /\ CallFrom(frame, "expression_bp", 17)
    BY <1>1, Takes DEF Prefix, NextIn, PrefixPower
  <2>2. /\ NextArea \in AreasIn(Top.start, taken') /\ NextArea \in Area
        /\ NextToken \in TokenTypes
    BY <2>1, NextAreaIn DEF AreasIn
  <2>3. frame = FrameWith("lhs.rhs", NextToken, NextArea, Top.ast, Top.kids)
    BY <2>1, Running DEF FrameWith, Frame
  <2>4. /\ "lhs.rhs" \in Labels \ WithTree
        /\ "expression_bp" \in Labels \ (WithTree \cup WithArea)
    OBVIOUS
  <2> HIDE DEF frame, Labels, WithTree, WithArea
  <2>5. frame \in FramesAt(taken') /\ frame.start = Top.start
    BY <2>1, <2>2, <2>3, <2>4, PartsIn, FrameWithIn
  <2> QED BY <2>1, <2>4, <2>5, CallKeeps
<1>2. CASE PrefixGetsOperand
  <2> DEFINE area == Combine(Top.area, Root(ret.ast).area)
             trees == Grown(ret.ast, PrefixNode(Top.tok), 1, area)
  <2>1. /\ Moves /\ ~Done /\ Top.at = "lhs.rhs" /\ ret.tag = "value"
        /\ Continue([Top EXCEPT !.at = "expression_bp.loop", !.ast = trees])
    BY <1>2, Takes DEF PrefixGetsOperand
  <2>2. PrefixNode(Top.tok) \in NodeKinds
    BY <2>1, Running, OperatorsAre DEF FramesAt
  <2>3. area \in AreasIn(Top.start, taken')
    BY <2>1, PartsIn, CombineIn
  <2> HIDE DEF area
  <2>4. trees \in TreesIn(Top.start, taken') /\ trees # <<>>
    BY <2>1, <2>2, <2>3, PartsIn, GrownIn
  <2>9. "expression_bp.loop" \in Labels \ WithArea
    OBVIOUS
  <2> HIDE DEF trees, Labels, WithTree, WithArea
  <2> QED BY <2>1, <2>4, <2>9, TreesKeep
<1>3. CASE Simple
  BY <1>3, Takes, CallAtKeeps DEF Simple
<1>4. CASE GetsLhs
  <2>1. /\ Moves /\ ~Done /\ ret.tag = "value"
        /\ Continue([Top EXCEPT !.at = "expression_bp.loop", !.ast = ret.ast])
    BY <1>4, Takes DEF GetsLhs
  <2>2. "expression_bp.loop" \in Labels \ WithArea
    OBVIOUS
  <2> HIDE DEF Labels, WithTree, WithArea
  <2> QED BY <2>1, <2>2, PartsIn, TreesKeep
<1>5. CASE ExpressionEnds
  BY <1>5, Takes, PartsIn, ReturnKeeps DEF ExpressionEnds
<1>6. CASE NotAnInfix
  BY <1>6, Takes, ErrorKeeps DEF NotAnInfix, Internal, Error
<1>7. CASE Infix
  <2> DEFINE frame == [Top EXCEPT !.at = "expression_bp.rhs", !.tok = NextToken]
  <2>1. /\ Moves /\ ~Done /\ Peeked /\ Pop /\ Top.at = "expression_bp.loop"
        /\ IsInfixOperator(NextToken)
        /\ CallFrom(frame, "expression_bp", RightPower(NextToken))
    BY <1>7, Takes DEF Infix
  <2>2. /\ NextToken \in BinaryKinds /\ NextToken \in TokenTypes
        /\ RightPower(NextToken) \in Nat
    BY <2>1, NextAreaIn, OperatorsAre
  <2>3. frame = FrameWith("expression_bp.rhs", NextToken, Top.area, Top.ast, Top.kids)
    BY <2>1, Running DEF FrameWith, Frame
  <2>4. /\ "expression_bp.rhs" \in Labels \ WithArea
        /\ Top.at \in WithTree
        /\ "expression_bp" \in Labels \ (WithTree \cup WithArea)
    BY <2>1
  <2> HIDE DEF frame, Labels, WithTree, WithArea
  <2>5. frame \in FramesAt(taken') /\ frame.start = Top.start
    BY <2>1, <2>2, <2>3, <2>4, PartsIn, FrameWithIn
  <2> QED BY <2>1, <2>2, <2>4, <2>5, CallKeeps
<1>8. CASE InfixGetsOperand
  <2> DEFINE area == Combine(Root(Top.ast).area, Root(ret.ast).area)
             trees == Grown(Top.ast \o ret.ast, Top.tok, 2, area)
  <2>1. /\ Moves /\ ~Done /\ Top.at = "expression_bp.rhs" /\ ret.tag = "value"
        /\ Continue([Top EXCEPT !.at = "expression_bp.loop", !.ast = trees])
    BY <1>8, Takes DEF InfixGetsOperand
  <2>2. Top.tok \in NodeKinds
    BY <2>1, Running, OperatorsAre DEF FramesAt
  <2>3. area \in AreasIn(Top.start, taken')
    BY <2>1, PartsIn, CombineIn
  <2> HIDE DEF area
  <2>4. trees \in TreesIn(Top.start, taken') /\ trees # <<>>
    BY <2>1, <2>2, <2>3, PartsIn, GrownIn
  <2>5. "expression_bp.loop" \in Labels \ WithArea
    OBVIOUS
  <2> HIDE DEF Labels, WithTree, WithArea
  <2> QED BY <2>1, <2>4, <2>5, TreesKeep
<1>9. CASE FunctionCall
  <2> DEFINE area == Root(Top.ast).area
             frame == [Top EXCEPT !.at = "function_params", !.kids = 1, !.tok = NextToken,
                                  !.area = area]
  <2>1. /\ Moves /\ ~Done /\ Peeked /\ Pop /\ Top.at = "expression_bp.loop"
        /\ Continue(frame)
    BY <1>9, Takes DEF FunctionCall
  <2>2. area \in AreasIn(Top.start, taken') /\ area \in Area
    BY <2>1, PartsIn DEF AreasIn
  <2> HIDE DEF area
  <2>3. frame = FrameWith("function_params", NextToken, area, Top.ast, 1)
    BY <2>1, Running DEF FrameWith, Frame
  <2>4. "function_params" \in Labels \ WithTree
    OBVIOUS
  <2> HIDE DEF frame, Labels, WithTree, WithArea
  <2>5. frame \in FramesAt(taken') /\ frame.start = Top.start
    BY <2>1, <2>2, <2>3, <2>4, PartsIn, NextAreaIn, FrameWithIn
  <2> QED BY <2>1, <2>5, ContinueKeeps
<1>10. CASE CallEnds
  <2> DEFINE area == Combine(Top.area, NextArea)
             trees == Grown(Top.ast, "FunctionCall", Top.kids, area)
  <2>1. /\ Moves /\ ~Done /\ Peeked /\ Pop
        /\ Top.at \in {"function_params", "function_params.sep"}
        /\ Continue([Top EXCEPT !.at = "expression_bp.loop", !.ast = trees])
    BY <1>10, Takes DEF CallEnds, NextIs
  <2>2. area \in AreasIn(Top.start, taken')
    BY <2>1, PartsIn, NextAreaIn, CombineIn
  <2> HIDE DEF area
  <2>3. trees \in TreesIn(Top.start, taken') /\ trees # <<>>
    BY <2>1, <2>2, PartsIn, GrownIn DEF NodeKinds, StatementKinds, ExpressionKinds
  <2>9. "expression_bp.loop" \in Labels \ WithArea
    OBVIOUS
  <2> HIDE DEF trees, Labels, WithTree, WithArea
  <2> QED BY <2>1, <2>3, <2>9, TreesKeep
<1>11. CASE Param
  BY <1>11, Takes, CallAtKeeps DEF Param
<1>12. CASE GetsParam
  BY <1>12, Takes, GotoWithKeeps DEF GetsParam
<1>13. CASE NextParam
  BY <1>13, Takes, GotoKeeps DEF NextParam, NextIs
<1>14. CASE NotAParam
  BY <1>14, PopsBadTokenKeeps DEF NotAParam
<1>15. CASE PrattPropagates
  BY <1>15, PropagatesKeeps DEF PrattPropagates
<1> QED
  BY ExpressionNext, <1>1, <1>2, <1>3, <1>4, <1>5, <1>6, <1>7, <1>8, <1>9, <1>10,
     <1>11, <1>12, <1>13, <1>14, <1>15 DEF ExpressionNext

LEMMA AlternativesAre ==
    \A i \in 1 .. Len(Alternatives) : Alternatives[i] \in Labels \ (WithTree \cup WithArea)
BY DEF Alternatives, Labels, WithTree, WithArea

LEMMA SimpleExpressionKeeps ==
    ASSUME Inv, SimpleExpressionNext
    PROVE  Inv' /\ read' = read /\ Moves
<1> USE DEF Labels, WithTree, WithArea, Looks, In, Gets, Fails
<1>1. CASE Literal
  <2>1. /\ Moves /\ ~Done /\ Peeked /\ Pop /\ NextToken \in NodeKinds
        /\ Return(Leaf(NextToken, NextArea))
    BY <1>1, Takes DEF Literal, NextIn, Literals, NodeKinds, StatementKinds,
                       ExpressionKinds, LiteralKinds
  <2>2. /\ Leaf(NextToken, NextArea) \in TreesIn(Top.start, taken')
        /\ Leaf(NextToken, NextArea) # <<>>
    BY <2>1, PartsIn, NextAreaIn, LeafIn
  <2> QED BY <2>1, <2>2, ReturnKeeps
<1>2. CASE FirstAlternative
  <2> DEFINE frame == [Top EXCEPT !.at = "simple_expression.tried", !.kids = 1]
  <2>1. Moves /\ ~Done /\ CallFrom(frame, "identifier_or_simple_lambda", 0)
    BY <1>2, Takes DEF FirstAlternative, Alternatives
  <2>2. frame = FrameWith("simple_expression.tried", Top.tok, Top.area, Top.ast, 1)
    BY <2>1, Running DEF FrameWith, Frame
  <2> HIDE DEF frame
  <2>3. frame \in FramesAt(taken') /\ frame.start = Top.start
    BY <2>1, <2>2, PartsIn, FrameWithIn
  <2> QED BY <2>1, <2>3, CallKeeps
<1>3. CASE AlternativeSucceeds
  BY <1>3, Takes, PartsIn, ReturnKeeps DEF AlternativeSucceeds
<1>4. CASE NextAlternative
  <2> DEFINE kids == Top.kids + 1
             frame == [Top EXCEPT !.kids = kids]
  <2>1. /\ Moves /\ ~Done /\ Top.at = "simple_expression.tried" /\ Top.kids < Len(Alternatives)
        /\ CallFrom(frame, Alternatives[kids], 0)
    BY <1>4, Takes DEF NextAlternative
  <2>2. kids \in 1 .. Len(Alternatives) /\ kids \in Nat
    BY <2>1, PartsIn DEF Alternatives
  <2>3. Alternatives[kids] \in Labels \ (WithTree \cup WithArea)
    BY <2>2, AlternativesAre
  <2> HIDE DEF kids
  <2>4. frame = FrameWith("simple_expression.tried", Top.tok, Top.area, Top.ast, kids)
    BY <2>1, Running DEF FrameWith, Frame
  <2> HIDE DEF frame
  <2>5. frame \in FramesAt(taken') /\ frame.start = Top.start
    BY <2>1, <2>2, <2>4, PartsIn, FrameWithIn
  <2> QED BY <2>1, <2>3, <2>5, CallKeeps
<1>5. CASE LastAlternativeFails
  BY <1>5, Takes, GotoKeeps DEF LastAlternativeFails
<1>6. CASE NoSimpleExpression
  BY <1>6, UnexpectedKeeps DEF NoSimpleExpression
<1>7. CASE IdentifierOrLambda
  <2>1. ~Done
    BY <1>7 DEF IdentifierOrLambda
  <2>2. CASE Rejects
    BY <2>1, <2>2, RejectsKeeps
  <2>3. CASE ~Rejects
    <3> DEFINE trees == Leaf("Identifier", NextArea)
    <3>1. /\ Moves /\ Peeked /\ Pop
          /\ Continue([Top EXCEPT !.at = "simple_lambda", !.ast = trees])
      BY <1>7, <2>3, Takes DEF IdentifierOrLambda, NextIs
    <3>2. trees \in TreesIn(Top.start, taken') /\ trees # <<>>
      BY <2>1, <3>1, PartsIn, NextAreaIn, LeafIn
         DEF NodeKinds, StatementKinds, ExpressionKinds
    <3>3. "simple_lambda" \in Labels \ WithArea
      OBVIOUS
    <3> HIDE DEF Labels, WithTree, WithArea
    <3> QED BY <2>1, <3>1, <3>2, <3>3, TreesKeep
  <2> QED BY <2>2, <2>3
<1>8. CASE TypedIdentifier
  BY <1>8, RejectsKeeps DEF TypedIdentifier
<1>9. CASE SimpleLambda
  BY <1>9, Takes, CallAtKeeps DEF SimpleLambda, NextIs
<1>10. CASE JustIdentifier
  BY <1>10, Takes, PartsIn, ReturnKeeps DEF JustIdentifier
<1>11. CASE SimpleLambdaReturns
  <2> DEFINE area == Combine(Root(Top.ast).area, Root(ret.ast).area)
             parts == AsParameters(Top.ast) \o ret.ast
             trees == Grown(parts, "LambdaExpr", 2, area)
  <2>1. /\ Moves /\ ~Done /\ Top.at = "simple_lambda.body" /\ ret.tag = "value"
        /\ Return(trees)
    BY <1>11, Takes DEF SimpleLambdaReturns
  <2>2. area \in AreasIn(Top.start, taken')
    BY <2>1, PartsIn, CombineIn
  <2>3. parts \in TreesIn(Top.start, taken')
    BY <2>1, PartsIn, ParametersIn, ConcatIn
  <2> HIDE DEF area, parts
  <2>4. trees \in TreesIn(Top.start, taken') /\ trees # <<>>
    BY <2>1, <2>2, <2>3, PartsIn, GrownIn DEF NodeKinds, StatementKinds, ExpressionKinds
  <2> QED BY <2>1, <2>4, ReturnKeeps
<1>12. CASE Swallows({"simple_lambda.body"})
  BY <1>12, SwallowsKeeps
<1> QED
  BY SimpleExpressionNext, <1>1, <1>2, <1>3, <1>4, <1>5, <1>6, <1>7, <1>8, <1>9, <1>10,
     <1>11, <1>12 DEF SimpleExpressionNext

LEMMA IfKeeps ==
    ASSUME Inv, IfNext
    PROVE  Inv' /\ read' = read /\ Moves
<1> USE DEF Labels, WithTree, WithArea, Looks, In, Gets, Fails
<1>1. CASE IfStarts
  <2> DEFINE frame == [Top EXCEPT !.at = "if.open", !.tok = NextToken, !.area = NextArea]
  <2>1. Moves /\ ~Done /\ Peeked /\ Pop /\ Continue(frame)
    BY <1>1, Takes DEF IfStarts, NextIs
  <2>2. /\ NextArea \in AreasIn(Top.start, taken') /\ NextArea \in Area
        /\ NextToken \in TokenTypes
    BY <2>1, NextAreaIn DEF AreasIn
  <2>3. frame = FrameWith("if.open", NextToken, NextArea, Top.ast, Top.kids)
    BY <2>1, Running DEF FrameWith, Frame
  <2>4. "if.open" \in Labels \ WithTree
    OBVIOUS
  <2> HIDE DEF frame, Labels, WithTree, WithArea
  <2>5. frame \in FramesAt(taken') /\ frame.start = Top.start
    BY <2>1, <2>2, <2>3, <2>4, PartsIn, FrameWithIn
  <2> QED BY <2>1, <2>5, ContinueKeeps
<1>2. CASE NoIf
  BY <1>2, RejectsKeeps DEF NoIf
<1>3. CASE IfOpens
  BY <1>3, Takes, CallAtKeeps, RejectsKeeps DEF IfOpens, NextIs
<1>4. CASE IfGetsCondition
  BY <1>4, Takes, GotoWithKeeps DEF IfGetsCondition
<1>5. CASE IfCloses
  BY <1>5, Takes, CallAtKeeps, RejectsKeeps DEF IfCloses, NextIs
<1>6. CASE IfGetsBody
  <2>1. Moves /\ ~Done /\ Top.at = "if.then" /\ ret.tag = "value"
    BY <1>6, Takes DEF IfGetsBody
  <2>2. CASE GotoWith("if.else")
    BY <2>1, <2>2, GotoWithKeeps
  <2>3. CASE ~GotoWith("if.else")
    <3>1. Return(Grown(Top.ast \o ret.ast, "ElifExpr", 2,
                       Combine(Top.area, Root(ret.ast).area)))
      BY <1>6, <2>3 DEF IfGetsBody
    <3>2. "ElifExpr" \in NodeKinds
      BY DEF NodeKinds, PartKinds
    <3> QED BY <2>1, <3>1, <3>2, PartsIn, ReturnNodeKeeps
  <2> QED BY <2>2, <2>3
<1>7. CASE IfGoesOn
  <2>1. ~Done /\ Top.at = "if.else"
    BY <1>7 DEF IfGoesOn
  <2>2. CASE Rejects
    BY <2>1, <2>2, RejectsKeeps
  <2>3. CASE ~Rejects
    <3>1. \/ Moves /\ Call("if.elif", "elif_expression")
          \/ Moves /\ Call("if.last", "expression_bp")
      BY <1>7, <2>3, Takes DEF IfGoesOn, NextIs
    <3> QED BY <2>1, <3>1, CallAtKeeps
  <2> QED BY <2>2, <2>3
<1>8. CASE IfGetsElif
  BY <1>8, Takes, GotoWithKeeps DEF IfGetsElif
<1>9. CASE IfReturns
  <2>1. Moves /\ ~Done /\ Top.at = "if.last" /\ ret.tag = "value"
    BY <1>9, Takes DEF IfReturns
  <2>2. "IfExpr" \in NodeKinds /\ Top.kids + 1 \in Nat
    BY <2>1, PartsIn DEF NodeKinds, StatementKinds, ExpressionKinds
  <2> QED BY <1>9, <2>1, <2>2, PartsIn, ReturnNodeKeeps DEF IfReturns
<1>10. CASE Swallows({"if.condition", "if.then", "if.elif", "if.last"})
  BY <1>10, SwallowsKeeps
<1> QED
  BY IfNext, <1>1, <1>2, <1>3, <1>4, <1>5, <1>6, <1>7, <1>8, <1>9, <1>10 DEF IfNext

LEMMA BlockKeeps ==
    ASSUME Inv, BlockNext
    PROVE  Inv' /\ read' = read /\ Moves
<1> USE DEF Labels, WithTree, WithArea, Looks, In, Gets, Fails
<1>1. CASE BlockStarts
  <2>1. ~Done
    BY <1>1 DEF BlockStarts
  <2>2. CASE Rejects
    BY <2>1, <2>2, RejectsKeeps
  <2>3. CASE ~Rejects
    <3> DEFINE frame == [Top EXCEPT !.at = "block_expression.loop", !.area = NextArea]
    <3>1. Moves /\ Peeked /\ Pop /\ Continue(frame)
      BY <1>1, <2>3, Takes DEF BlockStarts, NextIs
    <3>2. "block_expression.loop" \in Labels \ (WithTree \cup {"lhs.rhs"})
      OBVIOUS
    <3> HIDE DEF Labels, WithTree, WithArea
    <3>3. frame \in FramesAt(taken') /\ frame.start = Top.start
      BY <2>1, <3>1, <3>2, AreaFrameIn
    <3> HIDE DEF frame
    <3> QED BY <2>1, <3>1, <3>3, ContinueKeeps
  <2> QED BY <2>2, <2>3
<1>2. CASE BlockGoesOn
  BY <1>2, Takes, CallAtKeeps DEF BlockGoesOn, NextIs
<1>3. CASE BlockGetsStatement
  <2>1. Moves /\ ~Done /\ Top.at = "block.stmt" /\ ret.tag = "value"
        /\ (GotoWith("block.single") \/ GotoWith("block.separator"))
    BY <1>3, Takes DEF BlockGetsStatement
  <2> QED BY <2>1, GotoWithKeeps
<1>4. CASE SingleExpression
  <2>1. ~Done /\ Peeked /\ Pop /\ Top.at = "block.single"
    BY <1>4 DEF SingleExpression, NextIs
  <2>2. "BlockExpr" \in NodeKinds /\ Top.kids \in Nat
    BY <2>1, Takes, PartsIn DEF NodeKinds, StatementKinds, ExpressionKinds
  <2> QED BY <1>4, <2>1, <2>2, Takes, ReturnClosedKeeps DEF SingleExpression, BlockReturns
<1>5. CASE BlockSeparator
  <2>1. ~Done /\ Top.at \in {"block.single", "block.separator"}
    BY <1>5 DEF BlockSeparator
  <2>2. CASE Rejects
    BY <2>1, <2>2, RejectsKeeps
  <2>3. CASE ~Rejects
    BY <1>5, <2>1, <2>3, Takes, GotoKeeps DEF BlockSeparator, NextIn
  <2> QED BY <2>2, <2>3
<1>6. CASE BlockGetsExpression
  BY <1>6, Takes, GotoWithKeeps DEF BlockGetsExpression
<1>7. CASE BlockCloses
  <2>1. ~Done /\ Top.at = "block.close"
    BY <1>7 DEF BlockCloses
  <2>2. CASE Rejects
    BY <2>1, <2>2, RejectsKeeps
  <2>3. CASE ~Rejects
    <3>1. Moves /\ Peeked /\ Pop /\ BlockReturns
      BY <1>7, <2>3, Takes DEF BlockCloses, NextIs
    <3>2. "BlockExpr" \in NodeKinds /\ Top.kids \in Nat
      BY <2>1, <3>1, PartsIn DEF NodeKinds, StatementKinds, ExpressionKinds
    <3> QED BY <2>1, <3>1, <3>2, ReturnClosedKeeps DEF BlockReturns
  <2> QED BY <2>2, <2>3
<1>8. CASE Swallows({"block.stmt", "block.ret"})
  BY <1>8, SwallowsKeeps
<1> QED
  BY BlockNext, <1>1, <1>2, <1>3, <1>4, <1>5, <1>6, <1>7, <1>8 DEF BlockNext

LEMMA LParKeeps ==
    ASSUME Inv, LParNext
    PROVE  Inv' /\ read' = read /\ Moves
<1> USE DEF Labels, WithTree, WithArea, Looks, In, Gets, Fails
<1>1. CASE LParStarts
  <2>1. ~Done
    BY <1>1 DEF LParStarts
  <2>2. CASE Rejects
    BY <2>1, <2>2, RejectsKeeps
  <2>3. CASE ~Rejects
    <3> DEFINE frame == [Top EXCEPT !.at = "lpar.first", !.area = NextArea]
    <3>1. Moves /\ Peeked /\ Pop /\ CallFrom(frame, "expression_bp", 0)
      BY <1>1, <2>3, Takes DEF LParStarts, NextIs
    <3>2. /\ "lpar.first" \in Labels \ (WithTree \cup {"lhs.rhs"})
          /\ "expression_bp" \in Labels \ (WithTree \cup WithArea)
      OBVIOUS
    <3> HIDE DEF Labels, WithTree, WithArea
    <3>3. frame \in FramesAt(taken') /\ frame.start = Top.start
      BY <2>1, <3>1, <3>2, AreaFrameIn
    <3> HIDE DEF frame
    <3> QED BY <2>1, <3>1, <3>2, <3>3, CallKeeps
  <2> QED BY <2>2, <2>3
<1>2. CASE LParGetsFirst
  BY <1>2, Takes, GotoWithKeeps DEF LParGetsFirst
<1>3. CASE LParGrouped
  BY <1>3, Takes, GotoKeeps DEF LParGrouped, NextIs
<1>4. CASE LParList
  BY <1>4, Takes, GotoKeeps DEF LParList
<1>5. CASE LParNeither
  BY <1>5, RejectsKeeps DEF LParNeither
<1>6. CASE TupleGoesOn
  BY <1>6, Takes, CallAtKeeps DEF TupleGoesOn, NextIs
<1>7. CASE TupleGetsElement
  BY <1>7, Takes, GotoWithKeeps DEF TupleGetsElement
<1>8. CASE TupleEnds
  <2> DEFINE area == Combine(Top.area, NextArea)
             trees == Grown(Top.ast, "TupleExpr", Top.kids, area)
  <2>1. /\ Moves /\ ~Done /\ Peeked /\ Pop /\ Top.at = "tuple"
        /\ Continue([Top EXCEPT !.at = "try_lambda", !.ast = trees])
    BY <1>8, Takes DEF TupleEnds, NextIs
  <2>2. area \in AreasIn(Top.start, taken')
    BY <2>1, PartsIn, NextAreaIn, CombineIn
  <2> HIDE DEF area
  <2>3. trees \in TreesIn(Top.start, taken') /\ trees # <<>>
    BY <2>1, <2>2, PartsIn, GrownIn DEF NodeKinds, StatementKinds, ExpressionKinds
  <2>4. "try_lambda" \in Labels /\ Top.at \in WithArea
    BY <2>1
  <2> HIDE DEF trees, Labels, WithTree, WithArea
  <2> QED BY <2>1, <2>3, <2>4, TreesKeep
<1>9. CASE TupleBreaksOff
  BY <1>9, RejectsKeeps DEF TupleBreaksOff
<1>10. CASE NotALambda
  BY <1>10, Takes, PartsIn, ReturnKeeps DEF NotALambda
<1>11. CASE TryLambda
  BY <1>11, Takes, CallAtKeeps DEF TryLambda, NextIs
<1>12. CASE TryLambdaReturns
  <2>1. ~Done
    BY <1>12 DEF TryLambdaReturns
  <2>2. CASE Rejects
    BY <2>1, <2>2, RejectsKeeps
  <2>3. CASE ~Rejects
    <3> DEFINE parts == AsParameters(Elements) \o ret.ast
               arity == Len(Elements) + 1
    <3>1. /\ Moves /\ Top.at = "try_lambda.body" /\ ret.tag = "value"
          /\ Return(Grown(parts, "LambdaExpr", arity,
                          Combine(Top.area, Root(ret.ast).area)))
      BY <1>12, <2>3, Takes DEF TryLambdaReturns
    <3>2. Elements \in TreesIn(Top.start, taken')
      BY <2>1, <3>1, PartsIn, AllButLastIn DEF Elements
    <3>3. parts \in TreesIn(Top.start, taken')
      BY <2>1, <3>1, <3>2, PartsIn, ParametersIn, ConcatIn
    <3>4. arity \in Nat
      BY <3>2, LenProperties DEF TreesIn
    <3>5. "LambdaExpr" \in NodeKinds
      BY DEF NodeKinds, StatementKinds, ExpressionKinds
    <3> HIDE DEF parts, arity
    <3> QED BY <2>1, <3>1, <3>3, <3>4, <3>5, ReturnNodeKeeps
  <2> QED BY <2>2, <2>3
<1>13. CASE Swallows({"lpar.first", "tuple.elem", "try_lambda.body"})
  BY <1>13, SwallowsKeeps
<1>14. CASE TupleIsParameters
  BY <1>14, Takes, CallAtKeeps DEF TupleIsParameters, NextIs
<1>15. CASE ParamsGetType
  <2>1. ~Done
    BY <1>15 DEF ParamsGetType
  <2>2. CASE Rejects
    BY <2>1, <2>2, RejectsKeeps
  <2>3. CASE ~Rejects
    <3> DEFINE params == AsParameters(Top.ast)
               first == SubSeq(params, 1, Len(params) - 1)
               last == Grown(ret.ast, Root(params).kind, 1, Root(params).area)
               trees == first \o last
    <3>1. /\ Moves /\ Top.at = "params.type" /\ ret.tag = "value"
          /\ Continue([Top EXCEPT !.at = "params", !.ast = trees])
      BY <1>15, <2>3, Takes DEF ParamsGetType
    <3>2. params \in TreesIn(Top.start, taken') /\ params # <<>>
      BY <2>1, <3>1, PartsIn, ParametersIn
    <3> HIDE DEF params
    <3>3. first \in TreesIn(Top.start, taken')
      BY <2>1, <3>1, <3>2, PartsIn, AllButLastIn
    <3>4. /\ Root(params).kind \in NodeKinds
          /\ Root(params).area \in AreasIn(Top.start, taken')
      BY <2>1, <3>1, <3>2, PartsIn, RootIn
    <3>5. last \in TreesIn(Top.start, taken') /\ last # <<>>
      BY <2>1, <3>1, <3>4, PartsIn, GrownIn
    <3> HIDE DEF first, last
    <3>6. trees \in TreesIn(Top.start, taken') /\ trees # <<>>
      BY <2>1, <3>1, <3>3, <3>5, PartsIn, ConcatIn
    <3>7. "params" \in Labels /\ Top.at \in WithArea
      BY <3>1
    <3> HIDE DEF trees, Labels, WithTree, WithArea
    <3> QED BY <2>1, <3>1, <3>6, <3>7, TreesKeep
  <2> QED BY <2>2, <2>3
<1>16. CASE ParamsGoOn
  BY <1>16, Takes, GotoKeeps DEF ParamsGoOn, NextIs
<1>17. CASE ParamsEnd
  BY <1>17, Takes, GotoKeeps, RejectsKeeps DEF ParamsEnd, NextIs
<1>18. CASE ParamStarts
  <2>1. ~Done /\ Top.at = "lambda_parameter"
    BY <1>18 DEF ParamStarts
  <2>2. CASE Rejects
    BY <2>1, <2>2, RejectsKeeps
  <2>3. CASE ~Rejects
    <3> DEFINE trees == Top.ast \o Leaf("LambdaParameter", NextArea)
               kids == Top.kids + 1
               frame == [Top EXCEPT !.at = "lambda_parameter.colon", !.kids = kids,
                                    !.ast = trees]
    <3>1. Moves /\ Peeked /\ Pop /\ Continue(frame)
      BY <1>18, <2>3, Takes DEF ParamStarts, NextIs
    <3>2. /\ Leaf("LambdaParameter", NextArea) \in TreesIn(Top.start, taken')
          /\ Leaf("LambdaParameter", NextArea) # <<>>
      BY <2>1, <3>1, PartsIn, NextAreaIn, LeafIn DEF NodeKinds, PartKinds
    <3>3. trees \in TreesIn(Top.start, taken') /\ trees # <<>>
      BY <2>1, <3>1, <3>2, PartsIn, ConcatIn
    <3>4. kids \in Nat
      BY <2>1, <3>1, PartsIn
    <3> HIDE DEF trees, kids
    <3>5. frame = FrameWith("lambda_parameter.colon", Top.tok, Top.area, trees, kids)
      BY <2>1, Running DEF FrameWith, Frame
    <3>6. "lambda_parameter.colon" \in Labels /\ Top.at \in WithArea
      BY <2>1
    <3> HIDE DEF Labels, WithTree, WithArea, frame
    <3>7. frame \in FramesAt(taken') /\ frame.start = Top.start
      BY <2>1, <3>1, <3>3, <3>4, <3>5, <3>6, PartsIn, FrameWithIn
    <3> QED BY <2>1, <3>1, <3>7, ContinueKeeps
  <2> QED BY <2>2, <2>3
<1>19. CASE ParamColon
  BY <1>19, Takes, CallAtKeeps, GotoKeeps DEF ParamColon, NextIs
<1>20. CASE ParamGetsType
  <2> DEFINE first == SubSeq(Top.ast, 1, Len(Top.ast) - 1)
             area == Combine(Root(Top.ast).area, Root(ret.ast).area)
             last == Grown(ret.ast, "LambdaParameter", 1, area)
             trees == first \o last
  <2>1. /\ Moves /\ ~Done /\ Top.at = "lambda_parameter.type" /\ ret.tag = "value"
        /\ Continue([Top EXCEPT !.at = "params", !.ast = trees])
    BY <1>20, Takes DEF ParamGetsType
  <2>2. first \in TreesIn(Top.start, taken')
    BY <2>1, PartsIn, AllButLastIn
  <2>3. area \in AreasIn(Top.start, taken')
    BY <2>1, PartsIn, CombineIn
  <2> HIDE DEF first, area
  <2>4. last \in TreesIn(Top.start, taken') /\ last # <<>>
    BY <2>1, <2>3, PartsIn, GrownIn DEF NodeKinds, PartKinds
  <2> HIDE DEF last
  <2>5. trees \in TreesIn(Top.start, taken') /\ trees # <<>>
    BY <2>1, <2>2, <2>4, PartsIn, ConcatIn
  <2>6. "params" \in Labels /\ Top.at \in WithArea
    BY <2>1
  <2> HIDE DEF trees, Labels, WithTree, WithArea
  <2> QED BY <2>1, <2>5, <2>6, TreesKeep
<1>21. CASE ParamsArrow
  BY <1>21, Takes, CallAtKeeps, RejectsKeeps DEF ParamsArrow, NextIs
<1>22. CASE ParamsReturn
  <2>1. Moves /\ ~Done /\ Top.at = "params.body" /\ ret.tag = "value"
    BY <1>22, Takes DEF ParamsReturn
  <2>2. "LambdaExpr" \in NodeKinds /\ Top.kids + 1 \in Nat
    BY <2>1, PartsIn DEF NodeKinds, StatementKinds, ExpressionKinds
  <2> QED BY <1>22, <2>1, <2>2, PartsIn, ReturnNodeKeeps DEF ParamsReturn
<1>23. CASE Swallows({"params.type", "lambda_parameter.type", "params.body"})
  BY <1>23, SwallowsKeeps
<1> QED
  BY LParNext, <1>1, <1>2, <1>3, <1>4, <1>5, <1>6, <1>7, <1>8, <1>9, <1>10, <1>11,
     <1>12, <1>13, <1>14, <1>15, <1>16, <1>17, <1>18, <1>19, <1>20, <1>21, <1>22,
     <1>23 DEF LParNext, UntypedNext, TypedNext

LEMMA StatementKeeps ==
    ASSUME Inv, StatementNext
    PROVE  Inv' /\ read' = read /\ Moves
<1> USE DEF Labels, WithTree, WithArea, Looks, In, Gets, Fails
<1>1. CASE StatementIsLet
  BY <1>1, Takes, CallAtKeeps DEF StatementIsLet
<1>2. CASE StatementIsLoop
  BY <1>2, Takes, CallAtKeeps DEF StatementIsLoop, NextIn
<1>3. CASE StatementGetsCondition
  BY <1>3, Takes, CallAtKeeps DEF StatementGetsCondition
<1>4. CASE StatementIsFor
  BY <1>4, Takes, GotoKeeps DEF StatementIsFor, NextIs
<1>5. CASE StatementIsExpression
  BY <1>5, Takes, CallAtKeeps DEF StatementIsExpression
<1>6. CASE StatementReturns
  BY <1>6, Takes, PartsIn, ReturnKeeps DEF StatementReturns
<1>7. CASE ForOpens
  <2>1. ~Done
    BY <1>7 DEF ForOpens
  <2>2. CASE Rejects
    BY <2>1, <2>2, RejectsKeeps
  <2>3. CASE ~Rejects
    <3> DEFINE frame == [Top EXCEPT !.at = "for.elems", !.tok = NextToken]
    <3>1. Moves /\ Peeked /\ Pop /\ Continue(frame)
      BY <1>7, <2>3, Takes DEF ForOpens, NextIn
    <3>2. frame = FrameWith("for.elems", NextToken, Top.area, Top.ast, Top.kids)
      BY <2>1, Running DEF FrameWith, Frame
    <3>3. "for.elems" \in Labels \ (WithTree \cup WithArea)
      OBVIOUS
    <3> HIDE DEF Labels, WithTree, WithArea, frame
    <3>4. frame \in FramesAt(taken') /\ frame.start = Top.start
      BY <2>1, <3>1, <3>2, <3>3, NextAreaIn, PartsIn, FrameWithIn
    <3> QED BY <2>1, <3>1, <3>4, ContinueKeeps
  <2> QED BY <2>2, <2>3
<1>8. CASE ForElements
  BY <1>8, Takes, CallAtKeeps DEF ForElements
<1>9. CASE ForGetsElement
  BY <1>9, Takes, GotoWithKeeps DEF ForGetsElement
<1>10. CASE ForCloses
  BY <1>10, Takes, CallAtKeeps, RejectsKeeps DEF ForCloses, NextIs
<1>11. CASE ForElement
  <2>1. ~Done
    BY <1>11 DEF ForElement
  <2>2. CASE Rejects
    BY <2>1, <2>2, RejectsKeeps
  <2>3. CASE ~Rejects
    <3> DEFINE frame == [Top EXCEPT !.at = "for_element.which", !.area = NextArea]
    <3>1. Moves /\ Peeked /\ Pop /\ Continue(frame)
      BY <1>11, <2>3, Takes DEF ForElement, NextIs
    <3>2. "for_element.which" \in Labels \ (WithTree \cup {"lhs.rhs"})
      OBVIOUS
    <3> HIDE DEF Labels, WithTree, WithArea
    <3>3. frame \in FramesAt(taken') /\ frame.start = Top.start
      BY <2>1, <3>1, <3>2, AreaFrameIn
    <3> HIDE DEF frame
    <3> QED BY <2>1, <3>1, <3>3, ContinueKeeps
  <2> QED BY <2>2, <2>3
<1>12. CASE ForElementWhich
  <2>1. ~Done /\ Top.at = "for_element.which"
    BY <1>12 DEF ForElementWhich
  <2>2. CASE Rejects
    BY <2>1, <2>2, RejectsKeeps
  <2>3. CASE ~Rejects
    <3> DEFINE frame == [Top EXCEPT !.at = "for_element.rhs", !.tok = NextToken]
    <3>1. Moves /\ Peeked /\ Pop /\ CallFrom(frame, "expression_bp", 0)
      BY <1>12, <2>3, Takes DEF ForElementWhich, NextIn
    <3>2. frame = FrameWith("for_element.rhs", NextToken, Top.area, Top.ast, Top.kids)
      BY <2>1, Running DEF FrameWith, Frame
    <3>3. /\ "for_element.rhs" \in Labels \ WithTree /\ Top.at \in WithArea
          /\ "expression_bp" \in Labels \ (WithTree \cup WithArea)
      BY <2>1
    <3> HIDE DEF Labels, WithTree, WithArea, frame
    <3>4. frame \in FramesAt(taken') /\ frame.start = Top.start
      BY <2>1, <3>1, <3>2, <3>3, NextAreaIn, PartsIn, FrameWithIn
    <3> QED BY <2>1, <3>1, <3>3, <3>4, CallKeeps
  <2> QED BY <2>2, <2>3
<1>13. CASE ForElementReturns
  <2> DEFINE kind == IF Top.tok = "ASSIGN" THEN "ForLetElement" ELSE "ForMonadicElement"
  <2>1. /\ Moves /\ ~Done /\ Top.at = "for_element.rhs" /\ ret.tag = "value"
        /\ Return(Grown(ret.ast, kind, 1, Combine(Top.area, Root(ret.ast).area)))
    BY <1>13, Takes DEF ForElementReturns
  <2>2. kind \in NodeKinds
    BY DEF NodeKinds, PartKinds
  <2> HIDE DEF kind
  <2> QED BY <2>1, <2>2, PartsIn, ReturnNodeKeeps
<1>14. CASE BlockOpens
  BY <1>14, Takes, CallAtKeeps, RejectsKeeps DEF BlockOpens, NextIs
<1>15. CASE ListGetsStatement
  BY <1>15, Takes, GotoWithKeeps DEF ListGetsStatement
<1>16. CASE ListSeparator
  <2>1. ~Done /\ NullOpt \in Error
    BY <1>16 DEF ListSeparator, NullOpt, Error
  <2> QED BY <1>16, <2>1, Takes, CallAtKeeps, PopNothingKeeps, ErrorKeeps DEF ListSeparator
<1>17. CASE Let
  <2>1. ~Done
    BY <1>17 DEF Let
  <2>2. CASE Keep /\ ReturnError(Unexpected)
    BY <2>1, <2>2, UnexpectedKeeps
  <2>3. CASE ~(Keep /\ ReturnError(Unexpected))
    <3> DEFINE frame == [Top EXCEPT !.at = "let.identifier", !.area = NextArea]
    <3>1. Moves /\ Peeked /\ Pop /\ Continue(frame)
      BY <1>17, <2>3, Takes DEF Let, NextIs
    <3>2. "let.identifier" \in Labels \ (WithTree \cup {"lhs.rhs"})
      OBVIOUS
    <3> HIDE DEF Labels, WithTree, WithArea
    <3>3. frame \in FramesAt(taken') /\ frame.start = Top.start
      BY <2>1, <3>1, <3>2, AreaFrameIn
    <3> HIDE DEF frame
    <3> QED BY <2>1, <3>1, <3>3, ContinueKeeps
  <2> QED BY <2>2, <2>3
<1>18. CASE LetIdentifier
  BY <1>18, Takes, GotoKeeps, UnexpectedKeeps DEF LetIdentifier, NextIs
<1>19. CASE LetColon
  BY <1>19, Takes, CallAtKeeps, GotoKeeps DEF LetColon, NextIs
<1>20. CASE LetGetsType
  BY <1>20, Takes, GotoWithKeeps DEF LetGetsType
<1>21. CASE LetAssign
  <2> DEFINE error == [what |-> "UnexpectedToken", at |-> Top.start + 1]
  <2>1. ~Done /\ Top.at = "let.assign" /\ error \in Error
    BY <1>21, Running DEF LetAssign, Error
  <2>2. CASE PopNothing
    BY <2>2, PopNothingKeeps
  <2>3. CASE Peeked /\ Pop /\ ReturnError(error)
    BY <2>1, <2>3, Takes, ErrorKeeps
  <2>4. CASE NextIs("ASSIGN") /\ Pop /\ Call("let.rhs", "expression_bp")
    BY <2>1, <2>4, Takes, CallAtKeeps DEF NextIs
  <2> QED BY <1>21, <2>2, <2>3, <2>4 DEF LetAssign
<1>22. CASE LetReturns
  <2>1. Moves /\ ~Done /\ Top.at = "let.rhs" /\ ret.tag = "value"
    BY <1>22, Takes DEF LetReturns
  <2>2. "LetAssignment" \in NodeKinds /\ Top.kids + 1 \in Nat
    BY <2>1, PartsIn DEF NodeKinds, StatementKinds
  <2> QED BY <1>22, <2>1, <2>2, PartsIn, ReturnNodeKeeps DEF LetReturns
<1>23. CASE LetPropagates
  BY <1>23, PropagatesKeeps DEF LetPropagates
<1>24. CASE Swallows({"statement.let", "statement.condition", "statement.body",
                      "statement.expression", "for.elem", "for_element.rhs",
                      "stmt_list.stmt"})
  BY <1>24, SwallowsKeeps
<1> QED
  BY StatementNext, <1>1, <1>2, <1>3, <1>4, <1>5, <1>6, <1>7, <1>8, <1>9, <1>10, <1>11,
     <1>12, <1>13, <1>14, <1>15, <1>16, <1>17, <1>18, <1>19, <1>20, <1>21, <1>22,
     <1>23, <1>24 DEF StatementNext, LetNext

-----------------------------------------------------------------------------
(* The theorems *)

LEMMA ParserKeeps ==
    ASSUME Inv, ParserNext
    PROVE  Inv' /\ read' = read /\ Moves
BY TypeKeeps, ExpressionKeeps, SimpleExpressionKeeps, IfKeeps, BlockKeeps, LParKeeps,
   StatementKeeps DEF ParserNext

(* What reading the next token adds to the stream *)
LEMMA LexReads ==
    ASSUME Inv, LexNext
    PROVE  /\ taken' = taken
           /\ read' = read \/ \E type \in TokenTypes : read' = Append(read, type)
<1>1. Alphabet \subseteq TokenTypes /\ "END_OF_FILE" \in TokenTypes
  BY AlphabetAssumption DEF TokenTypes
<1> QED BY <1>1 DEF LexNext

LEMMA LexKeeps ==
    ASSUME Inv, LexNext
    PROVE  Inv'
<1>1. read' \in Seq(TokenTypes) /\ taken' \in 0 .. Len(read')
  <2>1. taken \in 0 .. Len(read) /\ Len(read) \in Nat /\ read \in Seq(TokenTypes)
    BY LenProperties DEF Inv
  <2> QED BY <2>1, LexReads, AppendProperties
<1>2. /\ stuck' \in BOOLEAN /\ taken' = taken /\ undefined' = undefined
      /\ dropped' = dropped /\ stack' = stack /\ ret' = ret
  BY DEF LexNext, Inv
<1> QED BY <1>1, <1>2 DEF Inv, Top

LEMMA InitKeeps == Init => Inv
<1> SUFFICES ASSUME NEW entry \in Entries, Starting(entry) PROVE Inv
  BY DEF Init
<1>1. entry \in Labels \ (WithTree \cup WithArea)
  BY EntriesAssumption DEF Labels, WithTree, WithArea
<1>2. NewFrame(entry, 0, 0) \in FramesAt(0)
  BY <1>1, NewFrameIn
<1>3. read = <<>> /\ taken = 0 /\ ret = NoResult /\ stack = <<NewFrame(entry, 0, 0)>>
      /\ stuck \in BOOLEAN /\ undefined \in BOOLEAN /\ dropped \in BOOLEAN
  BY DEF Starting
<1>4. stack \in Seq(FramesAt(0)) /\ Len(stack) = 1
  BY <1>2, <1>3
<1>5. NoResult \in ResultsAt(0) /\ NoResult.tag = "none"
  BY DEF NoResult, ResultsAt, Result, Error, NullOpt, Tree
<1> QED BY <1>3, <1>4, <1>5 DEF Inv

LEMMA InvHolds == Spec => []Inv
<1>1. Inv /\ [Next]_vars => Inv'
  <2> SUFFICES ASSUME Inv, [Next]_vars PROVE Inv'
    OBVIOUS
  <2>1. CASE UNCHANGED vars
    BY <2>1 DEF vars, Inv, Top
  <2>2. CASE LexNext
    BY <2>2, LexKeeps
  <2>3. CASE ParserNext
    BY <2>3, ParserKeeps
  <2> QED BY <2>1, <2>2, <2>3 DEF Next
<1> QED BY <1>1, InitKeeps, PTL DEF Spec

(* The parser's state keeps its types, for every source and whichever      *)
(* method is called: the tokens taken are tokens that were read, every     *)
(* frame is at a step of some method, and every node is of a kind the      *)
(* syntax tree has.                                                        *)
THEOREM ParserTypeCorrect == Spec => []CoreTypeOK
<1>1. Inv => CoreTypeOK
  <2> SUFFICES ASSUME Inv PROVE CoreTypeOK
    OBVIOUS
  <2>1. stack \in Seq(Frame)
    <3>1. FramesAt(taken) \subseteq Frame
      BY DEF FramesAt
    <3> QED BY <3>1, SeqMonotonic DEF Inv
  <2>2. ret \in Result
    BY DEF Inv, ResultsAt
  <2> QED BY <2>1, <2>2 DEF Inv, CoreTypeOK
<1> QED BY <1>1, InvHolds, PTL

(* Every node a method returns, be it the innermost, covers at least one   *)
(* of the tokens the method took, and no other.                            *)
THEOREM NodesCoverTheirTokens == Spec => []AreasWithin
<1>1. Inv => AreasWithin
  <2> SUFFICES ASSUME Inv, ret.tag = "value", NEW i \in DOMAIN ret.ast
               PROVE  /\ ret.ast[i].area.start < ret.ast[i].area.end
                      /\ Covers([start |-> ret.start, end |-> taken], ret.ast[i].area)
    BY DEF AreasWithin
  <2>1. ret.ast \in Seq(NodesIn(ret.start, taken))
    BY DEF Inv, ResultsAt, TreesIn
  <2>2. ret.ast[i] \in NodesIn(ret.start, taken)
    BY <2>1, LenProperties, ElementOfSeq
  <2> QED BY <2>2 DEF NodesIn, AreasIn, Covers
<1> QED BY <1>1, InvHolds, PTL

(* Reading one more token yields it; taking the next one delivers it.      *)
LEMMA YieldsTheNext ==
    ASSUME Inv, NEW type \in TokenTypes, read' = Append(read, type), taken' = taken
    PROVE  Source!Produce
<1>1. /\ read \in Seq(TokenTypes) /\ Len(read) \in Nat /\ taken \in 0 .. Len(read)
  BY LenProperties DEF Inv
<1>2. /\ Append(read, type) \in Seq(TokenTypes)
      /\ Len(Append(read, type)) = Len(read) + 1
      /\ \A i \in 1 .. Len(read) : Append(read, type)[i] = read[i]
  BY <1>1, AppendProperties
<1>3. ASSUME NEW n \in 0 .. Len(read)
      PROVE  SubSeq(Append(read, type), 1, n) = SubSeq(read, 1, n)
  BY <1>1, <1>2, <1>3
<1>4. SubSeq(read, 1, Len(read)) = read
  BY <1>1, SubSeqFull
<1> QED BY <1>1, <1>2, <1>3, <1>4 DEF Source!Produce, Source!Yield

LEMMA TakesTheNext ==
    ASSUME Inv, Peeked, taken' = taken + 1, read' = read
    PROVE  Source!Take
<1>1. read \in Seq(TokenTypes) /\ Len(read) \in Nat /\ taken \in Nat /\ taken < Len(read)
  BY LenProperties DEF Inv, Peeked
<1>2. \A i \in 1 .. taken : read[i] \in TokenTypes
  BY <1>1, ElementOfSeq
<1>3. SubSeq(read, 1, taken) \in Seq(TokenTypes) /\ Len(SubSeq(read, 1, taken)) = taken
  BY <1>1, <1>2, SubSeqProperties
<1>4. read[taken + 1] \in TokenTypes
  BY <1>1, ElementOfSeq
<1>5. SubSeq(read, 1, taken + 1) = SubSeq(read, 1, taken) \o <<read[taken + 1]>>
  <2>1. taken + 1 \in 1 .. Len(read) /\ 1 \in 1 .. Len(read) /\ (taken + 1) - 1 = taken
    BY <1>1
  <2> QED BY <1>1, <2>1, SubSeqRecursiveSecond
<1>6. SubSeq(read, 1, taken + 1) = Append(SubSeq(read, 1, taken), read[taken + 1])
  BY <1>3, <1>4, <1>5, AppendIsConcat
<1> QED BY <1>1, <1>3, <1>6 DEF Source!Take

(* The parser reads its source as the Lexer's token stream: every token    *)
(* once and in order.  No alternative gives a token back or skips one.     *)
THEOREM ReadsTheStream == Spec => ReadsAStream
<1>1. Init => Source!Init
  BY DEF Init, Starting, Source!Init
<1>2. Inv /\ [Next]_vars => [Source!Next]_(Source!vars)
  <2> SUFFICES ASSUME Inv, [Next]_vars PROVE [Source!Next]_(Source!vars)
    OBVIOUS
  <2> USE DEF Source!Next, Source!vars
  <2>1. CASE read' = read /\ taken' = taken
    BY <2>1
  <2>2. CASE LexNext
    BY <2>1, <2>2, LexReads, YieldsTheNext
  <2>3. CASE ParserNext
    BY <2>1, <2>3, ParserKeeps, TakesTheNext DEF Moves
  <2> QED BY <2>1, <2>2, <2>3 DEF Next, vars
<1> QED BY <1>1, <1>2, InvHolds, PTL DEF Spec, ReadsAStream, Source!Spec
=============================================================================
