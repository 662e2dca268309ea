-------------------------- MODULE ParserNest_proofs --------------------------
(***************************************************************************)
(* Proofs about the areas of the trees the Parser builds, for every source *)
(* and every public method: a node's area covers those of all nodes below  *)
(* it.                                                                     *)
(*                                                                         *)
(* A method makes the area of a node of two others: of the token it began  *)
(* at or the tree it started from, and of the token or the tree it ends    *)
(* with.  That these two are the outermost ones is what the invariant says.*)
(***************************************************************************)
EXTENDS Parser_proofs

-----------------------------------------------------------------------------
(* The invariant *)

(* Every node but a parameter covers the nodes below it. *)
Nested(trees) ==
    \A i \in 1 .. Len(trees) :
        /\ trees[i].size \in 1 .. i
        /\ trees[i].kind # "LambdaParameter" =>
               \A j \in Below(trees, i) : Covers(trees[i].area, trees[j].area)

Spans(area, trees) == \A i \in 1 .. Len(trees) : Covers(area, trees[i].area)

(* Trees as a method returns them: the last root covers them all.          *)
Whole(trees) == trees # <<>> /\ Nested(trees) /\ Spans(Root(trees).area, trees)

(* Where a method has built nothing yet *)
Blank ==
    {"type", "type.started", "compound_type", "compound_type.first",
     "expression_bp", "expression_bp.lhs", "lhs.rhs",
     "if_expression", "elif_expression", "block_expression",
     "l_par_expression", "lpar.first", "for_element", "let"}

(* Where it has built one tree, be it to return it or to start another     *)
(* with it                                                                 *)
Single ==
    {"type.suffix", "type.arrow", "compound_type.which", "expression_bp.loop",
     "expression_bp.rhs", "simple_lambda", "simple_lambda.body", "lpar.next",
     "try_lambda", "try_lambda.body"}

(* Where it lists names, one behind the other *)
Naming == {"named_type", "named_type.next"}

Fine(f) ==
    /\ Nested(f.ast)
    /\ f.at \in Blank => f.ast = <<>>
    /\ f.at \in Single => Whole(f.ast)
    /\ f.at \in WithArea => \A i \in 1 .. Len(f.ast) : f.area.start <= f.ast[i].area.start
    /\ f.at \in Naming =>
           \A i \in 1 .. Len(f.ast) :
               /\ f.ast[1].area.start <= f.ast[i].area.start
               /\ f.ast[i].area.end <= Root(f.ast).area.end

(* What a caller has built and remembers lies before the tokens of the     *)
(* method it called, also when that has just returned.                     *)
Apart ==
    /\ \A i \in 1 .. Len(stack) - 1 : stack[i] \in FramesAt(stack[i + 1].start)
    /\ ret.tag # "none" /\ stack # <<>> => Top \in FramesAt(ret.start)

NestInv ==
    /\ Inv
    /\ \A i \in 1 .. Len(stack) : Fine(stack[i])
    /\ Apart
    /\ ret.tag = "value" => Whole(ret.ast)

-----------------------------------------------------------------------------
(* Trees *)

LEMMA CombineCovers ==
    ASSUME NEW first \in Area, NEW second \in Area, NEW inner \in Area,
           Covers(first, inner) \/ Covers(second, inner)
    PROVE  Covers(Combine(first, second), inner)
BY DEF Covers, Combine, Area

LEMMA NoneNested == Nested(<<>>)
BY DEF Nested

LEMMA LeafWhole ==
    ASSUME NEW kind, NEW area \in Area
    PROVE  Whole(Leaf(kind, area))
<1> DEFINE leaf == [kind |-> kind, arity |-> 0, size |-> 1, area |-> area]
<1>1. /\ Leaf(kind, area) = <<leaf>> /\ Len(<<leaf>>) = 1 /\ <<leaf>>[1] = leaf
      /\ <<leaf>> # <<>>
  BY DEF Leaf
<1>2. Covers(area, area) /\ leaf.size = 1 /\ leaf.area = area
  BY DEF Covers, Area
<1> HIDE DEF leaf
<1>3. \A i \in 1 .. 1 : i = 1
  OBVIOUS
<1>4. Below(<<leaf>>, 1) = 1 .. 1
  BY <1>1, <1>2 DEF Below
<1> QED BY <1>1, <1>2, <1>3, <1>4 DEF Whole, Nested, Spans, Root

LEMMA ConcatNested ==
    ASSUME NEW left \in Tree, NEW right \in Tree, Nested(left), Nested(right)
    PROVE  Nested(left \o right)
<1> DEFINE trees == left \o right
           n == Len(left)
<1>1. /\ n \in Nat /\ Len(right) \in Nat /\ Len(trees) = n + Len(right)
      /\ \A i \in 1 .. Len(trees) : trees[i] = IF i <= n THEN left[i] ELSE right[i - n]
  BY ConcatIs
<1> HIDE DEF trees, n
<1> SUFFICES ASSUME NEW i \in 1 .. Len(trees)
             PROVE  /\ trees[i].size \in 1 .. i
                    /\ trees[i].kind # "LambdaParameter" =>
                           \A j \in Below(trees, i) : Covers(trees[i].area, trees[j].area)
  BY DEF Nested, trees
<1>2. CASE i <= n
  <2>1. i \in 1 .. Len(left) /\ trees[i] = left[i] /\ left[i].size \in 1 .. i
    BY <1>1, <1>2 DEF n, Nested
  <2>2. Below(trees, i) = Below(left, i)
    BY <2>1 DEF Below
  <2>3. \A j \in Below(left, i) : trees[j] = left[j]
    BY <1>1, <2>1 DEF Below, n
  <2> QED BY <2>1, <2>2, <2>3 DEF Nested
<1>3. CASE ~(i <= n)
  <2>1. /\ i - n \in 1 .. Len(right) /\ trees[i] = right[i - n]
        /\ right[i - n].size \in 1 .. i - n
    BY <1>1, <1>3 DEF Nested
  <2>2. \A j \in Below(trees, i) : j - n \in Below(right, i - n) /\ trees[j] = right[j - n]
    BY <1>1, <2>1 DEF Below
  <2>3. right[i - n].size \in 1 .. i
    BY <1>1, <2>1
  <2> QED BY <2>1, <2>2, <2>3 DEF Nested
<1> QED BY <1>2, <1>3

LEMMA ConcatSpans ==
    ASSUME NEW left \in Tree, NEW right \in Tree, NEW area,
           Spans(area, left), Spans(area, right)
    PROVE  Spans(area, left \o right)
<1>1. /\ Len(left) \in Nat /\ Len(right) \in Nat
      /\ Len(left \o right) = Len(left) + Len(right)
      /\ \A i \in 1 .. Len(left \o right) :
             (left \o right)[i] = IF i <= Len(left) THEN left[i] ELSE right[i - Len(left)]
  BY ConcatIs
<1>2. \A i \in 1 .. Len(left \o right) : i \in 1 .. Len(left) \/ i - Len(left) \in 1 .. Len(right)
  BY <1>1
<1> QED BY <1>1, <1>2 DEF Spans

LEMMA SpansMore ==
    ASSUME NEW trees \in Tree, NEW first \in Area, NEW second \in Area,
           Spans(first, trees) \/ Spans(second, trees)
    PROVE  Spans(Combine(first, second), trees)
BY NodesOf, CombineCovers DEF Spans

(* From where trees begin to where they end *)
LEMMA FromTo ==
    ASSUME NEW trees \in Tree, NEW first \in Area, NEW last \in Area,
           \A i \in 1 .. Len(trees) : /\ first.start <= trees[i].area.start
                                      /\ trees[i].area.end <= last.end
    PROVE  Combine(first, last) \in Area /\ Spans(Combine(first, last), trees)
<1> DEFINE area == Combine(first, last)
<1>1. area \in Area /\ area.start <= first.start /\ last.end <= area.end
  BY DEF Combine, Area
<1> HIDE DEF area
<1>2. Spans(area, trees)
  <2> SUFFICES ASSUME NEW i \in 1 .. Len(trees) PROVE Covers(area, trees[i].area)
    BY DEF Spans
  <2>1. /\ trees[i].area \in Area /\ first.start <= trees[i].area.start
        /\ trees[i].area.end <= last.end
    BY NodesOf
  <2> QED BY <1>1, <2>1 DEF Covers, Area
<1> QED BY <1>1, <1>2 DEF area

(* A node on top of trees, which its area spans unless it is a parameter *)
LEMMA GrownNested ==
    ASSUME NEW trees \in Tree, Nested(trees), NEW area \in Area,
           NEW kind, NEW arity,
           kind = "LambdaParameter" \/ Spans(area, trees)
    PROVE  LET grown == Grown(trees, kind, arity, area) IN
           /\ grown # <<>> /\ Len(grown) = Len(trees) + 1
           /\ Root(grown).area = area
           /\ \A i \in 1 .. Len(trees) : grown[i] = trees[i]
           /\ Nested(grown)
<1> DEFINE grown == Grown(trees, kind, arity, area)
           n == Len(trees)
           node == [kind |-> kind, arity |-> arity, size |-> n + 1, area |-> area]
<1>1. n \in Nat /\ grown = Append(trees, node)
  BY NodesOf DEF Grown
<1>2. node.kind = kind /\ node.size = n + 1 /\ node.area = area
  OBVIOUS
<1> HIDE DEF node
<1>3. /\ Len(grown) = n + 1 /\ grown[n + 1] = node
      /\ \A i \in 1 .. n : grown[i] = trees[i]
  BY <1>1, AppendProperties DEF Tree
<1>4. grown # <<>>
  BY <1>1, <1>3
<1> HIDE DEF grown, n
<1>5. Nested(grown)
  <2> SUFFICES ASSUME NEW i \in 1 .. n + 1
               PROVE  /\ grown[i].size \in 1 .. i
                      /\ grown[i].kind # "LambdaParameter" =>
                           \A j \in Below(grown, i) : Covers(grown[i].area, grown[j].area)
    BY <1>3 DEF Nested
  <2>1. CASE i \in 1 .. n
    <3>1. grown[i] = trees[i] /\ trees[i].size \in 1 .. i
      BY <1>3, <2>1 DEF Nested, n
    <3>2. Below(grown, i) = Below(trees, i)
      BY <3>1 DEF Below
    <3>3. \A j \in Below(trees, i) : grown[j] = trees[j]
      BY <1>1, <1>3, <2>1, <3>1 DEF Below
    <3> QED BY <2>1, <3>1, <3>2, <3>3 DEF Nested, n
  <2>2. CASE i = n + 1
    <3>1. Covers(area, area)
      BY DEF Covers, Area
    <3>2. \A j \in 1 .. n + 1 : j \in 1 .. n \/ j = n + 1
      BY <1>1
    <3>3. Below(grown, n + 1) = 1 .. n + 1
      BY <1>1, <1>2, <1>3 DEF Below
    <3>4. grown[n + 1].size \in 1 .. n + 1
      BY <1>1, <1>2, <1>3
    <3> QED BY <1>2, <1>3, <2>2, <3>1, <3>2, <3>3, <3>4 DEF Spans, n
  <2>3. i \in 1 .. n \/ i = n + 1
    BY <1>1
  <2> QED BY <2>1, <2>2, <2>3
<1> QED BY <1>2, <1>3, <1>4, <1>5 DEF Root, grown, n

LEMMA GrownWhole ==
    ASSUME NEW trees \in Tree, Nested(trees), NEW area \in Area, Spans(area, trees),
           NEW kind, NEW arity
    PROVE  Whole(Grown(trees, kind, arity, area))
<1> DEFINE grown == Grown(trees, kind, arity, area)
           n == Len(trees)
<1>1. /\ grown # <<>> /\ Len(grown) = n + 1 /\ n \in Nat
      /\ Root(grown).area = area /\ grown[n + 1].area = area
      /\ \A i \in 1 .. n : grown[i] = trees[i]
      /\ Nested(grown)
  BY GrownNested, NodesOf DEF Root
<1> HIDE DEF grown, n
<1>2. Spans(area, grown)
  <2> SUFFICES ASSUME NEW i \in 1 .. n + 1 PROVE Covers(area, grown[i].area)
    BY <1>1 DEF Spans
  <2>1. i \in 1 .. n \/ i = n + 1
    BY <1>1
  <2>2. Covers(area, area)
    BY DEF Covers, Area
  <2> QED BY <1>1, <2>1, <2>2 DEF Spans, n
<1> QED BY <1>1, <1>2 DEF Whole, grown

LEMMA ParametersNested ==
    ASSUME NEW trees \in Tree, Nested(trees)
    PROVE  LET params == AsParameters(trees) IN
           /\ Len(params) = Len(trees) /\ DOMAIN params = DOMAIN trees
           /\ \A i \in 1 .. Len(trees) :
                  /\ params[i].area = trees[i].area /\ params[i].kind = "LambdaParameter"
                  /\ params[i].size = trees[i].size
           /\ Nested(params)
<1> DEFINE params == AsParameters(trees)
<1>1. /\ Len(trees) \in Nat /\ DOMAIN trees = 1 .. Len(trees)
      /\ \A i \in 1 .. Len(trees) : trees[i] \in Node
  BY NodesOf, LenProperties DEF Tree
<1>2. /\ DOMAIN params = 1 .. Len(trees)
      /\ \A i \in 1 .. Len(trees) : params[i] = [trees[i] EXCEPT !.kind = "LambdaParameter"]
  BY <1>1 DEF AsParameters
<1>3. params = [i \in 1 .. Len(trees) |-> params[i]]
  BY <1>1 DEF AsParameters
<1> HIDE DEF params
<1>4. Len(params) = Len(trees)
  BY <1>1, <1>2, <1>3
<1>5. \A i \in 1 .. Len(trees) :
          /\ params[i].area = trees[i].area /\ params[i].kind = "LambdaParameter"
          /\ params[i].size = trees[i].size
  BY <1>1, <1>2 DEF Node
<1>6. Nested(params)
  BY <1>4, <1>5 DEF Nested
<1> QED BY <1>1, <1>2, <1>4, <1>5, <1>6 DEF params

LEMMA AllButLastNested ==
    ASSUME NEW S, NEW trees \in Seq(S), trees # <<>>, Nested(trees)
    PROVE  LET rest == SubSeq(trees, 1, Len(trees) - 1) IN
           /\ rest \in Seq(S) /\ Len(rest) = Len(trees) - 1
           /\ \A i \in 1 .. Len(trees) - 1 : rest[i] = trees[i]
           /\ Nested(rest)
<1> DEFINE n == Len(trees)
           rest == SubSeq(trees, 1, n - 1)
<1>1. n \in Nat \ {0} /\ \A i \in 1 .. n - 1 : trees[i] \in S
  BY EmptySeq, ElementOfSeq
<1>2. /\ rest \in Seq(S) /\ Len(rest) = n - 1
      /\ \A i \in 1 .. n - 1 : rest[i] = trees[i]
  <2>1. 1 \in Int /\ n - 1 \in Int
    BY <1>1
  <2> HIDE DEF n
  <2>2. /\ rest \in Seq(S)
        /\ Len(rest) = IF 1 <= n - 1 THEN (n - 1) - 1 + 1 ELSE 0
        /\ \A i \in 1 .. (n - 1) - 1 + 1 : rest[i] = trees[1 + i - 1]
    BY <1>1, <2>1, SubSeqProperties
  <2> HIDE DEF rest
  <2> QED BY <1>1, <2>2
<1> HIDE DEF rest, n
<1>3. Nested(rest)
  <2> SUFFICES ASSUME NEW i \in 1 .. n - 1
               PROVE  /\ rest[i].size \in 1 .. i
                      /\ rest[i].kind # "LambdaParameter" =>
                             \A j \in Below(rest, i) : Covers(rest[i].area, rest[j].area)
    BY <1>2 DEF Nested
  <2>1. i \in 1 .. Len(trees) /\ rest[i] = trees[i] /\ trees[i].size \in 1 .. i
    BY <1>1, <1>2 DEF Nested, n
  <2>2. Below(rest, i) = Below(trees, i)
    BY <2>1 DEF Below
  <2>3. \A j \in Below(trees, i) : rest[j] = trees[j]
    BY <1>1, <1>2, <2>1 DEF Below
  <2> QED BY <2>1, <2>2, <2>3 DEF Nested
<1> QED BY <1>2, <1>3 DEF rest, n

(* The root alone is given an area, one that spans all the others. *)
LEMMA WidenedWhole ==
    ASSUME NEW trees \in Tree, trees # <<>>, Nested(trees),
           NEW area \in Area, Spans(area, trees)
    PROVE  Whole([trees EXCEPT ![Len(trees)].area = area])
<1> DEFINE n == Len(trees)
           wide == [trees EXCEPT ![n].area = area]
<1>1. n \in Nat \ {0} /\ n \in 1 .. n /\ \A i \in 1 .. n : trees[i] \in Node
  BY NodesOf
<1>2. /\ Len(wide) = n
      /\ \A i \in 1 .. n : i # n => wide[i] = trees[i]
      /\ wide[n] = [trees[n] EXCEPT !.area = area]
  BY <1>1 DEF Tree
<1>3. /\ wide[n].area = area /\ wide[n].size = trees[n].size
      /\ \A i \in 1 .. n : wide[i].size = trees[i].size
  BY <1>1, <1>2 DEF Node
<1>4. wide # <<>>
  BY <1>1, <1>2
<1> HIDE DEF wide, n
<1>5. \A i \in 1 .. n : Covers(area, wide[i].area)
  <2> TAKE i \in 1 .. n
  <2>1. Covers(area, area) /\ Covers(area, trees[i].area)
    BY DEF Covers, Area, Spans, n
  <2> QED BY <1>2, <1>3, <2>1
<1>6. Nested(wide)
  <2> SUFFICES ASSUME NEW i \in 1 .. n
               PROVE  /\ wide[i].size \in 1 .. i
                      /\ wide[i].kind # "LambdaParameter" =>
                             \A j \in Below(wide, i) : Covers(wide[i].area, wide[j].area)
    BY <1>2 DEF Nested
  <2>1. trees[i].size \in 1 .. i /\ wide[i].size = trees[i].size
    BY <1>3 DEF Nested, n
  <2>2. Below(wide, i) = Below(trees, i) /\ Below(wide, i) \subseteq 1 .. i
    BY <2>1 DEF Below
  <2>3. CASE i = n
    BY <1>3, <1>5, <2>1, <2>2, <2>3
  <2>4. CASE i # n
    <3>1. i < n /\ \A j \in 1 .. i : j \in 1 .. n /\ j # n
      BY <1>1, <2>4
    <3>2. \A j \in Below(trees, i) : wide[j] = trees[j]
      BY <1>2, <2>2, <3>1
    <3>3. wide[i] = trees[i]
      BY <1>2, <2>4
    <3> QED BY <2>1, <2>2, <3>2, <3>3 DEF Nested, n
  <2> QED BY <2>1, <2>3, <2>4
<1> QED BY <1>2, <1>3, <1>4, <1>5, <1>6 DEF Whole, Spans, Root, wide, n

-----------------------------------------------------------------------------
(* What the invariant says of the running method *)

LEMMA AreasOf ==
    ASSUME NEW lo \in Nat, NEW hi \in Nat, NEW trees \in TreesIn(lo, hi)
    PROVE  /\ trees \in Tree
           /\ \A i \in 1 .. Len(trees) :
                  /\ trees[i].area \in Area
                  /\ lo <= trees[i].area.start
                  /\ trees[i].area.start < trees[i].area.end
                  /\ trees[i].area.end <= hi
<1>1. trees \in Tree
  BY TreesAreTrees
<1>2. \A i \in 1 .. Len(trees) : trees[i] \in NodesIn(lo, hi)
  BY ElementOfSeq DEF TreesIn
<1> QED BY <1>1, <1>2 DEF NodesIn, AreasIn

LEMMA Own ==
    ASSUME NestInv, ~Done
    PROVE  /\ Top \in Frame /\ Top.start \in Nat /\ taken \in Nat
           /\ Top.area \in Area /\ Top.ast \in Tree /\ Fine(Top)
           /\ Top.at \in WithTree => Top.ast # <<>>
           /\ Top.at \in WithArea => Top.area.start < taken /\ Top.area.end <= taken
           /\ \A i \in 1 .. Len(Top.ast) :
                  /\ Top.ast[i].area \in Area
                  /\ Top.ast[i].area.start < Top.ast[i].area.end
                  /\ Top.ast[i].area.end <= taken
<1>1. /\ Len(stack) \in 1 .. Len(stack) /\ Top \in FramesAt(taken) /\ Top \in Frame
      /\ Top.start \in Nat /\ taken \in Nat
  BY Running DEF NestInv
<1>2. Top.ast \in TreesIn(Top.start, taken)
      /\ (Top.at \in WithArea => Top.area \in AreasIn(Top.start, taken))
      /\ (Top.at \in WithTree => Top.ast # <<>>)
  BY <1>1 DEF FramesAt
<1>3. Fine(Top)
  BY <1>1 DEF NestInv, Top
<1>4. Top.at \in WithArea => Top.area.start < taken /\ Top.area.end <= taken
  BY <1>1, <1>2 DEF AreasIn, Area
<1> QED BY <1>1, <1>2, <1>3, <1>4, AreasOf DEF Frame

(* What it got lies behind what it has. *)
LEMMA Got ==
    ASSUME NestInv, ~Done, ret.tag = "value"
    PROVE  /\ ret.start \in Nat /\ ret.ast \in Tree /\ Whole(ret.ast)
           /\ Root(ret.ast).area \in Area /\ ret.start <= Root(ret.ast).area.end
           /\ \A i \in 1 .. Len(ret.ast) :
                  ret.ast[i].area \in Area /\ ret.start <= ret.ast[i].area.start
           /\ \A i \in 1 .. Len(Top.ast) : Top.ast[i].area.end <= ret.start
           /\ Top.at \in WithArea => Top.area.start <= ret.start
<1>1. /\ taken \in Nat /\ ret.start \in Nat /\ Whole(ret.ast)
      /\ ret.ast \in TreesIn(ret.start, taken) /\ ret.ast # <<>>
  BY Own DEF NestInv, Inv, ResultsAt, Result
<1>2. Top \in FramesAt(ret.start) /\ Top.start \in Nat
  BY Own DEF NestInv, Apart, Done
<1>3. /\ Top.ast \in TreesIn(Top.start, ret.start)
      /\ Top.at \in WithArea => Top.area \in AreasIn(Top.start, ret.start)
  BY <1>2 DEF FramesAt
<1>4. \A i \in 1 .. Len(Top.ast) : Top.ast[i].area.end <= ret.start
  BY <1>1, <1>2, <1>3, AreasOf
<1>5. Top.at \in WithArea => Top.area.start <= ret.start
  BY <1>1, <1>2, <1>3 DEF AreasIn, Area
<1>6. ret.ast \in Tree /\ \A i \in 1 .. Len(ret.ast) :
          /\ ret.ast[i].area \in Area /\ ret.start <= ret.ast[i].area.start
          /\ ret.start <= ret.ast[i].area.end
  <2>1. \A i \in 1 .. Len(ret.ast) :
            /\ ret.ast[i].area \in Area /\ ret.start <= ret.ast[i].area.start
            /\ ret.ast[i].area.start < ret.ast[i].area.end
    BY <1>1, AreasOf
  <2> QED BY <1>1, <2>1, AreasOf DEF Area
<1>7. Len(ret.ast) \in 1 .. Len(ret.ast)
  BY <1>1, <1>6, NodesOf
<1> QED BY <1>1, <1>4, <1>5, <1>6, <1>7 DEF Root

(* Up to the tree it got: the area from where the trees it keeps begin to  *)
(* that tree's end.                                                        *)
LEMMA UpToTheTree ==
    ASSUME NestInv, ~Done, ret.tag = "value",
           NEW first \in Area, NEW kept \in Tree,
           \A i \in 1 .. Len(kept) : /\ first.start <= kept[i].area.start
                                     /\ kept[i].area.end <= ret.start
    PROVE  /\ Combine(first, Root(ret.ast).area) \in Area
           /\ Spans(Combine(first, Root(ret.ast).area), kept \o ret.ast)
           /\ Spans(Combine(first, Root(ret.ast).area), ret.ast)
<1> DEFINE last == Root(ret.ast).area
<1>1. /\ ret.start \in Nat /\ ret.ast \in Tree /\ Spans(last, ret.ast)
      /\ last \in Area /\ ret.start <= last.end
  BY Got DEF Whole
<1> HIDE DEF last
<1>2. \A i \in 1 .. Len(kept) : kept[i].area.end <= last.end
  <2> TAKE i \in 1 .. Len(kept)
  <2>1. kept[i].area \in Area /\ kept[i].area.end <= ret.start
    BY NodesOf
  <2> QED BY <1>1, <2>1 DEF Area
<1>3. Combine(first, last) \in Area /\ Spans(Combine(first, last), kept)
  BY <1>1, <1>2, FromTo
<1>4. Spans(Combine(first, last), ret.ast)
  BY <1>1, SpansMore
<1> QED BY <1>1, <1>3, <1>4, ConcatSpans DEF last

(* Up to the next token: the area from where its trees begin *)
LEMMA UpToTheToken ==
    ASSUME NestInv, ~Done, NEW first \in Area,
           \A i \in 1 .. Len(Top.ast) : first.start <= Top.ast[i].area.start
    PROVE  /\ Combine(first, NextArea) \in Area
           /\ Spans(Combine(first, NextArea), Top.ast)
<1>1. NextArea \in Area /\ taken <= NextArea.end
  BY Own DEF NextArea, TokenArea, Area
<1>2. \A i \in 1 .. Len(Top.ast) : Top.ast[i].area.end <= NextArea.end
  <2> TAKE i \in 1 .. Len(Top.ast)
  <2>1. Top.ast[i].area \in Area /\ Top.ast[i].area.end <= taken /\ taken \in Nat
    BY Own
  <2> QED BY <1>1, <2>1 DEF Area
<1> QED BY <1>1, <1>2, Own, FromTo

-----------------------------------------------------------------------------
(* What a step may do *)

GoesOnFine == \E frame : frame.start = Top.start /\ Fine(frame) /\ Continue(frame)

CallsFine ==
    \E frame, callee, bp :
        /\ frame.start = Top.start /\ Fine(frame)
        /\ callee \notin Single /\ CallFrom(frame, callee, bp)

LeavesWhole ==
    \E result :
        /\ result.start = Top.start /\ (result.tag = "value" => Whole(result.ast))
        /\ Leave(result)

NestSteps == ~Done /\ (GoesOnFine \/ CallsFine \/ LeavesWhole \/ PopNothing)

LEMMA GoesOnNests ==
    ASSUME NestInv, Inv', ~Done, GoesOnFine
    PROVE  NestInv'
<1> PICK frame : frame.start = Top.start /\ Fine(frame) /\ Continue(frame)
  BY DEF GoesOnFine
<1> DEFINE n == Len(stack)
<1>1. n \in Nat \ {0} /\ n \in 1 .. n
  BY Running DEF NestInv
<1>2. /\ Len(stack') = n /\ ret'.tag = "none"
      /\ \A i \in 1 .. n : stack'[i] = IF i = n THEN frame ELSE stack[i]
  BY <1>1 DEF Continue, NoResult, NestInv, Inv
<1>3. \A i \in 1 .. n : stack'[i].start = stack[i].start /\ Fine(stack'[i])
  BY <1>2 DEF Top, NestInv
<1>4. ASSUME NEW i \in 1 .. n - 1
      PROVE  stack'[i] \in FramesAt(stack'[i + 1].start)
  <2>1. i \in 1 .. n /\ i # n /\ i + 1 \in 1 .. n
    BY <1>1
  <2>2. stack'[i] = stack[i] /\ stack'[i + 1].start = stack[i + 1].start
    BY <1>2, <1>3, <2>1
  <2> QED BY <2>2 DEF NestInv, Apart
<1> QED BY <1>2, <1>3, <1>4 DEF NestInv, Apart

LEMMA CallsNest ==
    ASSUME NestInv, Inv', ~Done, CallsFine
    PROVE  NestInv'
<1> PICK frame, callee, bp :
        /\ frame.start = Top.start /\ Fine(frame)
        /\ callee \notin Single /\ CallFrom(frame, callee, bp)
  BY DEF CallsFine
<1> DEFINE n == Len(stack)
           callers == [stack EXCEPT ![n] = frame]
           new == NewFrame(callee, taken', bp)
<1>1. n \in Nat \ {0} /\ n \in 1 .. n
  BY Running DEF NestInv
<1>2. Len(callers) = n /\ \A i \in 1 .. n : callers[i] = IF i = n THEN frame ELSE stack[i]
  BY <1>1 DEF NestInv, Inv
<1>3. stack' = Append(callers, new) /\ ret'.tag = "none"
  BY DEF CallFrom, NoResult
<1>4. new.at = callee /\ new.start = taken' /\ new.ast = <<>>
  BY DEF NewFrame
<1>5. Fine(new)
  <2> HIDE DEF new
  <2> QED BY <1>4, NoneNested DEF Fine
<1> HIDE DEF callers, new
<1>6. /\ Len(stack') = n + 1 /\ stack'[n + 1] = new
      /\ \A i \in 1 .. n : stack'[i] = IF i = n THEN frame ELSE stack[i]
  BY <1>1, <1>2, <1>3
<1>7. \A i \in 1 .. n + 1 : Fine(stack'[i])
  <2> TAKE i \in 1 .. n + 1
  <2>1. i \in 1 .. n \/ i = n + 1
    BY <1>1
  <2> QED BY <1>5, <1>6, <2>1 DEF NestInv
<1>8. \A i \in 1 .. n : stack'[i].start = stack[i].start
  BY <1>6 DEF Top
<1>9. stack'[n] \in FramesAt(stack'[n + 1].start)
  <2>1. stack' \in Seq(FramesAt(taken')) /\ n \in 1 .. Len(stack')
    BY <1>1, <1>6 DEF Inv
  <2> QED BY <1>4, <1>6, <2>1, ElementOfSeq
<1>10. ASSUME NEW i \in 1 .. n
       PROVE  stack'[i] \in FramesAt(stack'[i + 1].start)
  <2>1. CASE i = n
    BY <1>9, <2>1
  <2>2. CASE i # n
    <3>1. i \in 1 .. n - 1 /\ i + 1 \in 1 .. n
      BY <1>1, <2>2
    <3>2. stack'[i] = stack[i] /\ stack'[i + 1].start = stack[i + 1].start
      BY <1>6, <1>8, <2>2, <3>1
    <3> QED BY <3>1, <3>2 DEF NestInv, Apart
  <2> QED BY <2>1, <2>2
<1>11. 1 .. Len(stack') - 1 = 1 .. n
  BY <1>1, <1>6
<1> QED BY <1>3, <1>6, <1>7, <1>10, <1>11 DEF NestInv, Apart

LEMMA LeavesNest ==
    ASSUME NestInv, Inv', ~Done, LeavesWhole
    PROVE  NestInv'
<1> PICK result :
        /\ result.start = Top.start /\ (result.tag = "value" => Whole(result.ast))
        /\ Leave(result)
  BY DEF LeavesWhole
<1> DEFINE n == Len(stack)
<1>1. n \in Nat \ {0} /\ stack \in Seq(FramesAt(taken))
  BY Running DEF NestInv, Inv
<1>2. Len(stack') = n - 1 /\ \A i \in 1 .. n - 1 : stack'[i] = stack[i]
  <2>1. stack' = SubSeq(stack, 1, n - 1) /\ 1 \in Int /\ n - 1 \in Int
    BY <1>1 DEF Leave
  <2>2. \A i \in 1 .. n - 1 : stack[i] \in FramesAt(taken)
    BY <1>1, ElementOfSeq
  <2> HIDE DEF n
  <2>3. /\ Len(stack') = IF 1 <= n - 1 THEN (n - 1) - 1 + 1 ELSE 0
        /\ \A i \in 1 .. (n - 1) - 1 + 1 : stack'[i] = stack[1 + i - 1]
    BY <2>1, <2>2, SubSeqProperties
  <2> QED BY <1>1, <2>3
<1>3. \A i \in 1 .. n - 1 : Fine(stack'[i])
  BY <1>1, <1>2 DEF NestInv
<1>4. ASSUME NEW i \in 1 .. (n - 1) - 1
      PROVE  stack'[i] \in FramesAt(stack'[i + 1].start)
  <2>1. i \in 1 .. n - 1 /\ i + 1 \in 1 .. n - 1
    BY <1>1
  <2> QED BY <1>2, <2>1 DEF NestInv, Apart
<1>5. ret' = result
  BY DEF Leave
<1>6. stack' # <<>> => Top' \in FramesAt(ret'.start)
  <2> SUFFICES ASSUME stack' # <<>> PROVE Top' \in FramesAt(ret'.start)
    OBVIOUS
  <2>1. n - 1 \in 1 .. n - 1 /\ (n - 1) + 1 = n
    BY <1>1, <1>2, EmptySeq DEF Inv
  <2>2. Top' = stack[n - 1]
    BY <1>2, <2>1 DEF Top
  <2>3. stack[n - 1] \in FramesAt(stack[(n - 1) + 1].start)
    BY <2>1 DEF NestInv, Apart
  <2> QED BY <1>5, <2>1, <2>2, <2>3 DEF Top
<1> QED BY <1>2, <1>3, <1>4, <1>5, <1>6 DEF NestInv, Apart

LEMMA NestStepsKeep ==
    ASSUME NestInv, Inv', NestSteps
    PROVE  NestInv'
<1>1. CASE PopNothing
  BY <1>1 DEF PopNothing, NestInv, Apart, Top
<1> QED BY <1>1, GoesOnNests, CallsNest, LeavesNest DEF NestSteps

-----------------------------------------------------------------------------
(* The common forms of a step *)

(* A frame that keeps the trees and the area the method has: its step is   *)
(* one where that much is true of them.                                    *)
Stays(label) ==
    /\ label \in Blank => Top.at \in Blank
    /\ label \in Single => Top.at \in Single
    /\ label \in WithArea => Top.at \in WithArea
    /\ label \in Naming => Top.at \in Naming

(* One that gets the returned tree behind those it has *)
Grows(label) ==
    /\ label \notin Blank \cup Naming
    /\ label \in Single => Top.at \in Blank
    /\ label \in WithArea => Top.at \in WithArea

LEMMA FineAt ==
    ASSUME NestInv, ~Done, NEW frame, frame.ast = Top.ast, frame.area = Top.area,
           Stays(frame.at)
    PROVE  Fine(frame)
BY Own DEF Fine, Stays

LEMMA FineWithout ==
    ASSUME NEW frame, frame.ast = <<>>, frame.at \notin Single
    PROVE  Fine(frame)
BY NoneNested DEF Fine

LEMMA FineWith ==
    ASSUME NEW frame, Nested(frame.ast), frame.at \notin Blank \cup Naming,
           frame.at \in Single => Whole(frame.ast),
           frame.at \in WithArea =>
               \A i \in 1 .. Len(frame.ast) : frame.area.start <= frame.ast[i].area.start
    PROVE  Fine(frame)
BY DEF Fine

LEMMA ContinueNests ==
    ASSUME ~Done, NEW frame, frame.start = Top.start, Fine(frame), Continue(frame)
    PROVE  NestSteps
BY DEF NestSteps, GoesOnFine

LEMMA CallFromNests ==
    ASSUME ~Done, NEW frame, frame.start = Top.start, Fine(frame),
           NEW callee, callee \notin Single, NEW bp, CallFrom(frame, callee, bp)
    PROVE  NestSteps
BY DEF NestSteps, CallsFine

LEMMA ReturnNests ==
    ASSUME ~Done, NEW tree, Whole(tree), Return(tree)
    PROVE  NestSteps
BY DEF NestSteps, LeavesWhole, Return

LEMMA ErrorNests ==
    ASSUME ~Done, NEW error, ReturnError(error)
    PROVE  NestSteps
BY DEF NestSteps, LeavesWhole, ReturnError

LEMMA RejectsNests == ASSUME ~Done, Rejects PROVE NestSteps
BY ErrorNests DEF Rejects

LEMMA PopsBadTokenNests == ASSUME ~Done, PopsBadToken PROVE NestSteps
BY ErrorNests DEF PopsBadToken, NestSteps

LEMMA PropagatesNests == ASSUME NEW labels, Propagates(labels) PROVE NestSteps
BY ErrorNests DEF Propagates, Errs

LEMMA SwallowsNests == ASSUME NEW labels, Swallows(labels) PROVE NestSteps
BY RejectsNests DEF Swallows, Errs

LEMMA FineGoto ==
    ASSUME NestInv, ~Done, NEW label, Stays(label)
    PROVE  /\ [Top EXCEPT !.at = label].start = Top.start
           /\ Fine([Top EXCEPT !.at = label])
<1> DEFINE frame == [Top EXCEPT !.at = label]
<1>1. /\ frame.start = Top.start /\ frame.at = label
      /\ frame.ast = Top.ast /\ frame.area = Top.area
  BY Own DEF Frame
<1> HIDE DEF frame
<1>2. Fine(frame)
  BY <1>1, FineAt
<1> QED BY <1>1, <1>2 DEF frame

LEMMA GotoNests ==
    ASSUME NestInv, ~Done, NEW label, Stays(label), Goto(label)
    PROVE  NestSteps
BY FineGoto, ContinueNests DEF Goto

LEMMA CallNests ==
    ASSUME NestInv, ~Done, NEW label, Stays(label),
           NEW callee, callee \notin Single, Call(label, callee)
    PROVE  NestSteps
BY FineGoto, CallFromNests DEF Call

(* The trees it has and the one it got *)
LEMMA Together ==
    ASSUME NestInv, ~Done, ret.tag = "value"
    PROVE  LET trees == Top.ast \o ret.ast IN
           /\ trees \in Tree /\ Nested(trees)
           /\ Top.at \in WithArea =>
                  \A i \in 1 .. Len(trees) : Top.area.start <= trees[i].area.start
           /\ Top.at \in Blank => Whole(trees)
<1> DEFINE trees == Top.ast \o ret.ast
           n == Len(Top.ast)
<1>1. /\ Top.ast \in Tree /\ ret.ast \in Tree /\ Nested(Top.ast) /\ Nested(ret.ast)
  BY Own, Got DEF Fine, Whole
<1>2. trees \in Tree /\ Nested(trees)
  BY <1>1, ConcatNested, ConcatIs
<1>3. /\ n \in Nat /\ Len(ret.ast) \in Nat /\ Len(trees) = n + Len(ret.ast)
      /\ \A i \in 1 .. Len(trees) : trees[i] = IF i <= n THEN Top.ast[i] ELSE ret.ast[i - n]
  BY <1>1, ConcatIs
<1>4. Top.at \in Blank => Whole(trees)
  <2> SUFFICES ASSUME Top.at \in Blank PROVE Whole(trees)
    OBVIOUS
  <2>1. Top.ast = <<>>
    BY Own DEF Fine
  <2>2. trees = ret.ast
    BY <1>1, <2>1 DEF Tree
  <2> QED BY <2>2, Got
<1> HIDE DEF trees, n
<1>5. ASSUME Top.at \in WithArea, NEW i \in 1 .. Len(trees)
      PROVE  Top.area.start <= trees[i].area.start
  <2>1. CASE i <= n
    <3>1. i \in 1 .. n /\ trees[i] = Top.ast[i]
      BY <1>3, <2>1
    <3> QED BY <1>5, <3>1, Own DEF Fine, n
  <2>2. CASE ~(i <= n)
    <3>1. i - n \in 1 .. Len(ret.ast) /\ trees[i] = ret.ast[i - n]
      BY <1>3, <2>2
    <3>2. /\ Top.area.start <= ret.start /\ ret.start <= trees[i].area.start
          /\ trees[i].area \in Area /\ ret.start \in Nat
      BY <1>5, <3>1, Got
    <3>3. Top.area \in Area
      BY Own
    <3> QED BY <3>2, <3>3 DEF Area
  <2> QED BY <2>1, <2>2
<1> QED BY <1>2, <1>4, <1>5 DEF trees

LEMMA GotoWithNests ==
    ASSUME NestInv, ~Done, ret.tag = "value", NEW label, Grows(label), GotoWith(label)
    PROVE  NestSteps
<1> DEFINE trees == Top.ast \o ret.ast
           frame == [Top EXCEPT !.at = label, !.ast = @ \o ret.ast, !.kids = @ + 1]
<1>1. /\ frame.start = Top.start /\ frame.at = label
      /\ frame.ast = trees /\ frame.area = Top.area
  <2>1. frame = [Top EXCEPT !.at = label, !.ast = trees, !.kids = Top.kids + 1]
    OBVIOUS
  <2> HIDE DEF frame, trees
  <2> QED BY <2>1, Own DEF Frame
<1>2. Continue(frame)
  BY DEF GotoWith
<1>3. /\ Nested(trees)
      /\ Top.at \in WithArea =>
             \A i \in 1 .. Len(trees) : Top.area.start <= trees[i].area.start
      /\ Top.at \in Blank => Whole(trees)
  BY Together
<1> HIDE DEF frame, trees
<1>4. Fine(frame)
  BY <1>1, <1>3, FineWith DEF Grows
<1> QED BY <1>1, <1>2, <1>4, ContinueNests

(* Nodes from the area the method remembers, or from the root of the tree  *)
(* it has, to what it got or to the token it takes                         *)
LEMMA NodeOverBoth ==
    ASSUME NestInv, ~Done, ret.tag = "value", Top.at \in WithArea, NEW kind, NEW arity
    PROVE  Whole(Grown(Top.ast \o ret.ast, kind, arity,
                       Combine(Top.area, Root(ret.ast).area)))
<1> DEFINE area == Combine(Top.area, Root(ret.ast).area)
           trees == Top.ast \o ret.ast
<1>1. area \in Area /\ Spans(area, trees)
  BY Own, Got, UpToTheTree DEF Fine
<1>2. trees \in Tree /\ Nested(trees)
  BY Together
<1> HIDE DEF area, trees
<1> QED BY <1>1, <1>2, GrownWhole DEF area, trees

LEMMA NodeOverTrees ==
    ASSUME NestInv, ~Done, ret.tag = "value", Top.at \in Single, Top.at \in WithTree,
           NEW kind, NEW arity
    PROVE  Whole(Grown(Top.ast \o ret.ast, kind, arity,
                       Combine(Root(Top.ast).area, Root(ret.ast).area)))
<1> DEFINE first == Root(Top.ast).area
           area == Combine(first, Root(ret.ast).area)
           trees == Top.ast \o ret.ast
<1>1. Top.ast \in Tree /\ Whole(Top.ast)
  BY Own DEF Fine
<1>2. first \in Area /\ \A i \in 1 .. Len(Top.ast) : first.start <= Top.ast[i].area.start
  BY <1>1, NodesOf DEF Whole, Spans, Covers, Root
<1> HIDE DEF first
<1>3. area \in Area /\ Spans(area, trees)
  BY <1>1, <1>2, Got, UpToTheTree
<1>4. trees \in Tree /\ Nested(trees)
  BY Together
<1> HIDE DEF area, trees
<1> QED BY <1>3, <1>4, GrownWhole DEF area, trees, first

LEMMA NodeOverGot ==
    ASSUME NestInv, ~Done, ret.tag = "value", NEW kind, NEW arity
    PROVE  Whole(Grown(ret.ast, kind, arity, Combine(Top.area, Root(ret.ast).area)))
<1> DEFINE area == Combine(Top.area, Root(ret.ast).area)
<1>1. /\ ret.ast \in Tree /\ Nested(ret.ast) /\ Spans(Root(ret.ast).area, ret.ast)
      /\ Root(ret.ast).area \in Area /\ Top.area \in Area
  BY Own, Got DEF Whole
<1>2. area \in Area /\ Spans(area, ret.ast)
  BY <1>1, SpansMore DEF Combine, Area
<1> HIDE DEF area
<1> QED BY <1>1, <1>2, GrownWhole DEF area

LEMMA NodeClosed ==
    ASSUME NestInv, ~Done, Top.at \in WithArea, NEW kind, NEW arity
    PROVE  Whole(Grown(Top.ast, kind, arity, Combine(Top.area, NextArea)))
<1> DEFINE area == Combine(Top.area, NextArea)
<1>1. Top.ast \in Tree /\ Nested(Top.ast) /\ area \in Area /\ Spans(area, Top.ast)
  BY Own, UpToTheToken DEF Fine
<1> HIDE DEF area
<1> QED BY <1>1, GrownWhole DEF area

LEMMA NextIsAnArea == ASSUME NestInv, ~Done PROVE NextArea \in Area
BY Own DEF NextArea, TokenArea, Area

(* Names in a row begin with the first and end with the last. *)
LEMMA OneMoreName ==
    ASSUME NestInv, ~Done, Top.at \in Naming
    PROVE  LET trees == Top.ast \o Leaf("Identifier", NextArea) IN
           /\ Nested(trees)
           /\ \A i \in 1 .. Len(trees) : /\ trees[1].area.start <= trees[i].area.start
                                         /\ trees[i].area.end <= Root(trees).area.end
<1> DEFINE leaf == Leaf("Identifier", NextArea)
           trees == Top.ast \o leaf
           n == Len(Top.ast)
<1>1. /\ Top.ast \in Tree /\ Nested(Top.ast) /\ n \in Nat /\ taken \in Nat
      /\ \A i \in 1 .. n :
             /\ Top.ast[1].area.start <= Top.ast[i].area.start
             /\ Top.ast[i].area.start < Top.ast[i].area.end
             /\ Top.ast[i].area.end <= taken
             /\ Top.ast[i].area \in Area
  BY Own, NodesOf DEF Fine
<1>2. NextArea \in Area /\ NextArea.start = taken /\ NextArea.end = taken + 1
  BY <1>1 DEF NextArea, TokenArea, Area
<1>3. Nested(leaf)
  BY <1>2, LeafWhole DEF Whole
<1>4. leaf \in Tree /\ Len(leaf) = 1 /\ leaf[1].area = NextArea
  <2>1. "Identifier" \in NodeKinds
    BY DEF NodeKinds, StatementKinds, ExpressionKinds
  <2> QED BY <1>2, <2>1 DEF Leaf, Tree, Node
<1> HIDE DEF leaf
<1>5. Nested(trees)
  BY <1>1, <1>3, <1>4, ConcatNested
<1>6. /\ Len(trees) = n + Len(leaf)
      /\ \A i \in 1 .. Len(trees) : trees[i] = IF i <= n THEN Top.ast[i] ELSE leaf[i - n]
  BY <1>1, <1>4, ConcatIs
<1> HIDE DEF trees, n
<1>7. /\ Len(trees) = n + 1
      /\ trees[n + 1].area = NextArea /\ Root(trees).area = NextArea
      /\ \A i \in 1 .. n : trees[i] = Top.ast[i]
  <2>1. Len(trees) = n + 1 /\ n + 1 \in 1 .. n + 1 /\ ~(n + 1 <= n) /\ (n + 1) - n = 1
    BY <1>1, <1>4, <1>6
  <2>2. trees[n + 1] = leaf[1]
    BY <1>6, <2>1
  <2>3. \A i \in 1 .. n : trees[i] = Top.ast[i]
    BY <1>1, <1>6, <2>1
  <2> QED BY <1>4, <2>1, <2>2, <2>3 DEF Root
<1>8. ASSUME NEW i \in 1 .. n
      PROVE  /\ trees[1].area.start <= trees[i].area.start
             /\ trees[i].area.end <= taken + 1
             /\ trees[1].area.start <= taken
  <2>1. 1 \in 1 .. n
    BY <1>1
  <2> QED BY <1>1, <1>7, <2>1 DEF Area
<1>9. ASSUME NEW i \in 1 .. n + 1
      PROVE  /\ trees[1].area.start <= trees[i].area.start
             /\ trees[i].area.end <= Root(trees).area.end
  <2>1. CASE i \in 1 .. n
    BY <1>2, <1>7, <1>8, <2>1
  <2>2. CASE i = n + 1 /\ n = 0
    BY <1>1, <1>2, <1>7, <2>2
  <2>3. CASE i = n + 1 /\ n # 0
    <3>1. 1 \in 1 .. n
      BY <1>1, <2>3
    <3> QED BY <1>1, <1>2, <1>7, <1>8, <2>3, <3>1
  <2>4. i \in 1 .. n \/ i = n + 1
    BY <1>1
  <2> QED BY <2>1, <2>2, <2>3, <2>4
<1> QED BY <1>5, <1>7, <1>9 DEF trees, leaf

(* Names become the parameters of a lambda that ends with its body. *)
LEMMA LambdaWhole ==
    ASSUME NestInv, ~Done, ret.tag = "value",
           NEW names \in Tree, Nested(names), NEW first \in Area,
           \A i \in 1 .. Len(names) : /\ first.start <= names[i].area.start
                                      /\ names[i].area.end <= ret.start,
           NEW arity
    PROVE  Whole(Grown(AsParameters(names) \o ret.ast, "LambdaExpr", arity,
                       Combine(first, Root(ret.ast).area)))
<1> DEFINE params == AsParameters(names)
           trees == params \o ret.ast
           area == Combine(first, Root(ret.ast).area)
<1>1. /\ Len(params) = Len(names) /\ Nested(params)
      /\ \A i \in 1 .. Len(names) : params[i].area = names[i].area
  BY ParametersNested
<1>2. params \in Tree
  BY ParametersAreTrees
<1> HIDE DEF params
<1>3. area \in Area /\ Spans(area, trees)
  BY <1>1, <1>2, UpToTheTree
<1>4. trees \in Tree /\ Nested(trees)
  BY <1>1, <1>2, Got, ConcatNested, ConcatIs DEF Whole
<1> HIDE DEF trees, area
<1> QED BY <1>3, <1>4, GrownWhole DEF trees, area, params

(* What params_or_elements becomes without the body of a lambda: all names *)
(* but the tuple made of them                                              *)
LEMMA ElementsAre ==
    ASSUME NestInv, ~Done, Top.ast # <<>>
    PROVE  /\ Elements \in Tree /\ Nested(Elements)
           /\ \A i \in 1 .. Len(Elements) : i \in 1 .. Len(Top.ast) /\ Elements[i] = Top.ast[i]
<1>1. Top.ast \in Seq(Node) /\ Nested(Top.ast) /\ Len(Top.ast) \in Nat
  BY Own, NodesOf DEF Fine, Tree
<1> DEFINE rest == SubSeq(Top.ast, 1, Len(Top.ast) - 1)
<1>2. /\ rest \in Tree /\ Nested(rest) /\ Len(rest) = Len(Top.ast) - 1
      /\ \A i \in 1 .. Len(rest) : i \in 1 .. Len(Top.ast) /\ rest[i] = Top.ast[i]
  <2>1. /\ rest \in Seq(Node) /\ Nested(rest) /\ Len(rest) = Len(Top.ast) - 1
        /\ \A i \in 1 .. Len(Top.ast) - 1 : rest[i] = Top.ast[i]
    BY <1>1, AllButLastNested
  <2> HIDE DEF rest
  <2> QED BY <1>1, <2>1 DEF Tree
<1>3. Elements = rest \/ Elements = Top.ast
  BY DEF Elements
<1> HIDE DEF rest
<1> QED BY <1>1, <1>2, <1>3 DEF Tree

(* The last of the parameters gets its type. *)
LEMMA LastGetsType ==
    ASSUME NestInv, ~Done, ret.tag = "value", Top.at \in WithArea,
           NEW params \in Tree, params # <<>>, Nested(params),
           \A i \in 1 .. Len(params) : Top.area.start <= params[i].area.start,
           NEW area \in Area, Top.area.start <= area.start
    PROVE  LET trees == SubSeq(params, 1, Len(params) - 1)
                            \o Grown(ret.ast, "LambdaParameter", 1, area) IN
           /\ Nested(trees)
           /\ \A i \in 1 .. Len(trees) : Top.area.start <= trees[i].area.start
<1> DEFINE left == SubSeq(params, 1, Len(params) - 1)
           right == Grown(ret.ast, "LambdaParameter", 1, area)
           trees == left \o right
           m == Len(ret.ast)
<1>1. /\ left \in Tree /\ Nested(left) /\ Len(params) \in Nat
      /\ Len(left) = Len(params) - 1
      /\ \A i \in 1 .. Len(params) - 1 : left[i] = params[i]
  BY AllButLastNested, NodesOf DEF Tree
<1>2. ret.ast \in Tree /\ Nested(ret.ast) /\ m \in Nat
  BY Got, NodesOf DEF Whole
<1>3. /\ Nested(right) /\ Len(right) = m + 1 /\ Root(right).area = area
      /\ \A i \in 1 .. m : right[i] = ret.ast[i]
  BY <1>2, GrownNested
<1>4. right \in Tree
  <2>1. "LambdaParameter" \in NodeKinds
    BY DEF NodeKinds, PartKinds
  <2> QED BY <1>2, <2>1, GrownIsATree
<1>5. ASSUME NEW i \in 1 .. Len(left)
      PROVE  Top.area.start <= left[i].area.start
  <2>1. i \in 1 .. Len(params) /\ i \in 1 .. Len(params) - 1
    BY <1>1
  <2> QED BY <1>1, <2>1
<1> HIDE DEF left, right, m
<1>6. ASSUME NEW i \in 1 .. m + 1
      PROVE  Top.area.start <= right[i].area.start
  <2>1. i \in 1 .. m \/ i = m + 1
    BY <1>2
  <2>2. CASE i = m + 1
    BY <1>3, <2>2 DEF Root
  <2>3. CASE i \in 1 .. m
    <3>1. /\ right[i] = ret.ast[i] /\ ret.start \in Nat
          /\ ret.ast[i].area \in Area /\ ret.start <= ret.ast[i].area.start
          /\ Top.area.start <= ret.start /\ Top.area \in Area
      BY <1>3, <2>3, Got, Own DEF m
    <3> QED BY <3>1 DEF Area
  <2> QED BY <2>1, <2>2, <2>3
<1>7. Nested(trees)
  BY <1>1, <1>3, <1>4, ConcatNested
<1>8. /\ Len(left) \in Nat /\ Len(trees) = Len(left) + Len(right)
      /\ \A i \in 1 .. Len(trees) :
             trees[i] = IF i <= Len(left) THEN left[i] ELSE right[i - Len(left)]
  BY <1>1, <1>4, ConcatIs
<1> HIDE DEF trees
<1>9. ASSUME NEW i \in 1 .. Len(trees)
      PROVE  Top.area.start <= trees[i].area.start
  <2>1. CASE i <= Len(left)
    <3>1. i \in 1 .. Len(left) /\ trees[i] = left[i]
      BY <1>8, <2>1
    <3> QED BY <1>5, <3>1
  <2>2. CASE ~(i <= Len(left))
    <3>1. i - Len(left) \in 1 .. m + 1 /\ trees[i] = right[i - Len(left)]
      BY <1>2, <1>3, <1>8, <2>2
    <3> QED BY <1>6, <3>1
  <2> QED BY <2>1, <2>2
<1> QED BY <1>7, <1>9 DEF trees, left, right

(* A typed parameter begins where its name does. *)
LEMMA TypedBegins ==
    ASSUME NestInv, ~Done, ret.tag = "value", Top.at \in WithArea, Top.ast # <<>>
    PROVE  LET area == Combine(Root(Top.ast).area, Root(ret.ast).area) IN
           area \in Area /\ Top.area.start <= area.start
<1> DEFINE first == Root(Top.ast).area
           last == Root(ret.ast).area
<1>1. /\ first \in Area /\ Top.area \in Area /\ Top.area.start <= first.start
  BY Own, NodesOf DEF Fine, Root
<1>2. /\ last \in Area /\ Top.area.start <= ret.start /\ ret.start \in Nat
      /\ ret.start <= last.start
  BY Got, NodesOf DEF Whole, Root
<1> HIDE DEF first, last
<1>3. Combine(first, last) \in Area /\ Top.area.start <= Combine(first, last).start
  BY <1>1, <1>2 DEF Combine, Area
<1> QED BY <1>3 DEF first, last

(* A parameter more, behind those there are *)
LEMMA OneMoreParameter ==
    ASSUME NestInv, ~Done, Top.at \in WithArea
    PROVE  LET trees == Top.ast \o Leaf("LambdaParameter", NextArea) IN
           /\ Nested(trees)
           /\ \A i \in 1 .. Len(trees) : Top.area.start <= trees[i].area.start
<1> DEFINE leaf == Leaf("LambdaParameter", NextArea)
           trees == Top.ast \o leaf
           n == Len(Top.ast)
<1>1. /\ Top.ast \in Tree /\ Nested(Top.ast) /\ n \in Nat
      /\ \A i \in 1 .. n : Top.area.start <= Top.ast[i].area.start
  BY Own, NodesOf DEF Fine
<1>2. /\ NextArea \in Area /\ Top.area.start <= NextArea.start
  <2>1. taken \in Nat /\ Top.area \in Area /\ Top.area.start < taken
    BY Own
  <2> QED BY <2>1, NextIsAnArea DEF NextArea, TokenArea, Area
<1>3. Nested(leaf)
  BY <1>2, LeafWhole DEF Whole
<1>4. leaf \in Tree /\ Len(leaf) = 1 /\ leaf[1].area = NextArea
  <2>1. "LambdaParameter" \in NodeKinds
    BY DEF NodeKinds, PartKinds
  <2> QED BY <1>2, <2>1 DEF Leaf, Tree, Node
<1> HIDE DEF leaf
<1>5. Nested(trees)
  BY <1>1, <1>3, <1>4, ConcatNested
<1>6. /\ Len(trees) = n + Len(leaf)
      /\ \A i \in 1 .. Len(trees) : trees[i] = IF i <= n THEN Top.ast[i] ELSE leaf[i - n]
  BY <1>1, <1>4, ConcatIs
<1> HIDE DEF trees, n
<1>7. ASSUME NEW i \in 1 .. Len(trees)
      PROVE  Top.area.start <= trees[i].area.start
  <2>1. CASE i \in 1 .. n
    BY <1>1, <1>6, <2>1
  <2>2. CASE i = n + 1
    <3>1. ~(i <= n) /\ i - n = 1
      BY <1>1, <2>2
    <3> QED BY <1>2, <1>4, <1>6, <3>1
  <2>3. i \in 1 .. n \/ i = n + 1
    BY <1>1, <1>4, <1>6
  <2> QED BY <2>1, <2>2, <2>3
<1> QED BY <1>5, <1>7 DEF trees, leaf

(* A tuple begins where its parenthesis does. *)
LEMMA TupleBegins ==
    ASSUME NestInv, ~Done, Top.at \in WithArea, NEW kind, NEW arity
    PROVE  LET trees == Grown(Top.ast, kind, arity, Combine(Top.area, NextArea)) IN
           \A i \in 1 .. Len(trees) : Top.area.start <= trees[i].area.start
<1> DEFINE area == Combine(Top.area, NextArea)
           trees == Grown(Top.ast, kind, arity, area)
           n == Len(Top.ast)
<1>1. /\ Top.ast \in Tree /\ Nested(Top.ast) /\ n \in Nat
      /\ \A i \in 1 .. n : Top.area.start <= Top.ast[i].area.start
      /\ area \in Area /\ Spans(area, Top.ast)
  BY Own, NodesOf, UpToTheToken DEF Fine
<1>2. Top.area.start <= area.start
  <2>1. Top.area \in Area /\ taken \in Nat /\ Top.area.start < taken
    BY Own
  <2> QED BY <2>1 DEF Combine, NextArea, TokenArea, Area
<1> HIDE DEF area
<1>3. /\ Len(trees) = n + 1 /\ Root(trees).area = area
      /\ \A i \in 1 .. n : trees[i] = Top.ast[i]
  BY <1>1, GrownNested
<1> HIDE DEF trees, n
<1>4. \A i \in 1 .. n + 1 : Top.area.start <= trees[i].area.start
  <2> TAKE i \in 1 .. n + 1
  <2>1. i \in 1 .. n \/ i = n + 1
    BY <1>1
  <2> QED BY <1>1, <1>2, <1>3, <2>1 DEF Root
<1> QED BY <1>3, <1>4 DEF trees, area

-----------------------------------------------------------------------------
(* The steps of the methods, class by class *)

LEMMA TypeNests ==
    ASSUME NestInv, TypeNext
    PROVE  NestSteps
<1> USE DEF Blank, Single, Naming, WithArea, Stays, Grows, Looks, In, Gets, Fails
<1>1. CASE StartCompound
  BY <1>1, CallNests DEF StartCompound
<1>2. CASE StartSelf
  <2> DEFINE trees == Leaf("SelfType", NextArea)
             frame == [Top EXCEPT !.at = "type.suffix", !.kids = 1, !.ast = trees]
  <2>1. ~Done /\ Continue(frame)
    BY <1>2 DEF StartSelf
  <2>2. Whole(trees)
    BY <2>1, NextIsAnArea, LeafWhole
  <2> HIDE DEF trees
  <2>3. frame.start = Top.start /\ frame.at = "type.suffix" /\ frame.ast = trees
    BY <2>1, Own DEF Frame
  <2> HIDE DEF frame
  <2>4. Fine(frame)
    BY <2>2, <2>3, FineWith DEF Whole
  <2> QED BY <2>1, <2>3, <2>4, ContinueNests
<1>3. CASE StartNamed
  BY <1>3, CallNests DEF StartNamed
<1>4. CASE Started
  BY <1>4, GotoWithNests DEF Started
<1>5. CASE StartFailed
  BY <1>5, GotoNests DEF StartFailed
<1>6. CASE TypeFails
  BY <1>6, PopsBadTokenNests DEF TypeFails
<1>7. CASE Optional
  <2> DEFINE first == Root(Top.ast).area
             area == Combine(first, NextArea)
             trees == Grown(Top.ast, "OptionalType", 1, area)
             frame == [Top EXCEPT !.ast = trees]
  <2>1. ~Done /\ Top.at = "type.suffix" /\ Continue(frame)
    BY <1>7 DEF Optional
  <2>2. Top.ast \in Tree /\ Whole(Top.ast)
    BY <2>1, Own DEF Fine
  <2>3. first \in Area /\ \A i \in 1 .. Len(Top.ast) : first.start <= Top.ast[i].area.start
    BY <2>2, NodesOf DEF Whole, Spans, Covers, Root
  <2> HIDE DEF first
  <2>4. area \in Area /\ Spans(area, Top.ast)
    BY <2>1, <2>3, UpToTheToken
  <2> HIDE DEF area
  <2>5. Whole(trees)
    BY <2>2, <2>4, GrownWhole DEF Whole
  <2> HIDE DEF trees
  <2>6. frame.start = Top.start /\ frame.at = "type.suffix" /\ frame.ast = trees
    BY <2>1, Own DEF Frame
  <2> HIDE DEF frame
  <2>7. Fine(frame)
    BY <2>5, <2>6, FineWith DEF Whole
  <2> QED BY <2>1, <2>6, <2>7, ContinueNests
<1>8. CASE Arrow
  BY <1>8, CallNests DEF Arrow
<1>9. CASE ArrowGetsType
  <2> DEFINE trees == Grown(Top.ast \o ret.ast, "LambdaType", 2,
                            Combine(Root(Top.ast).area, Root(ret.ast).area))
             frame == [Top EXCEPT !.at = "type.suffix", !.ast = trees]
  <2>1. ~Done /\ Top.at = "type.arrow" /\ ret.tag = "value" /\ Continue(frame)
    BY <1>9 DEF ArrowGetsType
  <2>2. Whole(trees)
    BY <2>1, NodeOverTrees DEF WithTree
  <2> HIDE DEF trees
  <2>3. frame.start = Top.start /\ frame.at = "type.suffix" /\ frame.ast = trees
    BY <2>1, Own DEF Frame
  <2> HIDE DEF frame
  <2>4. Fine(frame)
    BY <2>2, <2>3, FineWith DEF Whole
  <2> QED BY <2>1, <2>3, <2>4, ContinueNests
<1>10. CASE TypeReturns
  BY <1>10, Own, ReturnNests DEF TypeReturns, Fine
<1>11. CASE Identifier
  BY <1>11, NextIsAnArea, LeafWhole, ReturnNests, ErrorNests DEF Identifier
<1>12. CASE NamePart
  <2> DEFINE trees == Top.ast \o Leaf("Identifier", NextArea)
             kids == Top.kids + 1
             frame == [Top EXCEPT !.at = "named_type.next", !.kids = kids, !.ast = trees]
  <2>1. ~Done /\ Top.at \in Naming /\ (Continue(frame) \/ ReturnError(Unexpected))
    BY <1>12 DEF NamePart
  <2>2. /\ Nested(trees)
        /\ \A i \in 1 .. Len(trees) : /\ trees[1].area.start <= trees[i].area.start
                                      /\ trees[i].area.end <= Root(trees).area.end
    BY <2>1, OneMoreName
  <2> HIDE DEF trees, kids
  <2>3. frame.start = Top.start /\ frame.at = "named_type.next" /\ frame.ast = trees
    BY <2>1, Own DEF Frame
  <2> HIDE DEF frame
  <2>4. Fine(frame)
    BY <2>2, <2>3 DEF Fine
  <2> QED BY <2>1, <2>3, <2>4, ContinueNests, ErrorNests
<1>13. CASE NameGoesOn
  BY <1>13, GotoNests DEF NameGoesOn
<1>14. CASE NameReturns
  <2> DEFINE first == Top.ast[1].area
             last == Root(Top.ast).area
             area == Combine(first, last)
  <2>1. ~Done /\ Top.at = "named_type.next"
        /\ Return(Grown(Top.ast, "NamedType", Top.kids, area))
    BY <1>14 DEF NameReturns
  <2>2. /\ Top.ast \in Tree /\ Nested(Top.ast) /\ Len(Top.ast) \in Nat \ {0}
        /\ \A i \in 1 .. Len(Top.ast) : /\ first.start <= Top.ast[i].area.start
                                        /\ Top.ast[i].area.end <= last.end
                                        /\ Top.ast[i].area \in Area
    BY <2>1, Own, NodesOf DEF Fine, WithTree
  <2>3. first \in Area /\ last \in Area
    BY <2>2 DEF Root
  <2> HIDE DEF first, last
  <2>4. area \in Area /\ Spans(area, Top.ast)
    BY <2>2, <2>3, FromTo
  <2> HIDE DEF area
  <2>5. Whole(Grown(Top.ast, "NamedType", Top.kids, area))
    BY <2>2, <2>4, GrownWhole
  <2> QED BY <2>1, <2>5, ReturnNests
<1>15. CASE Parenthesis
  <2> DEFINE frame == [Top EXCEPT !.at = "compound_type.first", !.area = NextArea]
  <2>1. ~Done /\ Top.at = "compound_type" /\ CallFrom(frame, "type", 0)
    BY <1>15 DEF Parenthesis
  <2>2. frame.start = Top.start /\ frame.at = "compound_type.first" /\ frame.ast = <<>>
    BY <2>1, Own DEF Frame, Fine
  <2> HIDE DEF frame
  <2>3. Fine(frame)
    BY <2>2, FineWithout
  <2> QED BY <2>1, <2>2, <2>3, CallFromNests
<1>16. CASE FirstOfCompound
  BY <1>16, GotoWithNests DEF FirstOfCompound
<1>17. CASE Grouped
  <2> DEFINE area == Combine(Top.area, NextArea)
             trees == [Top.ast EXCEPT ![Len(Top.ast)].area = area]
  <2>1. ~Done /\ Top.at = "compound_type.which" /\ Return(trees)
    BY <1>17 DEF Grouped, GroupedArea
  <2>2. Top.ast \in Tree /\ Whole(Top.ast) /\ area \in Area /\ Spans(area, Top.ast)
    BY <2>1, Own, UpToTheToken DEF Fine
  <2> HIDE DEF area
  <2>3. Whole(trees)
    BY <2>2, WidenedWhole DEF Whole
  <2> QED BY <2>1, <2>3, ReturnNests
<1>18. CASE List
  <2> DEFINE frame == [Top EXCEPT !.at = "type_list", !.tok = NextToken]
  <2>1. ~Done /\ Top.at = "compound_type.which" /\ Continue(frame)
    BY <1>18 DEF List
  <2>2. /\ frame.start = Top.start /\ frame.at = "type_list"
        /\ frame.ast = Top.ast /\ frame.area = Top.area
    BY <2>1, Own DEF Frame
  <2> HIDE DEF frame
  <2>3. Fine(frame)
    BY <2>1, <2>2, FineAt
  <2> QED BY <2>1, <2>2, <2>3, ContinueNests
<1>19. CASE NotCompound
  BY <1>19, PopsBadTokenNests DEF NotCompound
<1>20. CASE ListGoesOn
  BY <1>20, CallNests DEF ListGoesOn
<1>21. CASE ListGetsType
  BY <1>21, GotoWithNests DEF ListGetsType
<1>22. CASE ListEnds
  BY <1>22, GotoNests, NodeClosed, ReturnNests DEF ListEnds
<1>23. CASE ListFails
  BY <1>23, PopsBadTokenNests DEF ListFails
<1>24. CASE LambdaArrow
  BY <1>24, CallNests, PopsBadTokenNests DEF LambdaArrow
<1>25. CASE LambdaReturns
  BY <1>25, NodeOverBoth, ReturnNests DEF LambdaReturns
<1>26. CASE TypePropagates
  BY <1>26, PropagatesNests DEF TypePropagates
<1> QED
  BY TypeNext, <1>1, <1>2, <1>3, <1>4, <1>5, <1>6, <1>7, <1>8, <1>9, <1>10, <1>11,
     <1>12, <1>13, <1>14, <1>15, <1>16, <1>17, <1>18, <1>19, <1>20, <1>21, <1>22,
     <1>23, <1>24, <1>25, <1>26 DEF TypeNext

LEMMA ExpressionNests ==
    ASSUME NestInv, ExpressionNext
    PROVE  NestSteps
<1> USE DEF Blank, Single, Naming, WithArea, Stays, Grows, Looks, In, Gets, Fails
<1>1. CASE Prefix
  <2> DEFINE frame == [Top EXCEPT !.at = "lhs.rhs", !.tok = NextToken, !.area = NextArea]
  <2>1. ~Done /\ Top.at = "expression_bp" /\ CallFrom(frame, "expression_bp", PrefixPower)
    BY <1>1 DEF Prefix
  <2>2. frame.start = Top.start /\ frame.at = "lhs.rhs" /\ frame.ast = <<>>
    BY <2>1, Own DEF Frame, Fine
  <2> HIDE DEF frame
  <2>3. Fine(frame)
    BY <2>2, FineWithout
  <2> QED BY <2>1, <2>2, <2>3, CallFromNests
<1>2. CASE PrefixGetsOperand
  <2> DEFINE trees == Grown(ret.ast, PrefixNode(Top.tok), 1,
                            Combine(Top.area, Root(ret.ast).area))
             frame == [Top EXCEPT !.at = "expression_bp.loop", !.ast = trees]
  <2>1. ~Done /\ ret.tag = "value" /\ Continue(frame)
    BY <1>2 DEF PrefixGetsOperand
  <2>2. Whole(trees)
    BY <2>1, NodeOverGot
  <2> HIDE DEF trees
  <2>3. frame.start = Top.start /\ frame.at = "expression_bp.loop" /\ frame.ast = trees
    BY <2>1, Own DEF Frame
  <2> HIDE DEF frame
  <2>4. Fine(frame)
    BY <2>2, <2>3, FineWith DEF Whole
  <2> QED BY <2>1, <2>3, <2>4, ContinueNests
<1>3. CASE Simple
  BY <1>3, CallNests DEF Simple
<1>4. CASE GetsLhs
  <2> DEFINE frame == [Top EXCEPT !.at = "expression_bp.loop", !.ast = ret.ast]
  <2>1. ~Done /\ ret.tag = "value" /\ Continue(frame)
    BY <1>4 DEF GetsLhs
  <2>2. frame.start = Top.start /\ frame.at = "expression_bp.loop" /\ frame.ast = ret.ast
    BY <2>1, Own DEF Frame
  <2> HIDE DEF frame
  <2>3. Fine(frame)
    BY <2>1, <2>2, Got, FineWith DEF Whole
  <2> QED BY <2>1, <2>2, <2>3, ContinueNests
<1>5. CASE ExpressionEnds
  BY <1>5, Own, ReturnNests DEF ExpressionEnds, Fine
<1>6. CASE NotAnInfix
  BY <1>6, ErrorNests DEF NotAnInfix
<1>7. CASE Infix
  <2> DEFINE frame == [Top EXCEPT !.at = "expression_bp.rhs", !.tok = NextToken]
  <2>1. ~Done /\ Top.at = "expression_bp.loop"
        /\ CallFrom(frame, "expression_bp", RightPower(NextToken))
    BY <1>7 DEF Infix
  <2>2. /\ frame.start = Top.start /\ frame.at = "expression_bp.rhs"
        /\ frame.ast = Top.ast /\ frame.area = Top.area
    BY <2>1, Own DEF Frame
  <2> HIDE DEF frame
  <2>3. Fine(frame)
    BY <2>1, <2>2, FineAt
  <2> QED BY <2>1, <2>2, <2>3, CallFromNests
<1>8. CASE InfixGetsOperand
  <2> DEFINE trees == Grown(Top.ast \o ret.ast, Top.tok, 2,
                            Combine(Root(Top.ast).area, Root(ret.ast).area))
             frame == [Top EXCEPT !.at = "expression_bp.loop", !.ast = trees]
  <2>1. ~Done /\ Top.at = "expression_bp.rhs" /\ ret.tag = "value" /\ Continue(frame)
    BY <1>8 DEF InfixGetsOperand
  <2>2. Whole(trees)
    BY <2>1, NodeOverTrees DEF WithTree
  <2> HIDE DEF trees
  <2>3. frame.start = Top.start /\ frame.at = "expression_bp.loop" /\ frame.ast = trees
    BY <2>1, Own DEF Frame
  <2> HIDE DEF frame
  <2>4. Fine(frame)
    BY <2>2, <2>3, FineWith DEF Whole
  <2> QED BY <2>1, <2>3, <2>4, ContinueNests
<1>9. CASE FunctionCall
  <2> DEFINE area == Root(Top.ast).area
             frame == [Top EXCEPT !.at = "function_params", !.kids = 1, !.tok = NextToken,
                                  !.area = area]
  <2>1. ~Done /\ Top.at = "expression_bp.loop" /\ Continue(frame)
    BY <1>9 DEF FunctionCall
  <2>2. /\ Nested(Top.ast)
        /\ \A i \in 1 .. Len(Top.ast) : area.start <= Top.ast[i].area.start
    BY <2>1, Own DEF Fine, Whole, Spans, Covers
  <2> HIDE DEF area
  <2>3. /\ frame.start = Top.start /\ frame.at = "function_params"
        /\ frame.ast = Top.ast /\ frame.area = area
    BY <2>1, Own DEF Frame
  <2> HIDE DEF frame
  <2>4. Fine(frame)
    BY <2>2, <2>3, FineWith
  <2> QED BY <2>1, <2>3, <2>4, ContinueNests
<1>10. CASE CallEnds
  <2> DEFINE trees == Grown(Top.ast, "FunctionCall", Top.kids, Combine(Top.area, NextArea))
             frame == [Top EXCEPT !.at = "expression_bp.loop", !.ast = trees]
  <2>1. ~Done /\ Top.at \in {"function_params", "function_params.sep"} /\ Continue(frame)
    BY <1>10 DEF CallEnds
  <2>2. Whole(trees)
    BY <2>1, NodeClosed
  <2> HIDE DEF trees
  <2>3. frame.start = Top.start /\ frame.at = "expression_bp.loop" /\ frame.ast = trees
    BY <2>1, Own DEF Frame
  <2> HIDE DEF frame
  <2>4. Fine(frame)
    BY <2>2, <2>3, FineWith DEF Whole
  <2> QED BY <2>1, <2>3, <2>4, ContinueNests
<1>11. CASE Param
  BY <1>11, CallNests DEF Param
<1>12. CASE GetsParam
  BY <1>12, GotoWithNests DEF GetsParam
<1>13. CASE NextParam
  BY <1>13, GotoNests DEF NextParam
<1>14. CASE NotAParam
  BY <1>14, PopsBadTokenNests DEF NotAParam
<1>15. CASE PrattPropagates
  BY <1>15, PropagatesNests DEF PrattPropagates
<1> QED
  BY ExpressionNext, <1>1, <1>2, <1>3, <1>4, <1>5, <1>6, <1>7, <1>8, <1>9, <1>10,
     <1>11, <1>12, <1>13, <1>14, <1>15 DEF ExpressionNext

LEMMA SimpleExpressionNests ==
    ASSUME NestInv, SimpleExpressionNext
    PROVE  NestSteps
<1> USE DEF Blank, Single, Naming, WithArea, Stays, Grows, Looks, In, Gets, Fails
<1>1. CASE Literal
  BY <1>1, NextIsAnArea, LeafWhole, ReturnNests DEF Literal
<1>2. CASE FirstAlternative
  <2> DEFINE frame == [Top EXCEPT !.at = "simple_expression.tried", !.kids = 1]
  <2>1. ~Done /\ CallFrom(frame, "identifier_or_simple_lambda", 0)
    BY <1>2 DEF FirstAlternative, Alternatives
  <2>2. /\ frame.start = Top.start /\ frame.at = "simple_expression.tried"
        /\ frame.ast = Top.ast /\ frame.area = Top.area
    BY <2>1, Own DEF Frame
  <2> HIDE DEF frame
  <2>3. Fine(frame)
    BY <2>1, <2>2, FineAt
  <2> QED BY <2>1, <2>2, <2>3, CallFromNests
<1>3. CASE AlternativeSucceeds
  BY <1>3, Got, ReturnNests DEF AlternativeSucceeds
<1>4. CASE NextAlternative
  <2> DEFINE kids == Top.kids + 1
             frame == [Top EXCEPT !.kids = kids]
  <2>1. /\ ~Done /\ Top.at = "simple_expression.tried" /\ Top.kids < Len(Alternatives)
        /\ CallFrom(frame, Alternatives[kids], 0)
    BY <1>4 DEF NextAlternative
  <2>2. Alternatives[kids] \notin Single
    <3>1. kids \in 1 .. 4
      BY <2>1, Own DEF Frame, Alternatives
    <3> QED BY <3>1 DEF Alternatives
  <2> HIDE DEF kids
  <2>3. /\ frame.start = Top.start /\ frame.at = "simple_expression.tried"
        /\ frame.ast = Top.ast /\ frame.area = Top.area
    BY <2>1, Own DEF Frame
  <2> HIDE DEF frame
  <2>4. Fine(frame)
    BY <2>1, <2>3, FineAt
  <2> QED BY <2>1, <2>2, <2>3, <2>4, CallFromNests
<1>5. CASE LastAlternativeFails
  BY <1>5, GotoNests DEF LastAlternativeFails
<1>6. CASE NoSimpleExpression
  BY <1>6, ErrorNests DEF NoSimpleExpression
<1>7. CASE IdentifierOrLambda
  <2> DEFINE trees == Leaf("Identifier", NextArea)
             frame == [Top EXCEPT !.at = "simple_lambda", !.ast = trees]
  <2>1. ~Done /\ (Continue(frame) \/ Rejects)
    BY <1>7 DEF IdentifierOrLambda
  <2>2. Whole(trees)
    BY <2>1, NextIsAnArea, LeafWhole
  <2> HIDE DEF trees
  <2>3. frame.start = Top.start /\ frame.at = "simple_lambda" /\ frame.ast = trees
    BY <2>1, Own DEF Frame
  <2> HIDE DEF frame
  <2>4. Fine(frame)
    BY <2>2, <2>3, FineWith DEF Whole
  <2> QED BY <2>1, <2>3, <2>4, ContinueNests, RejectsNests
<1>8. CASE TypedIdentifier
  BY <1>8, RejectsNests DEF TypedIdentifier
<1>9. CASE SimpleLambda
  BY <1>9, CallNests DEF SimpleLambda
<1>10. CASE JustIdentifier
  BY <1>10, Own, ReturnNests DEF JustIdentifier, Fine
<1>11. CASE SimpleLambdaReturns
  <2> DEFINE first == Root(Top.ast).area
  <2>1. /\ ~Done /\ Top.at = "simple_lambda.body" /\ ret.tag = "value"
        /\ Return(Grown(AsParameters(Top.ast) \o ret.ast, "LambdaExpr", 2,
                        Combine(first, Root(ret.ast).area)))
    BY <1>11 DEF SimpleLambdaReturns
  <2>2. Top.ast \in Tree /\ Whole(Top.ast)
    BY <2>1, Own DEF Fine
  <2>3. first \in Area /\ \A i \in 1 .. Len(Top.ast) : first.start <= Top.ast[i].area.start
    BY <2>2, NodesOf DEF Whole, Spans, Covers, Root
  <2> HIDE DEF first
  <2>4. \A i \in 1 .. Len(Top.ast) : Top.ast[i].area.end <= ret.start
    BY <2>1, Got
  <2>5. Whole(Grown(AsParameters(Top.ast) \o ret.ast, "LambdaExpr", 2,
                    Combine(first, Root(ret.ast).area)))
    BY <2>1, <2>2, <2>3, <2>4, LambdaWhole DEF Whole
  <2> QED BY <2>1, <2>5, ReturnNests
<1>12. CASE Swallows({"simple_lambda.body"})
  BY <1>12, SwallowsNests
<1> QED
  BY SimpleExpressionNext, <1>1, <1>2, <1>3, <1>4, <1>5, <1>6, <1>7, <1>8, <1>9, <1>10,
     <1>11, <1>12 DEF SimpleExpressionNext

LEMMA IfNests ==
    ASSUME NestInv, IfNext
    PROVE  NestSteps
<1> USE DEF Blank, Single, Naming, WithArea, Stays, Grows, Looks, In, Gets, Fails
<1>1. CASE IfStarts
  <2> DEFINE frame == [Top EXCEPT !.at = "if.open", !.tok = NextToken, !.area = NextArea]
  <2>1. /\ ~Done /\ Top.at \in {"if_expression", "elif_expression"}
        /\ Continue(frame)
    BY <1>1 DEF IfStarts
  <2>2. frame.start = Top.start /\ frame.at = "if.open" /\ frame.ast = <<>>
    BY <2>1, Own DEF Frame, Fine
  <2> HIDE DEF frame
  <2>3. Fine(frame)
    BY <2>2, FineWithout
  <2> QED BY <2>1, <2>2, <2>3, ContinueNests
<1>2. CASE NoIf
  BY <1>2, RejectsNests DEF NoIf
<1>3. CASE IfOpens
  BY <1>3, CallNests, RejectsNests DEF IfOpens
<1>4. CASE IfGetsCondition
  BY <1>4, GotoWithNests DEF IfGetsCondition
<1>5. CASE IfCloses
  BY <1>5, CallNests, RejectsNests DEF IfCloses
<1>6. CASE IfGetsBody
  BY <1>6, GotoWithNests, NodeOverBoth, ReturnNests DEF IfGetsBody
<1>7. CASE IfGoesOn
  <2>1. ~Done /\ Top.at = "if.else"
    BY <1>7 DEF IfGoesOn
  <2>2. \/ Call("if.elif", "elif_expression")
        \/ Call("if.last", "expression_bp")
        \/ Rejects
    BY <1>7 DEF IfGoesOn
  <2> QED BY <2>1, <2>2, CallNests, RejectsNests
<1>8. CASE IfGetsElif
  BY <1>8, GotoWithNests DEF IfGetsElif
<1>9. CASE IfReturns
  BY <1>9, NodeOverBoth, ReturnNests DEF IfReturns
<1>10. CASE Swallows({"if.condition", "if.then", "if.elif", "if.last"})
  BY <1>10, SwallowsNests
<1> QED
  BY IfNext, <1>1, <1>2, <1>3, <1>4, <1>5, <1>6, <1>7, <1>8, <1>9, <1>10 DEF IfNext

LEMMA BlockNests ==
    ASSUME NestInv, BlockNext
    PROVE  NestSteps
<1> USE DEF Blank, Single, Naming, WithArea, Stays, Grows, Looks, In, Gets, Fails
<1>1. CASE BlockStarts
  <2> DEFINE frame == [Top EXCEPT !.at = "block_expression.loop", !.area = NextArea]
  <2>1. ~Done /\ Top.at = "block_expression" /\ (Continue(frame) \/ Rejects)
    BY <1>1 DEF BlockStarts
  <2>2. frame.start = Top.start /\ frame.at = "block_expression.loop" /\ frame.ast = <<>>
    BY <2>1, Own DEF Frame, Fine
  <2> HIDE DEF frame
  <2>3. Fine(frame)
    BY <2>2, FineWithout
  <2> QED BY <2>1, <2>2, <2>3, ContinueNests, RejectsNests
<1>2. CASE BlockGoesOn
  BY <1>2, CallNests DEF BlockGoesOn
<1>3. CASE BlockGetsStatement
  <2>1. ~Done /\ Top.at = "block.stmt" /\ ret.tag = "value"
        /\ (GotoWith("block.single") \/ GotoWith("block.separator"))
    BY <1>3 DEF BlockGetsStatement
  <2> QED BY <2>1, GotoWithNests
<1>4. CASE SingleExpression
  BY <1>4, NodeClosed, ReturnNests DEF SingleExpression, BlockReturns
<1>5. CASE BlockSeparator
  BY <1>5, GotoNests, RejectsNests DEF BlockSeparator
<1>6. CASE BlockGetsExpression
  BY <1>6, GotoWithNests DEF BlockGetsExpression
<1>7. CASE BlockCloses
  BY <1>7, NodeClosed, ReturnNests, RejectsNests DEF BlockCloses, BlockReturns
<1>8. CASE Swallows({"block.stmt", "block.ret"})
  BY <1>8, SwallowsNests
<1> QED
  BY BlockNext, <1>1, <1>2, <1>3, <1>4, <1>5, <1>6, <1>7, <1>8 DEF BlockNext

LEMMA LParNests ==
    ASSUME NestInv, LParNext
    PROVE  NestSteps
<1> USE DEF Blank, Single, Naming, WithArea, Stays, Grows, Looks, In, Gets, Fails
<1>1. CASE LParStarts
  <2> DEFINE frame == [Top EXCEPT !.at = "lpar.first", !.area = NextArea]
  <2>1. ~Done /\ Top.at = "l_par_expression"
        /\ (CallFrom(frame, "expression_bp", 0) \/ Rejects)
    BY <1>1 DEF LParStarts
  <2>2. frame.start = Top.start /\ frame.at = "lpar.first" /\ frame.ast = <<>>
    BY <2>1, Own DEF Frame, Fine
  <2> HIDE DEF frame
  <2>3. Fine(frame)
    BY <2>2, FineWithout
  <2> QED BY <2>1, <2>2, <2>3, CallFromNests, RejectsNests
<1>2. CASE LParGetsFirst
  BY <1>2, GotoWithNests DEF LParGetsFirst
<1>3. CASE LParGrouped
  BY <1>3, GotoNests DEF LParGrouped
<1>4. CASE LParList
  BY <1>4, GotoNests DEF LParList
<1>5. CASE LParNeither
  BY <1>5, RejectsNests DEF LParNeither
<1>6. CASE TupleGoesOn
  BY <1>6, CallNests DEF TupleGoesOn
<1>7. CASE TupleGetsElement
  BY <1>7, GotoWithNests DEF TupleGetsElement
<1>8. CASE TupleEnds
  <2> DEFINE trees == Grown(Top.ast, "TupleExpr", Top.kids, Combine(Top.area, NextArea))
             frame == [Top EXCEPT !.at = "try_lambda", !.ast = trees]
  <2>1. ~Done /\ Top.at = "tuple" /\ Continue(frame)
    BY <1>8 DEF TupleEnds
  <2>2. /\ Whole(trees)
        /\ \A i \in 1 .. Len(trees) : Top.area.start <= trees[i].area.start
    BY <2>1, NodeClosed, TupleBegins
  <2> HIDE DEF trees
  <2>3. /\ frame.start = Top.start /\ frame.at = "try_lambda"
        /\ frame.ast = trees /\ frame.area = Top.area
    BY <2>1, Own DEF Frame
  <2> HIDE DEF frame
  <2>4. Fine(frame)
    BY <2>2, <2>3, FineWith DEF Whole
  <2> QED BY <2>1, <2>3, <2>4, ContinueNests
<1>9. CASE TupleBreaksOff
  BY <1>9, RejectsNests DEF TupleBreaksOff
<1>10. CASE NotALambda
  BY <1>10, Own, ReturnNests DEF NotALambda, Fine
<1>11. CASE TryLambda
  BY <1>11, CallNests DEF TryLambda
<1>12. CASE TryLambdaReturns
  <2> DEFINE names == Elements
             tree == Grown(AsParameters(names) \o ret.ast, "LambdaExpr", Len(names) + 1,
                           Combine(Top.area, Root(ret.ast).area))
  <2>1. ~Done /\ Top.at = "try_lambda.body" /\ ret.tag = "value"
        /\ (Return(tree) \/ Rejects)
    BY <1>12 DEF TryLambdaReturns
  <2>2. /\ names \in Tree /\ Nested(names)
        /\ \A i \in 1 .. Len(names) : i \in 1 .. Len(Top.ast) /\ names[i] = Top.ast[i]
    BY <2>1, Own, ElementsAre DEF WithTree
  <2> HIDE DEF names
  <2>3. \A i \in 1 .. Len(names) : /\ Top.area.start <= names[i].area.start
                                   /\ names[i].area.end <= ret.start
    BY <2>1, <2>2, Own, Got DEF Fine
  <2>4. Top.area \in Area
    BY <2>1, Own
  <2>5. Whole(tree)
    BY <2>1, <2>2, <2>3, <2>4, LambdaWhole
  <2> QED BY <2>1, <2>5, ReturnNests, RejectsNests
<1>13. CASE Swallows({"lpar.first", "tuple.elem", "try_lambda.body"})
  BY <1>13, SwallowsNests
<1>14. CASE TupleIsParameters
  BY <1>14, CallNests DEF TupleIsParameters
<1>15. CASE ParamsGetType
  <2> DEFINE params == AsParameters(Top.ast)
             last == Root(params)
             trees == SubSeq(params, 1, Len(params) - 1) \o Grown(ret.ast, last.kind, 1, last.area)
             frame == [Top EXCEPT !.at = "params", !.ast = trees]
  <2>1. ~Done /\ Top.at = "params.type" /\ ret.tag = "value" /\ (Continue(frame) \/ Rejects)
    BY <1>15 DEF ParamsGetType
  <2>2. /\ Top.ast \in Tree /\ Nested(Top.ast) /\ Top.ast # <<>>
        /\ Len(Top.ast) \in 1 .. Len(Top.ast)
        /\ \A i \in 1 .. Len(Top.ast) : /\ Top.area.start <= Top.ast[i].area.start
                                        /\ Top.ast[i].area \in Area
    BY <2>1, Own, NodesOf DEF Fine, WithTree
  <2>3. /\ params \in Tree /\ Nested(params) /\ Len(params) = Len(Top.ast)
        /\ \A i \in 1 .. Len(Top.ast) : /\ params[i].area = Top.ast[i].area
                                        /\ params[i].kind = "LambdaParameter"
    BY <2>2, ParametersNested, ParametersAreTrees
  <2> HIDE DEF params
  <2>4. params # <<>>
    BY <2>2, <2>3
  <2>5. /\ last.kind = "LambdaParameter" /\ last.area \in Area
        /\ Top.area.start <= last.area.start
    BY <2>2, <2>3 DEF Root
  <2>6. \A i \in 1 .. Len(params) : Top.area.start <= params[i].area.start
    BY <2>2, <2>3
  <2> HIDE DEF last
  <2>7. /\ Nested(trees)
        /\ \A i \in 1 .. Len(trees) : Top.area.start <= trees[i].area.start
    BY <2>1, <2>3, <2>4, <2>5, <2>6, LastGetsType
  <2> HIDE DEF trees
  <2>8. /\ frame.start = Top.start /\ frame.at = "params"
        /\ frame.ast = trees /\ frame.area = Top.area
    BY <2>1, Own DEF Frame
  <2> HIDE DEF frame
  <2>9. Fine(frame)
    BY <2>7, <2>8, FineWith
  <2> QED BY <2>1, <2>8, <2>9, ContinueNests, RejectsNests
<1>16. CASE ParamsGoOn
  BY <1>16, GotoNests DEF ParamsGoOn
<1>17. CASE ParamsEnd
  BY <1>17, GotoNests, RejectsNests DEF ParamsEnd
<1>18. CASE ParamStarts
  <2> DEFINE leaf == Leaf("LambdaParameter", NextArea)
             trees == Top.ast \o leaf
             kids == Top.kids + 1
             frame == [Top EXCEPT !.at = "lambda_parameter.colon", !.kids = kids,
                                  !.ast = trees]
  <2>1. ~Done /\ Top.at = "lambda_parameter" /\ (Continue(frame) \/ Rejects)
    BY <1>18 DEF ParamStarts
  <2>2. /\ Nested(trees)
        /\ \A i \in 1 .. Len(trees) : Top.area.start <= trees[i].area.start
    BY <2>1, OneMoreParameter
  <2> HIDE DEF trees, kids
  <2>3. /\ frame.start = Top.start /\ frame.at = "lambda_parameter.colon"
        /\ frame.ast = trees /\ frame.area = Top.area
    BY <2>1, Own DEF Frame
  <2> HIDE DEF frame
  <2>4. Fine(frame)
    BY <2>2, <2>3, FineWith
  <2> QED BY <2>1, <2>3, <2>4, ContinueNests, RejectsNests
<1>19. CASE ParamColon
  BY <1>19, CallNests, GotoNests DEF ParamColon
<1>20. CASE ParamGetsType
  <2> DEFINE area == Combine(Root(Top.ast).area, Root(ret.ast).area)
             trees == SubSeq(Top.ast, 1, Len(Top.ast) - 1)
                          \o Grown(ret.ast, "LambdaParameter", 1, area)
             frame == [Top EXCEPT !.at = "params", !.ast = trees]
  <2>1. ~Done /\ Top.at = "lambda_parameter.type" /\ ret.tag = "value" /\ Continue(frame)
    BY <1>20 DEF ParamGetsType
  <2>2. /\ Top.ast \in Tree /\ Nested(Top.ast) /\ Top.ast # <<>>
        /\ \A i \in 1 .. Len(Top.ast) : Top.area.start <= Top.ast[i].area.start
    BY <2>1, Own DEF Fine, WithTree
  <2>3. area \in Area /\ Top.area.start <= area.start
    BY <2>1, <2>2, TypedBegins
  <2> HIDE DEF area
  <2>4. /\ Nested(trees)
        /\ \A i \in 1 .. Len(trees) : Top.area.start <= trees[i].area.start
    BY <2>1, <2>2, <2>3, LastGetsType
  <2> HIDE DEF trees
  <2>5. /\ frame.start = Top.start /\ frame.at = "params"
        /\ frame.ast = trees /\ frame.area = Top.area
    BY <2>1, Own DEF Frame
  <2> HIDE DEF frame
  <2>6. Fine(frame)
    BY <2>4, <2>5, FineWith
  <2> QED BY <2>1, <2>5, <2>6, ContinueNests
<1>21. CASE ParamsArrow
  BY <1>21, CallNests, RejectsNests DEF ParamsArrow
<1>22. CASE ParamsReturn
  BY <1>22, NodeOverBoth, ReturnNests DEF ParamsReturn
<1>23. CASE Swallows({"params.type", "lambda_parameter.type", "params.body"})
  BY <1>23, SwallowsNests
<1> QED
  BY LParNext, <1>1, <1>2, <1>3, <1>4, <1>5, <1>6, <1>7, <1>8, <1>9, <1>10, <1>11,
     <1>12, <1>13, <1>14, <1>15, <1>16, <1>17, <1>18, <1>19, <1>20, <1>21, <1>22, <1>23
  DEF LParNext, UntypedNext, TypedNext

LEMMA StatementNests ==
    ASSUME NestInv, StatementNext
    PROVE  NestSteps
<1> USE DEF Blank, Single, Naming, WithArea, Stays, Grows, Looks, In, Gets, Fails
<1>1. CASE StatementIsLet
  BY <1>1, CallNests DEF StatementIsLet
<1>2. CASE StatementIsLoop
  BY <1>2, CallNests DEF StatementIsLoop
<1>3. CASE StatementGetsCondition
  BY <1>3, CallNests DEF StatementGetsCondition
<1>4. CASE StatementIsFor
  BY <1>4, GotoNests DEF StatementIsFor
<1>5. CASE StatementIsExpression
  BY <1>5, CallNests DEF StatementIsExpression
<1>6. CASE StatementReturns
  BY <1>6, Got, ReturnNests DEF StatementReturns
<1>7. CASE ForOpens
  <2> DEFINE frame == [Top EXCEPT !.at = "for.elems", !.tok = NextToken]
  <2>1. ~Done /\ Top.at = "for" /\ (Continue(frame) \/ Rejects)
    BY <1>7 DEF ForOpens
  <2>2. /\ frame.start = Top.start /\ frame.at = "for.elems"
        /\ frame.ast = Top.ast /\ frame.area = Top.area
    BY <2>1, Own DEF Frame
  <2> HIDE DEF frame
  <2>3. Fine(frame)
    BY <2>1, <2>2, FineAt
  <2> QED BY <2>1, <2>2, <2>3, ContinueNests, RejectsNests
<1>8. CASE ForElements
  BY <1>8, CallNests DEF ForElements
<1>9. CASE ForGetsElement
  BY <1>9, GotoWithNests DEF ForGetsElement
<1>10. CASE ForCloses
  BY <1>10, CallNests, RejectsNests DEF ForCloses
<1>11. CASE ForElement
  <2> DEFINE frame == [Top EXCEPT !.at = "for_element.which", !.area = NextArea]
  <2>1. ~Done /\ Top.at = "for_element" /\ (Continue(frame) \/ Rejects)
    BY <1>11 DEF ForElement
  <2>2. frame.start = Top.start /\ frame.at = "for_element.which" /\ frame.ast = <<>>
    BY <2>1, Own DEF Frame, Fine
  <2> HIDE DEF frame
  <2>3. Fine(frame)
    BY <2>2, FineWithout
  <2> QED BY <2>1, <2>2, <2>3, ContinueNests, RejectsNests
<1>12. CASE ForElementWhich
  <2> DEFINE frame == [Top EXCEPT !.at = "for_element.rhs", !.tok = NextToken]
  <2>1. ~Done /\ Top.at = "for_element.which"
        /\ (CallFrom(frame, "expression_bp", 0) \/ Rejects)
    BY <1>12 DEF ForElementWhich
  <2>2. /\ frame.start = Top.start /\ frame.at = "for_element.rhs"
        /\ frame.ast = Top.ast /\ frame.area = Top.area
    BY <2>1, Own DEF Frame
  <2> HIDE DEF frame
  <2>3. Fine(frame)
    BY <2>1, <2>2, FineAt
  <2> QED BY <2>1, <2>2, <2>3, CallFromNests, RejectsNests
<1>13. CASE ForElementReturns
  BY <1>13, NodeOverGot, ReturnNests DEF ForElementReturns
<1>14. CASE BlockOpens
  BY <1>14, CallNests, RejectsNests DEF BlockOpens
<1>15. CASE ListGetsStatement
  BY <1>15, GotoWithNests DEF ListGetsStatement
<1>16. CASE ListSeparator
  <2>1. ~Done /\ Top.at = "stmt_list"
    BY <1>16 DEF ListSeparator
  <2>2. \/ PopNothing
        \/ Call("stmt_list.stmt", "statement")
        \/ ReturnError(NullOpt)
    BY <1>16 DEF ListSeparator
  <2>3. CASE PopNothing
    BY <2>1, <2>3 DEF NestSteps
  <2> QED BY <2>1, <2>2, <2>3, CallNests, ErrorNests
<1>17. CASE Let
  <2> DEFINE frame == [Top EXCEPT !.at = "let.identifier", !.area = NextArea]
  <2>1. ~Done /\ Top.at = "let" /\ (Continue(frame) \/ ReturnError(Unexpected))
    BY <1>17 DEF Let
  <2>2. frame.start = Top.start /\ frame.at = "let.identifier" /\ frame.ast = <<>>
    BY <2>1, Own DEF Frame, Fine
  <2> HIDE DEF frame
  <2>3. Fine(frame)
    BY <2>2, FineWithout
  <2> QED BY <2>1, <2>2, <2>3, ContinueNests, ErrorNests
<1>18. CASE LetIdentifier
  BY <1>18, GotoNests, ErrorNests DEF LetIdentifier
<1>19. CASE LetColon
  BY <1>19, CallNests, GotoNests DEF LetColon
<1>20. CASE LetGetsType
  BY <1>20, GotoWithNests DEF LetGetsType
<1>21. CASE LetAssign
  <2>1. ~Done /\ Top.at = "let.assign"
    BY <1>21 DEF LetAssign
  <2>2. \/ PopNothing
        \/ Call("let.rhs", "expression_bp")
        \/ ReturnError([what |-> "UnexpectedToken", at |-> Top.start + 1])
    BY <1>21 DEF LetAssign
  <2>3. CASE PopNothing
    BY <2>1, <2>3 DEF NestSteps
  <2> QED BY <2>1, <2>2, <2>3, CallNests, ErrorNests
<1>22. CASE LetReturns
  BY <1>22, NodeOverBoth, ReturnNests DEF LetReturns
<1>23. CASE LetPropagates
  BY <1>23, PropagatesNests DEF LetPropagates
<1>24. CASE Swallows({"statement.let", "statement.condition", "statement.body",
                      "statement.expression", "for.elem", "for_element.rhs",
                      "stmt_list.stmt"})
  BY <1>24, SwallowsNests
<1> QED
  BY StatementNext, <1>1, <1>2, <1>3, <1>4, <1>5, <1>6, <1>7, <1>8, <1>9, <1>10, <1>11,
     <1>12, <1>13, <1>14, <1>15, <1>16, <1>17, <1>18, <1>19, <1>20, <1>21, <1>22, <1>23,
     <1>24 DEF StatementNext, LetNext

LEMMA NestKeeps ==
    ASSUME NestInv, ParserNext
    PROVE  NestInv'
<1>1. Inv'
  BY ParserKeeps DEF NestInv
<1>2. NestSteps
  BY TypeNests, ExpressionNests, SimpleExpressionNests, IfNests, BlockNests, LParNests,
     StatementNests DEF ParserNext
<1> QED BY <1>1, <1>2, NestStepsKeep

-----------------------------------------------------------------------------
(* The theorem *)

LEMMA NestInvHolds == Spec => []NestInv
<1>1. Init => NestInv
  <2> SUFFICES ASSUME NEW entry \in Entries, Starting(entry) PROVE NestInv
    BY DEF Init
  <2> DEFINE frame == NewFrame(entry, 0, 0)
  <2>1. /\ frame.at = entry /\ frame.ast = <<>>
        /\ stack = <<frame>> /\ ret.tag = "none"
    BY DEF Starting, NewFrame, NoResult
  <2>2. entry \notin Single
    BY EntriesAssumption DEF Single
  <2> HIDE DEF frame
  <2>3. Fine(frame)
    BY <2>1, <2>2, FineWithout
  <2>4. Len(stack) = 1 /\ \A i \in 1 .. Len(stack) : stack[i] = frame
    BY <2>1
  <2>5. Apart
    BY <2>1, <2>4 DEF Apart
  <2>6. Inv
    BY InitKeeps DEF Init
  <2> QED BY <2>1, <2>3, <2>4, <2>5, <2>6 DEF NestInv
<1>2. NestInv /\ [Next]_vars => NestInv'
  <2> SUFFICES ASSUME NestInv, [Next]_vars PROVE NestInv'
    OBVIOUS
  <2>1. CASE LexNext
    BY <2>1, LexKeeps DEF LexNext, NestInv, Apart, Top
  <2>2. CASE ParserNext
    BY <2>2, NestKeeps
  <2>3. CASE UNCHANGED vars
    BY <2>3 DEF vars, Inv, NestInv, Apart, Top
  <2> QED BY <2>1, <2>2, <2>3 DEF Next
<1> QED BY <1>1, <1>2, PTL DEF Spec

(* Whatever a public method returns of whatever source, every node of it   *)
(* but a parameter covers the areas of all nodes below it.                 *)
THEOREM NodesNest == Spec => []AreasNest
<1>1. NestInv => AreasNest
  <2> SUFFICES ASSUME NestInv, ret.tag = "value" PROVE AreasNest
    BY DEF AreasNest
  <2>1. Nested(ret.ast) /\ DOMAIN ret.ast = 1 .. Len(ret.ast)
    BY LenProperties DEF NestInv, Whole, Inv, ResultsAt, TreesIn
  <2> QED BY <2>1 DEF AreasNest, Nested
<1> QED BY <1>1, NestInvHolds, PTL
=============================================================================
