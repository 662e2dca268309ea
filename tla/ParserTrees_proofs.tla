------------------------- MODULE ParserTrees_proofs -------------------------
(***************************************************************************)
(* Proofs about the trees the Parser builds, for every source and every    *)
(* public method: what a method returns is one tree, of which every node   *)
(* has the parts that its class declares.                                  *)
(*                                                                         *)
(* A method's trees stand one after the other in one sequence of nodes, so *)
(* where one of them ends is a matter of the sizes of those behind it.     *)
(* The invariant says of every step of every method how many trees the     *)
(* method holds and of which kinds.                                        *)
(***************************************************************************)
EXTENDS Parser_proofs, Induction

-----------------------------------------------------------------------------
(* Trees in a row *)

(* The nodes behind lo up to hi are trees with roots of the given kinds,   *)
(* the k-th of which is node ends[k].                                      *)
RowAt(trees, lo, hi, kinds, ends) ==
    /\ ends \in [0 .. Len(kinds) -> Nat]
    /\ ends[0] = lo /\ ends[Len(kinds)] = hi
    /\ \A k \in 1 .. Len(kinds) :
           /\ ends[k] \in lo + 1 .. hi
           /\ trees[ends[k]].size = ends[k] - ends[k - 1]
           /\ trees[ends[k]].kind = kinds[k]

Row(trees, lo, hi, kinds) == \E ends : RowAt(trees, lo, hi, kinds, ends)

(* Node i stands directly behind its parts, which its class allows. *)
Built(trees, i) ==
    /\ trees[i].size \in 1 .. i
    /\ \E kinds \in Seq(NodeKinds) :
           /\ Len(kinds) = trees[i].arity
           /\ Row(trees, i - trees[i].size, i - 1, kinds)
           /\ Declared(trees[i].kind, kinds)

AllBuilt(trees) == \A i \in 1 .. Len(trees) : Built(trees, i)

Forest(trees, kinds) ==
    /\ kinds \in Seq(NodeKinds)
    /\ AllBuilt(trees)
    /\ Row(trees, 0, Len(trees), kinds)

(* Nodes that differ in their areas only *)
Alike(node, other) ==
    node.kind = other.kind /\ node.arity = other.arity /\ node.size = other.size

(* A row, and a node with its parts, at another place *)
LEMMA RowMoves ==
    ASSUME NEW trees, NEW others, NEW lo \in Nat, NEW hi \in Nat, NEW d \in Nat,
           NEW kinds \in Seq(NodeKinds), Row(trees, lo, hi, kinds),
           \A j \in lo + 1 .. hi : Alike(others[j + d], trees[j])
    PROVE  Row(others, lo + d, hi + d, kinds)
<1> PICK ends : RowAt(trees, lo, hi, kinds, ends)
  BY DEF Row
<1> DEFINE n == Len(kinds)
           moved == [k \in 0 .. n |-> ends[k] + d]
<1>1. n \in Nat
  BY LenProperties
<1> HIDE DEF n
<1>2. moved \in [0 .. n -> Nat] /\ \A k \in 0 .. n : moved[k] = ends[k] + d
  BY DEF RowAt, n
<1> HIDE DEF moved
<1>3. moved[0] = lo + d /\ moved[n] = hi + d
  <2>1. 0 \in 0 .. n /\ n \in 0 .. n
    BY <1>1
  <2> QED BY <1>2, <2>1 DEF RowAt, n
<1>4. ASSUME NEW k \in 1 .. n
      PROVE  /\ moved[k] \in (lo + d) + 1 .. hi + d
             /\ others[moved[k]].size = moved[k] - moved[k - 1]
             /\ others[moved[k]].kind = kinds[k]
  <2>1. /\ ends[k] \in lo + 1 .. hi /\ trees[ends[k]].size = ends[k] - ends[k - 1]
        /\ trees[ends[k]].kind = kinds[k] /\ ends[k - 1] \in Nat
    BY <1>1 DEF RowAt, n
  <2>2. moved[k] = ends[k] + d /\ moved[k - 1] = ends[k - 1] + d
    BY <1>1, <1>2
  <2>3. /\ others[moved[k]].size = trees[ends[k]].size
        /\ others[moved[k]].kind = trees[ends[k]].kind
    BY <2>1, <2>2 DEF Alike
  <2> QED BY <2>1, <2>2, <2>3
<1> QED BY <1>2, <1>3, <1>4 DEF Row, RowAt, n

LEMMA BuiltMoves ==
    ASSUME NEW trees, NEW others, NEW i \in Nat, NEW d \in Nat, Built(trees, i),
           \A j \in 1 .. i : Alike(others[j + d], trees[j])
    PROVE  Built(others, i + d)
<1> DEFINE n == trees[i].size
<1>1. n \in 1 .. i /\ i \in 1 .. i
  BY DEF Built
<1> PICK kinds \in Seq(NodeKinds) :
        /\ Len(kinds) = trees[i].arity
        /\ Row(trees, i - n, i - 1, kinds)
        /\ Declared(trees[i].kind, kinds)
  BY DEF Built
<1>2. /\ others[i + d].kind = trees[i].kind /\ others[i + d].arity = trees[i].arity
      /\ others[i + d].size = n
  BY <1>1 DEF Alike
<1> HIDE DEF n
<1>3. i - n \in Nat /\ i - 1 \in Nat
  BY <1>1
<1>4. \A j \in (i - n) + 1 .. i - 1 : j \in 1 .. i
  BY <1>1
<1>5. Row(others, (i - n) + d, (i - 1) + d, kinds)
  BY <1>3, <1>4, RowMoves
<1>6. (i - n) + d = (i + d) - n /\ (i - 1) + d = (i + d) - 1 /\ n \in 1 .. i + d
  BY <1>1
<1> QED BY <1>2, <1>5, <1>6 DEF Built

LEMMA NoRow == ASSUME NEW trees, NEW at \in Nat PROVE Row(trees, at, at, <<>>)
<1> DEFINE ends == [k \in 0 .. 0 |-> at]
<1>1. Len(<<>>) = 0 /\ 1 .. 0 = {}
  OBVIOUS
<1>2. RowAt(trees, at, at, <<>>, ends)
  BY <1>1 DEF RowAt
<1> QED BY <1>2 DEF Row

LEMMA RowOfOne ==
    ASSUME NEW trees, NEW lo \in Nat, NEW hi \in Nat, trees[hi].size \in Nat \ {0},
           trees[hi].size = hi - lo
    PROVE  Row(trees, lo, hi, <<trees[hi].kind>>)
<1> DEFINE ends == [k \in 0 .. 1 |-> IF k = 0 THEN lo ELSE hi]
           kinds == <<trees[hi].kind>>
<1>1. Len(kinds) = 1 /\ kinds[1] = trees[hi].kind /\ 1 .. 1 = {1}
  OBVIOUS
<1>2. ends \in [0 .. 1 -> Nat] /\ ends[0] = lo /\ ends[1] = hi
  OBVIOUS
<1>3. hi \in lo + 1 .. hi
  OBVIOUS
<1> HIDE DEF ends, kinds
<1>4. \A k \in 1 .. Len(kinds) : k = 1 /\ k - 1 = 0
  BY <1>1
<1>5. RowAt(trees, lo, hi, kinds, ends)
  BY <1>1, <1>2, <1>3, <1>4 DEF RowAt
<1> QED BY <1>5 DEF Row, kinds

LEMMA RowsJoin ==
    ASSUME NEW trees, NEW lo \in Nat, NEW mid \in Nat, NEW hi \in Nat,
           lo <= mid, mid <= hi,
           NEW left \in Seq(NodeKinds), NEW right \in Seq(NodeKinds),
           Row(trees, lo, mid, left), Row(trees, mid, hi, right)
    PROVE  Row(trees, lo, hi, left \o right)
<1> PICK first : RowAt(trees, lo, mid, left, first)
  BY DEF Row
<1> PICK second : RowAt(trees, mid, hi, right, second)
  BY DEF Row
<1> DEFINE n == Len(left)
           m == Len(right)
           kinds == left \o right
           ends == [k \in 0 .. n + m |-> IF k <= n THEN first[k] ELSE second[k - n]]
<1>1. /\ n \in Nat /\ m \in Nat /\ Len(kinds) = n + m
      /\ \A k \in 1 .. n + m : kinds[k] = IF k <= n THEN left[k] ELSE right[k - n]
  BY LenProperties, ConcatProperties
<1>2. /\ first \in [0 .. n -> Nat] /\ first[0] = lo /\ first[n] = mid
      /\ \A k \in 1 .. n :
             /\ first[k] \in lo + 1 .. mid
             /\ trees[first[k]].size = first[k] - first[k - 1]
             /\ trees[first[k]].kind = left[k]
  BY DEF RowAt
<1>3. /\ second \in [0 .. m -> Nat] /\ second[0] = mid /\ second[m] = hi
      /\ \A k \in 1 .. m :
             /\ second[k] \in mid + 1 .. hi
             /\ trees[second[k]].size = second[k] - second[k - 1]
             /\ trees[second[k]].kind = right[k]
  BY DEF RowAt
<1> HIDE DEF n, m, kinds
<1>4. /\ ends \in [0 .. n + m -> Nat]
      /\ \A k \in 0 .. n : ends[k] = first[k]
      /\ \A k \in 0 .. m : ends[n + k] = second[k]
  <2>1. \A k \in 0 .. n + m : k <= n => k \in 0 .. n
    BY <1>1
  <2>2. \A k \in 0 .. n + m : ~(k <= n) => k - n \in 0 .. m
    BY <1>1
  <2>3. ends \in [0 .. n + m -> Nat]
    BY <1>2, <1>3, <2>1, <2>2
  <2>4. \A k \in 0 .. n : ends[k] = first[k]
    BY <1>1
  <2>5. ASSUME NEW k \in 0 .. m PROVE ends[n + k] = second[k]
    <3>1. CASE k = 0
      BY <1>1, <1>2, <1>3, <2>4, <3>1
    <3>2. CASE k # 0
      <4>1. n + k \in 0 .. n + m /\ ~(n + k <= n) /\ (n + k) - n = k
        BY <1>1, <3>2
      <4> QED BY <4>1
    <3> QED BY <3>1, <3>2
  <2> QED BY <2>3, <2>4, <2>5
<1> HIDE DEF ends
<1>5. ends[0] = lo /\ ends[n + m] = hi
  BY <1>1, <1>2, <1>3, <1>4
<1>6. ASSUME NEW k \in 1 .. n + m
      PROVE  /\ ends[k] \in lo + 1 .. hi
             /\ trees[ends[k]].size = ends[k] - ends[k - 1]
             /\ trees[ends[k]].kind = kinds[k]
  <2>1. CASE k <= n
    <3>1. k \in 1 .. n /\ k \in 0 .. n /\ k - 1 \in 0 .. n
      BY <1>1, <2>1
    <3>2. ends[k] = first[k] /\ ends[k - 1] = first[k - 1] /\ kinds[k] = left[k]
      BY <1>1, <1>4, <2>1, <3>1
    <3>3. first[k] \in lo + 1 .. hi
      BY <1>2, <3>1
    <3> QED BY <1>2, <3>1, <3>2, <3>3
  <2>2. CASE ~(k <= n)
    <3> DEFINE j == k - n
    <3>1. j \in 1 .. m /\ j \in 0 .. m /\ j - 1 \in 0 .. m
          /\ k = n + j /\ k - 1 = n + (j - 1)
      BY <1>1, <2>2
    <3>2. kinds[k] = right[j]
      BY <1>1, <2>2
    <3> HIDE DEF j
    <3>3. ends[k] = second[j] /\ ends[k - 1] = second[j - 1]
      BY <1>4, <3>1
    <3>4. second[j] \in lo + 1 .. hi
      BY <1>3, <3>1
    <3> QED BY <1>3, <3>1, <3>2, <3>3, <3>4
  <2> QED BY <2>1, <2>2
<1>7. RowAt(trees, lo, hi, kinds, ends)
  BY <1>1, <1>4, <1>5, <1>6 DEF RowAt
<1> QED BY <1>7 DEF Row, kinds

-----------------------------------------------------------------------------
(* Forests *)

LEMMA NoForest == Forest(<<>>, <<>>)
<1>1. Len(<<>>) = 0 /\ 1 .. 0 = {} /\ <<>> \in Seq(NodeKinds)
  OBVIOUS
<1> QED BY <1>1, NoRow DEF Forest, AllBuilt

LEMMA LeafForest ==
    ASSUME NEW kind \in NodeKinds, NEW area, Declared(kind, <<>>)
    PROVE  Forest(Leaf(kind, area), <<kind>>)
<1> DEFINE leaf == Leaf(kind, area)
<1>1. /\ Len(leaf) = 1 /\ leaf[1].kind = kind /\ leaf[1].arity = 0 /\ leaf[1].size = 1
  BY DEF Leaf
<1> HIDE DEF leaf
<1>2. Row(leaf, 0, 1, <<leaf[1].kind>>)
  BY <1>1, RowOfOne
<1>3. Built(leaf, 1)
  <2>1. <<>> \in Seq(NodeKinds) /\ Len(<<>>) = leaf[1].arity
    BY <1>1
  <2>2. leaf[1].size \in 1 .. 1 /\ 1 - leaf[1].size = 0 /\ 1 - 1 = 0
    BY <1>1
  <2>3. Row(leaf, 0, 0, <<>>)
    BY NoRow
  <2>4. Declared(leaf[1].kind, <<>>)
    BY <1>1
  <2> QED BY <2>1, <2>2, <2>3, <2>4 DEF Built
<1>4. \A i \in 1 .. 1 : i = 1
  OBVIOUS
<1>5. <<kind>> \in Seq(NodeKinds)
  OBVIOUS
<1> QED BY <1>1, <1>2, <1>3, <1>4, <1>5 DEF Forest, AllBuilt, leaf

LEMMA ForestsJoin ==
    ASSUME NEW left \in Tree, NEW right \in Tree, NEW kinds, NEW others,
           Forest(left, kinds), Forest(right, others)
    PROVE  Forest(left \o right, kinds \o others)
<1> DEFINE trees == left \o right
           n == Len(left)
           m == Len(right)
<1>1. /\ n \in Nat /\ m \in Nat /\ Len(trees) = n + m
      /\ \A i \in 1 .. n + m : trees[i] = IF i <= n THEN left[i] ELSE right[i - n]
  BY ConcatIs
<1> HIDE DEF trees, n, m
<1>2. \A j \in 0 + 1 .. n : Alike(trees[j + 0], left[j])
  <2>1. \A j \in 0 + 1 .. n : j \in 1 .. n + m /\ j <= n /\ j + 0 = j
    BY <1>1
  <2> QED BY <1>1, <2>1 DEF Alike
<1>3. \A j \in 0 + 1 .. m : Alike(trees[j + n], right[j])
  <2>1. \A j \in 0 + 1 .. m : j + n \in 1 .. n + m /\ ~(j + n <= n) /\ (j + n) - n = j
    BY <1>1
  <2> QED BY <1>1, <2>1 DEF Alike
<1>4. Row(trees, 0, n, kinds)
  <2>1. Row(trees, 0 + 0, n + 0, kinds)
    BY <1>1, <1>2, RowMoves DEF Forest, n
  <2> QED BY <1>1, <2>1
<1>5. Row(trees, n, n + m, others)
  <2>1. Row(trees, 0 + n, m + n, others)
    BY <1>1, <1>3, RowMoves DEF Forest, m
  <2>2. 0 + n = n /\ m + n = n + m
    BY <1>1
  <2> QED BY <2>1, <2>2
<1>6. Row(trees, 0, n + m, kinds \o others)
  <2>1. 0 <= n /\ n <= n + m /\ n + m \in Nat
    BY <1>1
  <2> QED BY <1>1, <1>4, <1>5, <2>1, RowsJoin DEF Forest
<1>7. kinds \o others \in Seq(NodeKinds)
  BY ConcatProperties DEF Forest
<1>8. ASSUME NEW i \in 1 .. n + m PROVE Built(trees, i)
  <2>1. CASE i <= n
    <3>1. i \in Nat /\ i \in 1 .. n /\ i + 0 = i /\ \A j \in 1 .. i : j \in 0 + 1 .. n
      BY <1>1, <2>1
    <3>2. Built(left, i)
      BY <3>1 DEF Forest, AllBuilt, n
    <3>3. Built(trees, i + 0)
      BY <1>2, <3>1, <3>2, BuiltMoves
    <3> QED BY <3>1, <3>3
  <2>2. CASE ~(i <= n)
    <3> DEFINE k == i - n
    <3>1. /\ k \in Nat /\ k \in 1 .. m /\ k + n = i /\ \A j \in 1 .. k : j \in 0 + 1 .. m
      BY <1>1, <2>2
    <3> HIDE DEF k
    <3>2. Built(right, k)
      BY <3>1 DEF Forest, AllBuilt, m
    <3>3. Built(trees, k + n)
      BY <1>1, <1>3, <3>1, <3>2, BuiltMoves
    <3> QED BY <3>1, <3>3
  <2> QED BY <2>1, <2>2
<1> QED BY <1>1, <1>6, <1>7, <1>8 DEF Forest, AllBuilt, trees

(* Trees become the parts of a node. *)
LEMMA ForestGrows ==
    ASSUME NEW trees \in Tree, NEW kinds, Forest(trees, kinds),
           NEW kind \in NodeKinds, Declared(kind, kinds),
           NEW arity, arity = Len(kinds), NEW area
    PROVE  Forest(Grown(trees, kind, arity, area), <<kind>>)
<1> DEFINE n == Len(trees)
           node == [kind |-> kind, arity |-> arity, size |-> n + 1, area |-> area]
           grown == Grown(trees, kind, arity, area)
<1>1. n \in Nat /\ grown = Append(trees, node)
  BY NodesOf DEF Grown
<1>2. node.kind = kind /\ node.arity = arity /\ node.size = n + 1
  OBVIOUS
<1> HIDE DEF node
<1>3. /\ Len(grown) = n + 1 /\ grown[n + 1] = node
      /\ \A i \in 1 .. n : grown[i] = trees[i]
  BY <1>1, AppendProperties DEF Tree
<1> HIDE DEF grown, n
<1>4. \A j \in 0 + 1 .. n : Alike(grown[j + 0], trees[j])
  <2>1. \A j \in 0 + 1 .. n : j + 0 = j /\ j \in 1 .. n
    BY <1>1
  <2> QED BY <1>3, <2>1 DEF Alike
<1>5. Row(grown, 0, n, kinds)
  <2>1. Row(grown, 0 + 0, n + 0, kinds)
    BY <1>1, <1>4, RowMoves DEF Forest, n
  <2> QED BY <1>1, <2>1
<1>6. Built(grown, n + 1)
  <2>1. n + 1 \in 1 .. n + 1 /\ (n + 1) - (n + 1) = 0 /\ (n + 1) - 1 = n
    BY <1>1
  <2> QED BY <1>2, <1>3, <1>5, <2>1 DEF Built, Forest
<1>7. Row(grown, 0, n + 1, <<kind>>)
  <2>1. n + 1 \in Nat \ {0} /\ n + 1 = (n + 1) - 0
    BY <1>1
  <2> QED BY <1>2, <1>3, <2>1, RowOfOne
<1>8. ASSUME NEW i \in 1 .. n + 1 PROVE Built(grown, i)
  <2>1. CASE i \in 1 .. n
    <3>1. Built(trees, i) /\ i \in Nat /\ i + 0 = i /\ \A j \in 1 .. i : j \in 0 + 1 .. n
      BY <1>1, <2>1 DEF Forest, AllBuilt, n
    <3>2. Built(grown, i + 0)
      BY <1>4, <3>1, BuiltMoves
    <3> QED BY <3>1, <3>2
  <2>2. i \in 1 .. n \/ i = n + 1
    BY <1>1
  <2> QED BY <1>6, <2>1, <2>2
<1>9. <<kind>> \in Seq(NodeKinds)
  OBVIOUS
<1> QED BY <1>3, <1>7, <1>8, <1>9 DEF Forest, AllBuilt, grown

LEMMA SameForest ==
    ASSUME NEW trees, NEW others, NEW kinds, Forest(trees, kinds),
           Len(trees) \in Nat, Len(others) = Len(trees),
           \A i \in 1 .. Len(trees) : Alike(others[i], trees[i])
    PROVE  Forest(others, kinds)
<1> DEFINE n == Len(trees)
<1>1. \A j \in 0 + 1 .. n : j + 0 = j /\ j \in 1 .. n
  OBVIOUS
<1>2. \A j \in 0 + 1 .. n : Alike(others[j + 0], trees[j])
  BY <1>1
<1>3. Row(others, 0, n, kinds)
  <2>1. Row(others, 0 + 0, n + 0, kinds)
    BY <1>2, RowMoves DEF Forest
  <2> QED BY <2>1
<1>4. ASSUME NEW i \in 1 .. n PROVE Built(others, i)
  <2>1. Built(trees, i) /\ i \in Nat /\ i + 0 = i /\ \A j \in 1 .. i : j \in 0 + 1 .. n
    BY DEF Forest, AllBuilt
  <2>2. Built(others, i + 0)
    BY <1>2, <2>1, BuiltMoves
  <2> QED BY <2>1, <2>2
<1> QED BY <1>3, <1>4 DEF Forest, AllBuilt

(* The last of the trees is the one whose root comes last. *)
LEMMA ForestRoot ==
    ASSUME NEW trees \in Tree, NEW kinds, Forest(trees, kinds), kinds # <<>>
    PROVE  /\ trees # <<>>
           /\ Root(trees).kind = LastPart(kinds)
           /\ Len(kinds) = 1 => Root(trees).size = Len(trees)
<1> DEFINE n == Len(kinds)
           last == Len(trees)
<1>1. n \in Nat \ {0} /\ last \in Nat
  BY EmptySeq, LenProperties, NodesOf DEF Forest
<1> PICK ends : RowAt(trees, 0, last, kinds, ends)
  BY DEF Forest, Row
<1>2. n \in 1 .. n
  BY <1>1
<1>3. /\ ends[n] = last /\ ends[0] = 0
      /\ ends[n] \in 0 + 1 .. last
      /\ trees[ends[n]].size = ends[n] - ends[n - 1]
      /\ trees[ends[n]].kind = kinds[n]
  BY <1>2 DEF RowAt
<1>4. last # 0
  BY <1>1, <1>3
<1>5. trees # <<>>
  BY <1>4
<1>6. n = 1 => trees[last].size = last
  <2> SUFFICES ASSUME n = 1 PROVE trees[last].size = last
    OBVIOUS
  <2>1. n - 1 = 0
    OBVIOUS
  <2>2. trees[last].size = last - 0
    BY <1>3, <2>1
  <2> QED BY <1>1, <2>2
<1> QED BY <1>3, <1>5, <1>6 DEF Root, LastPart

(* A row ends no later than one node before the next one does. *)
LEMMA RowAscends ==
    ASSUME NEW trees, NEW hi \in Nat, NEW kinds \in Seq(NodeKinds), NEW ends,
           RowAt(trees, 0, hi, kinds, ends),
           \A i \in 1 .. hi : trees[i].size \in Nat \ {0}
    PROVE  \A k \in 0 .. Len(kinds) : ends[Len(kinds) - k] <= hi - k
<1> DEFINE n == Len(kinds)
           Wrong == {k \in 0 .. n : ~(ends[n - k] <= hi - k)}
<1>1. n \in Nat
  BY LenProperties
<1> HIDE DEF n
<1>2. /\ ends \in [0 .. n -> Nat] /\ ends[n] = hi
      /\ \A k \in 1 .. n : /\ ends[k] \in 0 + 1 .. hi
                            /\ trees[ends[k]].size = ends[k] - ends[k - 1]
  BY DEF RowAt, n
<1>3. ASSUME NEW k \in Wrong PROVE \E j \in Wrong : j < k
  <2>1. k \in 0 .. n /\ ~(ends[n - k] <= hi - k)
    OBVIOUS
  <2> HIDE DEF Wrong
  <2>2. k # 0
    BY <1>1, <1>2, <2>1
  <2>3. /\ k - 1 \in 0 .. n /\ k - 1 < k /\ n - (k - 1) \in 1 .. n
        /\ (n - (k - 1)) - 1 = n - k /\ n - k \in 0 .. n
    BY <1>1, <2>1, <2>2
  <2> DEFINE next == ends[n - (k - 1)]
             this == ends[n - k]
  <2>4. /\ next \in Nat /\ this \in Nat /\ next - this \in Nat \ {0}
    <3>1. next \in 1 .. hi /\ trees[next].size = next - this
      BY <1>2, <2>3
    <3>2. this \in Nat
      BY <1>2, <2>3
    <3> HIDE DEF next, this
    <3>3. next - this \in Nat \ {0}
      BY <3>1
    <3> QED BY <3>1, <3>2, <3>3
  <2>5. ~(this <= hi - k)
    BY <2>1
  <2> HIDE DEF next, this
  <2>6. ~(next <= hi - (k - 1))
    BY <2>1, <2>4, <2>5
  <2>7. k - 1 \in Wrong
    BY <2>3, <2>6 DEF Wrong, next
  <2> QED BY <2>3, <2>7
<1>4. Wrong \subseteq Nat
  OBVIOUS
<1> HIDE DEF Wrong
<1>5. Wrong = {}
  BY <1>3, <1>4, NoCounterexample
<1> QED BY <1>5 DEF Wrong, n

(* Where every tree is one node, they are as many as the nodes. *)
LEMMA LeavesCount ==
    ASSUME NEW trees \in Tree, NEW kinds, Forest(trees, kinds),
           \A i \in 1 .. Len(trees) : trees[i].size = 1
    PROVE  Len(kinds) = Len(trees)
<1> DEFINE n == Len(kinds)
           hi == Len(trees)
<1>1. n \in Nat /\ hi \in Nat
  BY LenProperties, NodesOf DEF Forest
<1> PICK ends : RowAt(trees, 0, hi, kinds, ends)
  BY DEF Forest, Row
<1> DEFINE Wrong == {k \in 0 .. n : ends[k] # k}
<1>2. /\ ends \in [0 .. n -> Nat] /\ ends[0] = 0 /\ ends[n] = hi
      /\ \A k \in 1 .. n : /\ ends[k] \in 1 .. hi
                            /\ trees[ends[k]].size = ends[k] - ends[k - 1]
  BY DEF RowAt
<1>3. \A k \in 1 .. n : ends[k] - ends[k - 1] = 1
  BY <1>2
<1> HIDE DEF n, hi
<1>4. ASSUME NEW k \in Wrong PROVE \E j \in Wrong : j < k
  <2>1. k \in 0 .. n /\ ends[k] # k
    OBVIOUS
  <2> HIDE DEF Wrong
  <2>2. k # 0
    BY <1>2, <2>1
  <2>3. k - 1 \in 0 .. n /\ k \in 1 .. n /\ k - 1 < k
    BY <1>1, <2>1, <2>2
  <2>4. ends[k] \in Nat /\ ends[k - 1] \in Nat /\ ends[k] - ends[k - 1] = 1
    BY <1>2, <1>3, <2>3
  <2>5. ends[k - 1] # k - 1
    BY <2>1, <2>4
  <2> QED BY <2>3, <2>5 DEF Wrong
<1>5. Wrong \subseteq Nat
  OBVIOUS
<1> HIDE DEF Wrong
<1>6. Wrong = {}
  BY <1>4, <1>5, NoCounterexample
<1>7. n \in 0 .. n
  BY <1>1
<1> QED BY <1>2, <1>6, <1>7 DEF Wrong, n, hi

(* Names are leaves. *)
LEMMA NamesAreLeaves ==
    ASSUME NEW trees, NEW i \in Nat, Built(trees, i), trees[i].kind = "Identifier"
    PROVE  trees[i].arity = 0 /\ trees[i].size = 1
<1> DEFINE n == trees[i].size
<1>1. n \in 1 .. i
  BY DEF Built
<1> PICK kinds \in Seq(NodeKinds) :
        /\ Len(kinds) = trees[i].arity
        /\ Row(trees, i - n, i - 1, kinds)
        /\ Declared("Identifier", kinds)
  BY DEF Built
<1>2. kinds = <<>>
  <2>1. "Identifier" \notin BinaryKinds \cup UnaryKinds
    BY DEF BinaryKinds, UnaryKinds, TokenTypes
  <2> QED BY <2>1 DEF Declared
<1>3. trees[i].arity = 0
  BY <1>2
<1> PICK ends : RowAt(trees, i - n, i - 1, kinds, ends)
  BY DEF Row
<1> HIDE DEF n
<1>4. i - n = i - 1
  BY <1>2 DEF RowAt
<1>5. n = 1
  BY <1>1, <1>4
<1> QED BY <1>3, <1>5 DEF n

LEMMA LeavesForest ==
    ASSUME NEW trees \in Tree, NEW kind \in NodeKinds, Declared(kind, <<>>),
           \A i \in 1 .. Len(trees) :
               trees[i].kind = kind /\ trees[i].arity = 0 /\ trees[i].size = 1
    PROVE  Forest(trees, [i \in 1 .. Len(trees) |-> kind])
<1> DEFINE n == Len(trees)
           kinds == [i \in 1 .. n |-> kind]
           ends == [k \in 0 .. n |-> k]
<1>1. n \in Nat
  BY NodesOf
<1>2. /\ kinds \in Seq(NodeKinds) /\ Len(kinds) = n
      /\ \A k \in 1 .. n : kinds[k] = kind
  BY <1>1
<1>3. /\ ends \in [0 .. n -> Nat] /\ ends[0] = 0 /\ ends[n] = n
      /\ \A k \in 1 .. n : ends[k] = k /\ ends[k] - ends[k - 1] = 1
  BY <1>1
<1> HIDE DEF n, kinds, ends
<1>4. ASSUME NEW k \in 1 .. n
      PROVE  /\ ends[k] \in 0 + 1 .. n
             /\ trees[ends[k]].size = ends[k] - ends[k - 1]
             /\ trees[ends[k]].kind = kinds[k]
  BY <1>2, <1>3 DEF n
<1>5. Row(trees, 0, n, kinds)
  BY <1>2, <1>3, <1>4 DEF Row, RowAt
<1>6. ASSUME NEW i \in 1 .. n PROVE Built(trees, i)
  <2>1. /\ trees[i].size = 1 /\ trees[i].arity = 0 /\ trees[i].kind = kind
        /\ i - 1 \in Nat /\ 1 \in 1 .. i
    BY DEF n
  <2>2. <<>> \in Seq(NodeKinds) /\ Len(<<>>) = 0 /\ Row(trees, i - 1, i - 1, <<>>)
    BY <2>1, NoRow
  <2> QED BY <2>1, <2>2 DEF Built
<1> QED BY <1>2, <1>5, <1>6 DEF Forest, AllBuilt, n, kinds

LEMMA AllButLastIs ==
    ASSUME NEW S, NEW seq \in Seq(S), seq # <<>>
    PROVE  LET rest == SubSeq(seq, 1, Len(seq) - 1) IN
           /\ Len(seq) \in Nat \ {0}
           /\ rest \in Seq(S) /\ Len(rest) = Len(seq) - 1
           /\ \A i \in 1 .. Len(seq) - 1 : rest[i] = seq[i]
<1> DEFINE n == Len(seq)
           rest == SubSeq(seq, 1, n - 1)
<1>1. n \in Nat \ {0} /\ \A i \in 1 .. n - 1 : seq[i] \in S
  BY EmptySeq, ElementOfSeq
<1>2. 1 \in Int /\ n - 1 \in Int
  BY <1>1
<1> HIDE DEF n
<1>3. /\ rest \in Seq(S)
      /\ Len(rest) = IF 1 <= n - 1 THEN (n - 1) - 1 + 1 ELSE 0
      /\ \A i \in 1 .. (n - 1) - 1 + 1 : rest[i] = seq[1 + i - 1]
  BY <1>1, <1>2, SubSeqProperties
<1> HIDE DEF rest
<1>4. Len(rest) = n - 1 /\ \A i \in 1 .. n - 1 : rest[i] = seq[i]
  BY <1>1, <1>3
<1> QED BY <1>1, <1>3, <1>4 DEF n, rest

LEMMA FrontBuilt ==
    ASSUME NEW trees \in Tree, AllBuilt(trees), trees # <<>>
    PROVE  AllBuilt(SubSeq(trees, 1, Len(trees) - 1))
<1> DEFINE hi == Len(trees)
           left == SubSeq(trees, 1, hi - 1)
<1>1. /\ hi \in Nat \ {0} /\ Len(left) = hi - 1
      /\ \A i \in 1 .. hi - 1 : left[i] = trees[i]
  BY AllButLastIs DEF Tree
<1>2. \A i \in 1 .. hi : Built(trees, i)
  BY DEF AllBuilt
<1> HIDE DEF hi, left
<1>3. ASSUME NEW i \in 1 .. hi - 1 PROVE Built(left, i)
  <2>1. /\ i \in Nat /\ i \in 1 .. hi /\ i + 0 = i
        /\ \A j \in 1 .. i : j + 0 = j /\ j \in 1 .. hi - 1
    BY <1>1
  <2>2. \A j \in 1 .. i : Alike(left[j + 0], trees[j])
    BY <1>1, <2>1 DEF Alike
  <2>3. Built(left, i + 0)
    BY <1>2, <2>1, <2>2, BuiltMoves
  <2> QED BY <2>1, <2>3
<1> QED BY <1>1, <1>3 DEF AllBuilt, left, hi

(* Without a last tree that is one node *)
LEMMA ForestShrinks ==
    ASSUME NEW trees \in Tree, NEW kinds, Forest(trees, kinds), kinds # <<>>,
           Root(trees).size = 1
    PROVE  Forest(SubSeq(trees, 1, Len(trees) - 1), SubSeq(kinds, 1, Len(kinds) - 1))
<1> DEFINE n == Len(kinds)
           hi == Len(trees)
           left == SubSeq(trees, 1, hi - 1)
           some == SubSeq(kinds, 1, n - 1)
<1>1. /\ n \in Nat \ {0} /\ some \in Seq(NodeKinds) /\ Len(some) = n - 1
      /\ \A k \in 1 .. n - 1 : some[k] = kinds[k]
  BY AllButLastIs DEF Forest
<1>2. trees # <<>>
  BY ForestRoot
<1>3. /\ hi \in Nat \ {0} /\ Len(left) = hi - 1
      /\ \A i \in 1 .. hi - 1 : left[i] = trees[i]
  BY <1>2, AllButLastIs DEF Tree
<1> PICK ends : RowAt(trees, 0, hi, kinds, ends)
  BY DEF Forest, Row
<1>4. \A i \in 1 .. hi : Built(trees, i)
  BY DEF Forest, AllBuilt
<1>5. \A i \in 1 .. hi : trees[i].size \in Nat \ {0}
  BY <1>4 DEF Built
<1>6. trees[hi].size = 1
  BY DEF Root
<1> HIDE DEF n, hi, left, some
<1>7. \A k \in 0 .. n : ends[n - k] <= hi - k
  BY <1>3, <1>5, RowAscends DEF Forest, n
<1>8. /\ ends \in [0 .. n -> Nat] /\ ends[n] = hi /\ ends[0] = 0
      /\ \A k \in 1 .. n : /\ ends[k] \in 0 + 1 .. hi
                            /\ trees[ends[k]].size = ends[k] - ends[k - 1]
                            /\ trees[ends[k]].kind = kinds[k]
  BY DEF RowAt, n
<1>9. ends[n - 1] = hi - 1
  <2>1. n \in 1 .. n /\ n - 1 \in 0 .. n
    BY <1>1
  <2>2. hi - ends[n - 1] = 1 /\ ends[n - 1] \in Nat
    BY <1>6, <1>8, <2>1
  <2> QED BY <1>3, <2>2
<1> DEFINE front == [k \in 0 .. n - 1 |-> ends[k]]
<1>10. front \in [0 .. n - 1 -> Nat] /\ \A k \in 0 .. n - 1 : front[k] = ends[k]
  BY <1>1, <1>8
<1>11. front[0] = 0 /\ front[n - 1] = hi - 1
  BY <1>1, <1>8, <1>9, <1>10
<1> HIDE DEF front
<1>12. ASSUME NEW k \in 1 .. n - 1
       PROVE  /\ front[k] \in 0 + 1 .. hi - 1
              /\ left[front[k]].size = front[k] - front[k - 1]
              /\ left[front[k]].kind = some[k]
  <2>1. /\ k \in 1 .. n /\ k \in 0 .. n - 1 /\ k - 1 \in 0 .. n - 1
        /\ n - k \in 0 .. n /\ n - (n - k) = k /\ n - k >= 1
    BY <1>1
  <2>2. ends[k] <= hi - (n - k) /\ ends[k] \in Nat /\ ends[k] >= 1
    BY <1>7, <1>8, <2>1
  <2>3. ends[k] \in 1 .. hi - 1
    BY <1>1, <1>3, <2>1, <2>2
  <2>4. left[ends[k]] = trees[ends[k]]
    BY <1>3, <2>3
  <2>5. front[k] = ends[k] /\ front[k - 1] = ends[k - 1] /\ some[k] = kinds[k]
    BY <1>1, <1>10, <2>1
  <2>6. trees[ends[k]].size = ends[k] - ends[k - 1] /\ trees[ends[k]].kind = kinds[k]
    BY <1>8, <2>1
  <2> QED BY <2>3, <2>4, <2>5, <2>6
<1>13. Row(left, 0, hi - 1, some)
  <2> DEFINE m == n - 1
             end == hi - 1
  <2>1. /\ Len(some) = m /\ front \in [0 .. m -> Nat]
        /\ front[0] = 0 /\ front[m] = end
        /\ \A k \in 1 .. m : /\ front[k] \in 0 + 1 .. end
                              /\ left[front[k]].size = front[k] - front[k - 1]
                              /\ left[front[k]].kind = some[k]
    BY <1>1, <1>10, <1>11, <1>12
  <2> HIDE DEF m
  <2>2. Row(left, 0, end, some)
    <3> HIDE DEF end
    <3> QED BY <2>1 DEF Row, RowAt
  <2> QED BY <2>2
<1>14. AllBuilt(left)
  BY <1>2, FrontBuilt DEF Forest, hi, left
<1> QED BY <1>1, <1>3, <1>13, <1>14 DEF Forest, n, hi, left, some

-----------------------------------------------------------------------------
(* What a row of parts is to the property *)

(* Where the parts end, the last first *)
LEMMA EndsAre ==
    ASSUME NEW trees \in Tree, NEW i \in 1 .. Len(trees),
           NEW kinds \in Seq(NodeKinds), Len(kinds) = trees[i].arity,
           trees[i].size \in 1 .. i,
           NEW ends, RowAt(trees, i - trees[i].size, i - 1, kinds, ends)
    PROVE  \A k \in 0 .. Len(kinds) : Ends(trees, i)[k] = ends[Len(kinds) - k]
<1> DEFINE n == Len(kinds)
           lo == i - trees[i].size
           next == [k \in 0 .. n |-> ends[n - k]]
<1>1. n \in Nat /\ lo \in Nat /\ DOMAIN trees = 1 .. Len(trees) /\ Len(trees) \in Nat
  BY LenProperties DEF Tree
<1>2. /\ ends \in [0 .. n -> Nat] /\ ends[0] = lo /\ ends[n] = i - 1
      /\ \A k \in 1 .. n : /\ ends[k] \in lo + 1 .. i - 1
                            /\ trees[ends[k]].size = ends[k] - ends[k - 1]
  BY DEF RowAt
<1> HIDE DEF n, lo
<1>3. \A k \in 0 .. n : next[k] = ends[n - k]
  OBVIOUS
<1> DEFINE Step(f, k) ==
               IF k = 0 THEN i - 1
               ELSE IF f[k - 1] \in DOMAIN trees THEN f[k - 1] - trees[f[k - 1]].size
               ELSE 0
<1>4. ASSUME NEW k \in 1 .. n
      PROVE  /\ ends[n - (k - 1)] \in DOMAIN trees
             /\ ends[n - k] = ends[n - (k - 1)] - trees[ends[n - (k - 1)]].size
  <2>1. /\ n - (k - 1) \in 1 .. n /\ (n - (k - 1)) - 1 = n - k /\ n - k \in 0 .. n
    BY <1>1
  <2> DEFINE last == ends[n - (k - 1)]
             first == ends[n - k]
  <2>2. last \in lo + 1 .. i - 1 /\ trees[last].size = last - first /\ first \in Nat
    BY <1>2, <2>1
  <2> HIDE DEF last, first
  <2>3. last \in 1 .. Len(trees) /\ first = last - (last - first)
    BY <1>1, <2>2
  <2> QED BY <1>1, <2>2, <2>3 DEF last, first
<1>5. \A k \in 0 .. n : next[k] = Step(next, k)
  <2> TAKE k \in 0 .. n
  <2>1. CASE k = 0
    BY <1>1, <1>2, <1>3, <2>1
  <2>2. CASE k # 0
    <3>1. k \in 1 .. n /\ k - 1 \in 0 .. n
      BY <1>1, <2>2
    <3>2. next[k] = ends[n - k] /\ next[k - 1] = ends[n - (k - 1)]
      BY <1>3, <3>1
    <3> QED BY <1>4, <2>2, <3>1, <3>2
  <2> QED BY <2>1, <2>2
<1> DEFINE end == Ends(trees, i)
           Is(f) == f = [k \in 0 .. n |-> Step(f, k)]
<1>6. Is(next)
  <2>1. next = [k \in 0 .. n |-> next[k]]
    OBVIOUS
  <2> HIDE DEF next
  <2> QED BY <1>5, <2>1
<1>7. end = CHOOSE f : Is(f)
  BY DEF Ends, n
<1> HIDE DEF next, end
<1>8. Is(end)
  BY <1>6, <1>7
<1>9. \A k \in 0 .. n : end[k] = Step(end, k)
  BY <1>8
<1> DEFINE Wrong == {k \in 0 .. n : end[k] # next[k]}
<1> HIDE DEF Is
<1>10. ASSUME NEW k \in Wrong PROVE \E j \in Wrong : j < k
  <2>1. k \in 0 .. n /\ end[k] # next[k]
    OBVIOUS
  <2> HIDE DEF Wrong
  <2>2. k # 0
    BY <1>5, <1>9, <2>1
  <2>3. k - 1 \in 0 .. n /\ k - 1 < k
    BY <1>1, <2>1, <2>2
  <2>4. end[k - 1] # next[k - 1]
    BY <1>5, <1>9, <2>1
  <2> QED BY <2>3, <2>4 DEF Wrong
<1>11. Wrong \subseteq Nat
  OBVIOUS
<1> HIDE DEF Wrong
<1>12. Wrong = {}
  BY <1>10, <1>11, NoCounterexample
<1>13. \A k \in 0 .. n : end[k] = ends[n - k]
  BY <1>3, <1>12 DEF Wrong
<1> QED BY <1>13 DEF end, n

LEMMA ForestIsBuilt ==
    ASSUME NEW trees \in Tree, AllBuilt(trees), NEW i \in 1 .. Len(trees)
    PROVE  IsBuilt(trees, i)
<1> DEFINE lo == i - trees[i].size
           end == Ends(trees, i)
<1>1. trees[i].size \in 1 .. i
  BY DEF AllBuilt, Built
<1> PICK kinds \in Seq(NodeKinds) :
        /\ Len(kinds) = trees[i].arity
        /\ Row(trees, lo, i - 1, kinds)
        /\ Declared(trees[i].kind, kinds)
  BY DEF AllBuilt, Built
<1> DEFINE n == Len(kinds)
<1> PICK ends : RowAt(trees, lo, i - 1, kinds, ends)
  BY DEF Row
<1>2. \A k \in 0 .. n : end[k] = ends[n - k]
  BY <1>1, EndsAre
<1>3. n \in Nat /\ lo \in Nat /\ DOMAIN trees = 1 .. Len(trees) /\ Len(trees) \in Nat
  BY <1>1, LenProperties DEF Tree
<1>4. /\ ends[0] = lo
      /\ \A k \in 1 .. n : /\ ends[k] \in lo + 1 .. i - 1
                            /\ trees[ends[k]].kind = kinds[k]
  BY DEF RowAt
<1>5. kinds = [k \in 1 .. n |-> kinds[k]] /\ n = trees[i].arity
  OBVIOUS
<1> HIDE DEF end, n
<1>6. end[n] = lo
  <2>1. n \in 0 .. n /\ n - n = 0
    BY <1>3
  <2> QED BY <1>2, <1>4, <2>1
<1>7. ASSUME NEW k \in 0 .. n - 1 PROVE end[k] \in DOMAIN trees
  <2>1. k \in 0 .. n /\ n - k \in 1 .. n
    BY <1>3
  <2>2. end[k] \in lo + 1 .. i - 1
    BY <1>2, <1>4, <2>1
  <2> HIDE DEF lo
  <2> QED BY <1>3, <2>2
<1>8. \A k \in 1 .. n : trees[end[n - k]].kind = kinds[k]
  <2> TAKE k \in 1 .. n
  <2>1. n - k \in 0 .. n /\ n - (n - k) = k
    BY <1>3
  <2> QED BY <1>2, <1>4, <2>1
<1>9. [k \in 1 .. n |-> trees[end[n - k]].kind] = kinds
  BY <1>5, <1>8
<1> QED BY <1>1, <1>5, <1>6, <1>7, <1>9 DEF IsBuilt, end

-----------------------------------------------------------------------------
(* Kinds in a row *)

(* kinds and one more behind them *)
Behind(more, kinds, kind) ==
    /\ more \in Seq(NodeKinds) /\ Len(kinds) \in Nat /\ Len(more) = Len(kinds) + 1
    /\ \A K : AllOf(kinds, K) /\ kind \in K => AllOf(more, K)
    /\ \A i \in 1 .. Len(kinds) : more[i] = kinds[i]
    /\ AllBut(1, more) = kinds /\ LastPart(more) = kind

LEMMA OneMore ==
    ASSUME NEW kinds \in Seq(NodeKinds), NEW kind \in NodeKinds
    PROVE  Behind(kinds \o <<kind>>, kinds, kind)
<1> DEFINE n == Len(kinds)
           more == kinds \o <<kind>>
<1>1. n \in Nat /\ DOMAIN kinds = 1 .. n
  BY LenProperties
<1>2. /\ more \in Seq(NodeKinds) /\ Len(more) = n + 1
      /\ \A i \in 1 .. n : more[i] = kinds[i]
      /\ more[n + 1] = kind
  <2>1. <<kind>> \in Seq(NodeKinds) /\ Len(<<kind>>) = 1 /\ <<kind>>[1] = kind
    OBVIOUS
  <2>2. /\ more \in Seq(NodeKinds) /\ Len(more) = n + 1
        /\ \A i \in 1 .. n + 1 : more[i] = IF i <= n THEN kinds[i] ELSE <<kind>>[i - n]
    BY <2>1, ConcatProperties
  <2> HIDE DEF n, more
  <2>3. n + 1 \in 1 .. n + 1 /\ ~(n + 1 <= n) /\ (n + 1) - n = 1
    BY <1>1
  <2>4. more[n + 1] = <<kind>>[1]
    BY <2>2, <2>3
  <2>5. \A i \in 1 .. n : i \in 1 .. n + 1 /\ i <= n
    BY <1>1
  <2> QED BY <2>1, <2>2, <2>4, <2>5
<1> HIDE DEF n, more
<1>3. \A K : AllOf(kinds, K) /\ kind \in K => AllOf(more, K)
  <2>1. DOMAIN more = 1 .. n + 1 /\ \A i \in 1 .. n + 1 : i \in 1 .. n \/ i = n + 1
    BY <1>1, <1>2, LenProperties
  <2> QED BY <1>1, <1>2, <2>1 DEF AllOf
<1>4. AllBut(1, more) = kinds
  <2>1. more # <<>>
    BY <1>1, <1>2
  <2>2. /\ AllBut(1, more) \in Seq(NodeKinds) /\ Len(AllBut(1, more)) = n
        /\ \A i \in 1 .. n : AllBut(1, more)[i] = more[i]
    <3>1. (n + 1) - 1 = n
      BY <1>1
    <3> QED BY <1>2, <2>1, <3>1, AllButLastIs DEF AllBut
  <2> QED BY <1>2, <2>2, SeqEqual DEF n
<1>5. LastPart(more) = kind
  BY <1>2 DEF LastPart
<1> QED BY <1>1, <1>2, <1>3, <1>4, <1>5 DEF Behind, n, more

LEMMA BehindIs ==
    ASSUME NEW more, NEW kinds, NEW kind, Behind(more, kinds, kind)
    PROVE  /\ Len(kinds) \in Nat /\ Len(more) = Len(kinds) + 1
           /\ \A K : AllOf(kinds, K) /\ kind \in K => AllOf(more, K)
BY DEF Behind

LEMMA OneIs ==
    ASSUME NEW more, NEW kind, Behind(more, <<>>, kind)
    PROVE  Len(more) = 1 /\ \A K : kind \in K => AllOf(more, K)
BY DEF Behind, AllOf

LEMMA JustOne ==
    ASSUME NEW kinds \in Seq(NodeKinds), Len(kinds) = 1
    PROVE  /\ kinds = <<LastPart(kinds)>> /\ kinds # <<>>
           /\ \A K : AllOf(kinds, K) => LastPart(kinds) \in K
<1>1. kinds = <<kinds[1]>> /\ kinds # <<>> /\ 1 \in DOMAIN kinds
  OBVIOUS
<1> QED BY <1>1 DEF LastPart, AllOf

LEMMA JustOneIs ==
    ASSUME NEW kind \in NodeKinds
    PROVE  /\ <<kind>> \in Seq(NodeKinds) /\ Len(<<kind>>) = 1
           /\ LastPart(<<kind>>) = kind
           /\ \A K : kind \in K => AllOf(<<kind>>, K)
<1>1. /\ <<kind>> \in Seq(NodeKinds) /\ Len(<<kind>>) = 1 /\ <<kind>>[1] = kind
      /\ DOMAIN <<kind>> = {1}
  OBVIOUS
<1> QED BY <1>1 DEF LastPart, AllOf

LEMMA NoneIs == Len(<<>>) = 0 /\ <<>> \in Seq(NodeKinds) /\ \A K : AllOf(<<>>, K)
BY DEF AllOf

-----------------------------------------------------------------------------
(* Names that become parameters *)

LEMMA NamesBecomeParameters ==
    ASSUME NEW trees \in Tree, AllBuilt(trees), AllIdentifiers(trees)
    PROVE  LET params == AsParameters(trees)
               kinds == [i \in 1 .. Len(trees) |-> "LambdaParameter"]
           IN  /\ params \in Tree /\ Len(params) = Len(trees)
               /\ Forest(params, kinds)
               /\ Len(trees) \in Nat /\ kinds \in Seq(NodeKinds) /\ Len(kinds) = Len(trees)
               /\ AllOf(kinds, {"LambdaParameter"})
               /\ \A i \in 1 .. Len(trees) : trees[i].size = 1 /\ params[i].size = 1
<1> DEFINE n == Len(trees)
           params == AsParameters(trees)
           kind == "LambdaParameter"
           kinds == [i \in 1 .. n |-> kind]
<1>1. n \in Nat /\ DOMAIN trees = 1 .. n /\ \A i \in 1 .. n : trees[i] \in Node
  BY NodesOf, LenProperties DEF Tree
<1>2. \A i \in 1 .. n : trees[i].arity = 0 /\ trees[i].size = 1
  BY <1>1, NamesAreLeaves DEF AllBuilt, AllIdentifiers
<1>3. params = [i \in 1 .. n |-> [trees[i] EXCEPT !.kind = kind]]
  BY <1>1 DEF AsParameters
<1>4. kind \in NodeKinds /\ Declared(kind, <<>>)
  BY NoneIs DEF NodeKinds, PartKinds, Declared, LambdaParameterParts
<1> HIDE DEF kind
<1>5. Len(params) = n
  BY <1>1, <1>3
<1>6. \A i \in 1 .. n : params[i].kind = kind /\ params[i].arity = 0 /\ params[i].size = 1
  BY <1>1, <1>2, <1>3 DEF Node
<1>7. params \in Tree
  BY ParametersAreTrees
<1> HIDE DEF params, n
<1>8. Forest(params, [i \in 1 .. Len(params) |-> kind])
  BY <1>4, <1>5, <1>6, <1>7, LeavesForest
<1>9. kinds \in Seq(NodeKinds) /\ Len(kinds) = n /\ AllOf(kinds, {kind})
  BY <1>1, <1>4 DEF AllOf
<1> QED BY <1>1, <1>2, <1>5, <1>6, <1>7, <1>8, <1>9 DEF params, n, kind

-----------------------------------------------------------------------------
(* The invariant *)

(* Where a method has built nothing *)
Bare ==
    {"type", "type.started", "identifier", "compound_type", "compound_type.first",
     "expression_bp", "expression_bp.lhs", "lhs.rhs",
     "simple_expression", "simple_expression.tried", "identifier_or_simple_lambda",
     "if_expression", "elif_expression", "if.open", "if.condition",
     "block_expression", "l_par_expression", "lpar.first",
     "for_element", "for_element.which", "for_element.rhs",
     "let", "let.identifier", "let.colon", "let.type"}

(* Where it has one tree, and where it has one at least *)
One ==
    {"type.suffix", "type.arrow", "compound_type.which",
     "expression_bp.loop", "expression_bp.rhs", "simple_lambda", "simple_lambda.body",
     "if.close", "if.then", "block.single", "lpar.next", "try_lambda", "try_lambda.body"}

Some ==
    {"named_type.next", "type_list", "type_list.elem", "lambda_type.arrow",
     "lambda_type.ret", "function_params", "function_params.param",
     "function_params.sep", "block.close", "tuple", "tuple.elem", "params.type",
     "params", "lambda_parameter", "lambda_parameter.colon", "lambda_parameter.type",
     "params.arrow", "params.body"}

(* Of which kinds they are *)
Names == {"named_type", "named_type.next", "simple_lambda", "simple_lambda.body"}

Types ==
    {"type.suffix", "type.arrow", "compound_type.which", "type_list", "type_list.elem",
     "lambda_type.arrow", "lambda_type.ret", "let.assign", "let.rhs"}

Expressions ==
    {"expression_bp.loop", "expression_bp.rhs",
     "function_params", "function_params.param", "function_params.sep",
     "if.close", "if.then", "lpar.next", "tuple", "tuple.elem", "params.type",
     "try_lambda", "try_lambda.body"}

Statements ==
    {"block_expression.loop", "block.ret", "block.stmt", "block.single", "block.separator"}

Parameters ==
    {"params", "lambda_parameter", "lambda_parameter.colon", "lambda_parameter.type",
     "params.arrow", "params.body"}

(* if_expression() and elif_expression() up to the body, and behind it     *)
Branch == {"if.open", "if.condition", "if.close", "if.then"}
Elifs == {"if.else", "if.elif", "if.last"}

(* Where kids is the number of the trees *)
Counting ==
    {"compound_type", "compound_type.first", "compound_type.which",
     "named_type", "named_type.next", "type_list", "type_list.elem",
     "lambda_type.arrow", "lambda_type.ret",
     "function_params", "function_params.param", "function_params.sep",
     "if_expression", "elif_expression", "if.open", "if.condition", "if.close",
     "if.then", "if.else", "if.elif", "if.last",
     "block_expression", "block_expression.loop", "block.ret", "block.stmt",
     "block.single", "block.separator", "block.close",
     "l_par_expression", "lpar.first", "lpar.next", "tuple", "tuple.elem",
     "params.type", "params", "lambda_parameter", "lambda_parameter.colon",
     "lambda_parameter.type", "params.arrow", "params.body",
     "let", "let.identifier", "let.colon", "let.type", "let.assign", "let.rhs"}

(* A condition, a body and elifs *)
HasElifs(kinds) ==
    /\ Len(kinds) >= 2
    /\ \A i \in 1 .. Len(kinds) :
           IF i <= 2 THEN kinds[i] \in ExpressionKinds ELSE kinds[i] = "ElifExpr"

(* The trees there can be at a step.  Where nothing is said the method     *)
(* ends in an error or returns what it gets.                               *)
Holding(at, kids, kinds) ==
    /\ at \in Bare => kinds = <<>>
    /\ at \in One => Len(kinds) = 1
    /\ at \in Some => Len(kinds) >= 1
    /\ at \in Names => AllOf(kinds, {"Identifier"})
    /\ at \in Types => AllOf(kinds, TypeKinds)
    /\ at \in Expressions => AllOf(kinds, ExpressionKinds)
    /\ at \in Statements => AllOf(kinds, StatementKinds)
    /\ at \in Parameters => AllOf(kinds, {"LambdaParameter"})
    /\ at \in {"let.assign", "let.rhs"} => Len(kinds) <= 1
    /\ at \in Elifs => HasElifs(kinds)
    /\ at = "block.close" => /\ AllOf(AllBut(1, kinds), StatementKinds)
                             /\ LastPart(kinds) \in ExpressionKinds
    /\ at \in Counting => kids = Len(kinds)

(* The token a method remembers tells what it makes of its trees; and two  *)
(* methods take the last of their nodes off again.                         *)
Listing == {"type_list", "type_list.elem"}
Trying == {"try_lambda", "try_lambda.body"}
Naming == {"lambda_parameter.colon", "lambda_parameter.type"}

Remembering(f) ==
    /\ f.at \in Branch => f.tok \in {"IF", "ELIF"}
    /\ f.at \in Elifs => f.tok = "IF"
    /\ f.at \in Listing => f.tok \in {"BITWISE_AND", "BITWISE_OR", "COMMA"}
    /\ f.at \in Trying /\ f.kids > 1 => Len(f.ast) > 1
    /\ f.at \in Naming => Root(f.ast).size = 1

Shaped(f) ==
    /\ \E kinds : Forest(f.ast, kinds) /\ Holding(f.at, f.kids, kinds)
    /\ Remembering(f)

(* The kinds of tree a method can return ... *)
TypeSteps ==
    {"type", "type.started", "type.failed", "type.suffix", "type.arrow",
     "named_type", "named_type.next", "compound_type", "compound_type.first",
     "compound_type.which", "type_list", "type_list.elem", "lambda_type.arrow",
     "lambda_type.ret"}

StatementSteps ==
    {"statement", "statement.let", "statement.condition", "statement.body",
     "statement.expression", "for", "for.elems", "for.elem"}

ElementSteps == {"for_element", "for_element.which", "for_element.rhs"}

LetSteps ==
    {"let", "let.identifier", "let.colon", "let.type", "let.assign", "let.rhs"}

ElementKinds == {"ForLetElement", "ForMonadicElement"}

Gives(at, tok) ==
    IF at \in TypeSteps THEN TypeKinds
    ELSE IF at = "identifier" THEN {"Identifier"}
    ELSE IF at = "elif_expression" \/ (at \in Branch /\ tok = "ELIF") THEN {"ElifExpr"}
    ELSE IF at \in ElementSteps THEN ElementKinds
    ELSE IF at \in LetSteps THEN {"LetAssignment"}
    ELSE IF at \in StatementSteps THEN StatementKinds
    ELSE IF at \in {"block", "stmt_list", "stmt_list.stmt"} THEN {}
    ELSE ExpressionKinds

(* ... and those the method that called it makes something of *)
Expects(at) ==
    IF at \in {"type.started", "type.arrow", "compound_type.first", "type_list.elem",
               "lambda_type.ret", "params.type", "lambda_parameter.type", "let.type"}
    THEN TypeKinds
    ELSE IF at = "if.elif" THEN {"ElifExpr"}
    ELSE IF at = "statement.let" THEN {"LetAssignment"}
    ELSE IF at \in {"block.stmt", "stmt_list.stmt"} THEN StatementKinds
    ELSE IF at = "for.elem" THEN ElementKinds
    ELSE ExpressionKinds

(* A list of one element is at the separator behind it. *)
Lists == {"type_list", "tuple"}

AtSeparator ==
    Top.at \in Lists /\ Top.kids < 2 =>
        NextIs(IF Top.at = "tuple" THEN "COMMA" ELSE Top.tok)

Answers ==
    \A i \in 1 .. Len(stack) - 1 :
        /\ Gives(stack[i + 1].at, stack[i + 1].tok) \subseteq Expects(stack[i].at)
        /\ stack[i].at \notin Lists

Returned ==
    ret.tag = "value" =>
        \E kind \in NodeKinds : /\ Forest(ret.ast, <<kind>>)
                                /\ stack # <<>> => kind \in Expects(Top.at)

TreesInv ==
    /\ Inv
    /\ \A i \in 1 .. Len(stack) : Shaped(stack[i])
    /\ Answers
    /\ ~Done => AtSeparator
    /\ Returned

-----------------------------------------------------------------------------
(* What the invariant says of the running method *)

LEMMA KindsAre ==
    /\ \A at, tok : Gives(at, tok) \subseteq NodeKinds
    /\ \A at : Expects(at) \subseteq NodeKinds
    /\ TypeKinds \subseteq NodeKinds /\ StatementKinds \subseteq NodeKinds
    /\ ExpressionKinds \subseteq StatementKinds /\ "ElifExpr" \in NodeKinds
<1>1. /\ TypeKinds \subseteq NodeKinds /\ StatementKinds \subseteq NodeKinds
      /\ ExpressionKinds \subseteq StatementKinds /\ PartKinds \subseteq NodeKinds
      /\ "Identifier" \in ExpressionKinds /\ "LetAssignment" \in StatementKinds
  BY DEF NodeKinds, StatementKinds, ExpressionKinds
<1>2. ElementKinds \subseteq PartKinds /\ "ElifExpr" \in PartKinds
  BY DEF ElementKinds, PartKinds
<1> QED BY <1>1, <1>2 DEF Gives, Expects

LEMMA Own ==
    ASSUME TreesInv, ~Done
    PROVE  /\ Top \in Frame /\ Top.ast \in Tree /\ Top.kids \in Nat /\ Top.tok \in TokenTypes
           /\ Shaped(Top) /\ AtSeparator
           /\ Top.at = "lhs.rhs" => Top.tok \in PrefixOperators
           /\ Top.at = "expression_bp.rhs" => Top.tok \in BinaryKinds
<1>1. /\ Len(stack) \in 1 .. Len(stack) /\ Top \in FramesAt(taken) /\ Top \in Frame
  BY Running DEF TreesInv
<1>2. Shaped(Top)
  BY <1>1 DEF TreesInv, Top
<1> QED BY <1>1, <1>2 DEF Frame, FramesAt, TreesInv

LEMMA Got ==
    ASSUME TreesInv, ~Done, ret.tag = "value"
    PROVE  /\ ret.ast \in Tree
           /\ \E kind \in NodeKinds : kind \in Expects(Top.at) /\ Forest(ret.ast, <<kind>>)
<1>1. ret.ast \in Tree
  BY DEF TreesInv, Inv, ResultsAt, Result
<1> QED BY <1>1 DEF TreesInv, Returned, Done

-----------------------------------------------------------------------------
(* What a step may do *)

Callees ==
    {"type", "compound_type", "named_type", "expression_bp", "simple_expression",
     "identifier_or_simple_lambda", "if_expression", "block_expression",
     "l_par_expression", "elif_expression", "statement", "let", "for_element", "block"}

(* The method stays one that returns what its caller expects. *)
Remains(frame) == Gives(frame.at, frame.tok) \subseteq Gives(Top.at, Top.tok)

Separated(frame) ==
    frame.at \in Lists /\ frame.kids < 2 =>
        NextIs(IF frame.at = "tuple" THEN "COMMA" ELSE frame.tok) /\ taken' = taken

GoesOnShaped ==
    \E frame : Shaped(frame) /\ Remains(frame) /\ Separated(frame) /\ Continue(frame)

CallsShaped ==
    \E frame, callee, bp :
        /\ Shaped(frame) /\ Remains(frame) /\ frame.at \notin Lists
        /\ callee \in Callees /\ Gives(callee, "END_OF_FILE") \subseteq Expects(frame.at)
        /\ CallFrom(frame, callee, bp)

LeavesTree ==
    \E result :
        /\ result.tag = "value" =>
               \E kind \in Gives(Top.at, Top.tok) : Forest(result.ast, <<kind>>)
        /\ Leave(result)

TreeSteps == ~Done /\ (GoesOnShaped \/ CallsShaped \/ LeavesTree \/ PopNothing)

LEMMA GoesOnKeeps ==
    ASSUME TreesInv, Inv', ~Done, GoesOnShaped
    PROVE  TreesInv'
<1> PICK frame : Shaped(frame) /\ Remains(frame) /\ Separated(frame) /\ Continue(frame)
  BY DEF GoesOnShaped
<1> DEFINE n == Len(stack)
<1>1. n \in Nat \ {0} /\ n \in 1 .. n
  BY Running DEF TreesInv
<1>2. /\ Len(stack') = n /\ ret'.tag = "none" /\ read' = read
      /\ \A i \in 1 .. n : stack'[i] = IF i = n THEN frame ELSE stack[i]
  BY <1>1 DEF Continue, NoResult, TreesInv, Inv
<1>3. \A i \in 1 .. n : Shaped(stack'[i])
  BY <1>2 DEF TreesInv
<1>4. ASSUME NEW i \in 1 .. n - 1
      PROVE  /\ Gives(stack'[i + 1].at, stack'[i + 1].tok) \subseteq Expects(stack'[i].at)
             /\ stack'[i].at \notin Lists
  <2>1. i \in 1 .. n /\ i # n /\ i + 1 \in 1 .. n
    BY <1>1
  <2>2. stack'[i] = stack[i] /\ stack'[i + 1] = IF i + 1 = n THEN frame ELSE stack[i + 1]
    BY <1>2, <2>1
  <2>3. /\ Gives(stack[i + 1].at, stack[i + 1].tok) \subseteq Expects(stack[i].at)
        /\ stack[i].at \notin Lists
    BY DEF TreesInv, Answers
  <2> QED BY <2>2, <2>3 DEF Remains, Top
<1>5. AtSeparator'
  <2>1. Top' = frame
    BY <1>1, <1>2 DEF Top
  <2> SUFFICES ASSUME frame.at \in Lists, frame.kids < 2 PROVE AtSeparator'
    BY <2>1 DEF AtSeparator
  <2> DEFINE next == IF frame.at = "tuple" THEN "COMMA" ELSE frame.tok
  <2>2. NextIs(next) /\ taken' = taken
    BY DEF Separated
  <2>3. NextIs(next)'
    BY <1>2, <2>2 DEF NextIs, Peeked, NextToken
  <2> QED BY <2>1, <2>3 DEF AtSeparator
<1>6. Answers'
  BY <1>2, <1>4 DEF Answers
<1> QED BY <1>2, <1>3, <1>5, <1>6 DEF TreesInv, Returned

LEMMA CalleesShaped ==
    ASSUME NEW callee \in Callees, NEW frame,
           frame.at = callee, frame.ast = <<>>, frame.kids = 0
    PROVE  Shaped(frame) /\ callee \notin Lists
<1>1. Holding(callee, 0, <<>>)
  <2>1. callee \notin One \cup Some \cup Elifs \cup {"block.close"}
    BY DEF Callees, One, Some, Elifs
  <2> QED BY <2>1, NoneIs DEF Holding
<1>2. callee \notin Branch \cup Elifs \cup Listing \cup Trying \cup Naming \cup Lists
  BY DEF Callees, Branch, Elifs, Listing, Trying, Naming, Lists
<1> QED BY <1>1, <1>2, NoForest DEF Shaped, Remembering

LEMMA CallsKeep ==
    ASSUME TreesInv, Inv', ~Done, CallsShaped
    PROVE  TreesInv'
<1> PICK frame, callee, bp :
        /\ Shaped(frame) /\ Remains(frame) /\ frame.at \notin Lists
        /\ callee \in Callees /\ Gives(callee, "END_OF_FILE") \subseteq Expects(frame.at)
        /\ CallFrom(frame, callee, bp)
  BY DEF CallsShaped
<1> DEFINE n == Len(stack)
           callers == [stack EXCEPT ![n] = frame]
           new == NewFrame(callee, taken', bp)
<1>1. n \in Nat \ {0} /\ n \in 1 .. n
  BY Running DEF TreesInv
<1>2. Len(callers) = n /\ \A i \in 1 .. n : callers[i] = IF i = n THEN frame ELSE stack[i]
  BY <1>1 DEF TreesInv, Inv
<1>3. stack' = Append(callers, new) /\ ret'.tag = "none"
  BY DEF CallFrom, NoResult
<1>4. new.at = callee /\ new.ast = <<>> /\ new.kids = 0 /\ new.tok = "END_OF_FILE"
  BY DEF NewFrame
<1> HIDE DEF callers, new
<1>5. Shaped(new) /\ new.at \notin Lists
  BY <1>4, CalleesShaped
<1>6. /\ Len(stack') = n + 1 /\ stack'[n + 1] = new
      /\ \A i \in 1 .. n : stack'[i] = IF i = n THEN frame ELSE stack[i]
  BY <1>1, <1>2, <1>3
<1>7. \A i \in 1 .. n + 1 : Shaped(stack'[i])
  <2> TAKE i \in 1 .. n + 1
  <2>1. i \in 1 .. n \/ i = n + 1
    BY <1>1
  <2> QED BY <1>5, <1>6, <2>1 DEF TreesInv
<1>8. ASSUME NEW i \in 1 .. n
      PROVE  /\ Gives(stack'[i + 1].at, stack'[i + 1].tok) \subseteq Expects(stack'[i].at)
             /\ stack'[i].at \notin Lists
  <2>1. CASE i = n
    BY <1>1, <1>4, <1>6, <2>1
  <2>2. CASE i # n
    <3>1. i \in 1 .. n - 1 /\ i + 1 \in 1 .. n
      BY <1>1, <2>2
    <3>2. stack'[i] = stack[i] /\ stack'[i + 1] = IF i + 1 = n THEN frame ELSE stack[i + 1]
      BY <1>6, <2>2, <3>1
    <3>3. /\ Gives(stack[i + 1].at, stack[i + 1].tok) \subseteq Expects(stack[i].at)
          /\ stack[i].at \notin Lists
      BY <3>1 DEF TreesInv, Answers
    <3> QED BY <3>2, <3>3 DEF Remains, Top
  <2> QED BY <2>1, <2>2
<1>9. 1 .. Len(stack') - 1 = 1 .. n
  BY <1>1, <1>6
<1>10. Answers'
  BY <1>8, <1>9 DEF Answers
<1>11. AtSeparator'
  BY <1>5, <1>6 DEF AtSeparator, Top
<1> QED BY <1>3, <1>6, <1>7, <1>10, <1>11 DEF TreesInv, Returned

LEMMA LeavesKeep ==
    ASSUME TreesInv, Inv', ~Done, LeavesTree
    PROVE  TreesInv'
<1> PICK result :
        /\ result.tag = "value" =>
               \E kind \in Gives(Top.at, Top.tok) : Forest(result.ast, <<kind>>)
        /\ Leave(result)
  BY DEF LeavesTree
<1> DEFINE n == Len(stack)
<1>1. n \in Nat \ {0} /\ stack \in Seq(FramesAt(taken)) /\ stack # <<>>
  BY Running DEF TreesInv, Inv, Done
<1>2. Len(stack') = n - 1 /\ \A i \in 1 .. n - 1 : stack'[i] = stack[i]
  <2>1. stack' = SubSeq(stack, 1, n - 1)
    BY DEF Leave
  <2> QED BY <1>1, <2>1, AllButLastIs
<1>3. \A i \in 1 .. n - 1 : Shaped(stack'[i])
  BY <1>1, <1>2 DEF TreesInv
<1>4. ASSUME NEW i \in 1 .. (n - 1) - 1
      PROVE  /\ Gives(stack'[i + 1].at, stack'[i + 1].tok) \subseteq Expects(stack'[i].at)
             /\ stack'[i].at \notin Lists
  <2>1. i \in 1 .. n - 1 /\ i + 1 \in 1 .. n - 1
    BY <1>1
  <2> QED BY <1>2, <2>1 DEF TreesInv, Answers
<1>5. Answers'
  BY <1>2, <1>4 DEF Answers
<1>6. ret' = result
  BY DEF Leave
<1>7. ASSUME stack' # <<>>
      PROVE  /\ Gives(Top.at, Top.tok) \subseteq Expects(Top'.at)
             /\ Top'.at \notin Lists
  <2>1. n - 1 \in 1 .. n - 1 /\ (n - 1) + 1 = n
    BY <1>1, <1>2, <1>7, EmptySeq DEF Inv
  <2>2. Top' = stack[n - 1]
    BY <1>2, <2>1 DEF Top
  <2>3. /\ Gives(stack[(n - 1) + 1].at, stack[(n - 1) + 1].tok) \subseteq Expects(stack[n - 1].at)
        /\ stack[n - 1].at \notin Lists
    BY <2>1 DEF TreesInv, Answers
  <2> QED BY <2>1, <2>2, <2>3 DEF Top
<1>8. (~Done => AtSeparator)'
  BY <1>7 DEF AtSeparator, Done
<1>9. Returned'
  <2> SUFFICES ASSUME result.tag = "value"
               PROVE  \E kind \in NodeKinds :
                          /\ Forest(result.ast, <<kind>>)
                          /\ stack' # <<>> => kind \in Expects(Top'.at)
    BY <1>6 DEF Returned
  <2>1. PICK kind \in Gives(Top.at, Top.tok) : Forest(result.ast, <<kind>>)
    OBVIOUS
  <2>2. kind \in NodeKinds
    BY KindsAre
  <2> QED BY <1>7, <2>1, <2>2
<1> QED BY <1>2, <1>3, <1>5, <1>8, <1>9 DEF TreesInv

LEMMA TreeStepsKeep ==
    ASSUME TreesInv, Inv', TreeSteps
    PROVE  TreesInv'
<1>1. CASE PopNothing
  <2>1. Answers' /\ Returned'
    BY <1>1 DEF PopNothing, TreesInv, Answers, Returned, Top
  <2>2. Done'
    BY <1>1 DEF PopNothing, Done
  <2> QED BY <1>1, <2>1, <2>2 DEF PopNothing, TreesInv
<1> QED BY <1>1, GoesOnKeeps, CallsKeep, LeavesKeep DEF TreeSteps

-----------------------------------------------------------------------------
(* The common forms of a step *)

LEMMA ContinueTrees ==
    ASSUME ~Done, NEW frame, Shaped(frame), Remains(frame), frame.at \notin Lists,
           Continue(frame)
    PROVE  TreeSteps
BY DEF TreeSteps, GoesOnShaped, Separated

LEMMA CallFromTrees ==
    ASSUME ~Done, NEW frame, Shaped(frame), Remains(frame), frame.at \notin Lists,
           NEW callee \in Callees, Gives(callee, "END_OF_FILE") \subseteq Expects(frame.at),
           NEW bp, CallFrom(frame, callee, bp)
    PROVE  TreeSteps
BY DEF TreeSteps, CallsShaped

LEMMA ReturnTrees ==
    ASSUME ~Done, NEW kind \in Gives(Top.at, Top.tok), NEW tree, Forest(tree, <<kind>>),
           Return(tree)
    PROVE  TreeSteps
<1>1. LeavesTree
  BY DEF LeavesTree, Return
<1> QED BY <1>1 DEF TreeSteps

LEMMA ErrorTrees ==
    ASSUME ~Done, NEW error, ReturnError(error)
    PROVE  TreeSteps
<1>1. LeavesTree
  BY DEF LeavesTree, ReturnError
<1> QED BY <1>1 DEF TreeSteps

LEMMA RejectsTrees == ASSUME ~Done, Rejects PROVE TreeSteps
BY ErrorTrees DEF Rejects

LEMMA PopsBadTokenTrees == ASSUME ~Done, PopsBadToken PROVE TreeSteps
BY ErrorTrees DEF PopsBadToken, TreeSteps

LEMMA PropagatesTrees == ASSUME NEW labels, Propagates(labels) PROVE TreeSteps
BY ErrorTrees DEF Propagates, Errs

LEMMA SwallowsTrees == ASSUME NEW labels, Swallows(labels) PROVE TreeSteps
BY RejectsTrees DEF Swallows, Errs

(* A frame with the trees, the token and the count the method has: at its  *)
(* step, too, those are the trees there can be.                            *)
Turns(label) ==
    /\ \A kinds \in Seq(NodeKinds) :
           Forest(Top.ast, kinds) /\ Holding(Top.at, Top.kids, kinds) =>
               /\ Holding(label, Top.kids, kinds)
               /\ label \in Trying => Top.at \in Trying \/ Top.kids <= 1
    /\ label \in Branch => Top.at \in Branch
    /\ label \in Elifs => Top.at \in Elifs
    /\ label \in Listing => Top.at \in Listing
    /\ label \in Naming => Top.at \in Naming
    /\ Gives(label, Top.tok) \subseteq Gives(Top.at, Top.tok)

LEMMA ShapedAt ==
    ASSUME TreesInv, ~Done, NEW frame, frame.ast = Top.ast, frame.kids = Top.kids,
           frame.tok = Top.tok, Turns(frame.at)
    PROVE  Shaped(frame) /\ Remains(frame)
<1>1. Shaped(Top) /\ Top.kids \in Nat
  BY Own
<1> PICK kinds : Forest(Top.ast, kinds) /\ Holding(Top.at, Top.kids, kinds)
  BY <1>1 DEF Shaped
<1>2. /\ Holding(frame.at, frame.kids, kinds)
      /\ frame.at \in Trying => Top.at \in Trying \/ Top.kids <= 1
  BY DEF Turns, Forest
<1>3. Remembering(frame)
  <2>1. Remembering(Top)
    BY <1>1 DEF Shaped
  <2>2. frame.at \in Trying /\ frame.kids > 1 => Len(frame.ast) > 1
    BY <1>1, <1>2, <2>1 DEF Remembering
  <2> QED BY <2>1, <2>2 DEF Remembering, Turns
<1> QED BY <1>2, <1>3 DEF Shaped, Remains, Turns

LEMMA FrameAt ==
    ASSUME TreesInv, ~Done, NEW label, Turns(label)
    PROVE  LET frame == [Top EXCEPT !.at = label] IN
           Shaped(frame) /\ Remains(frame) /\ frame.at = label
<1> DEFINE frame == [Top EXCEPT !.at = label]
<1>1. /\ frame.at = label /\ frame.ast = Top.ast /\ frame.kids = Top.kids
      /\ frame.tok = Top.tok
  BY Own DEF Frame
<1> HIDE DEF frame
<1>2. Shaped(frame) /\ Remains(frame)
  BY <1>1, ShapedAt
<1> QED BY <1>1, <1>2 DEF frame

LEMMA GotoTrees ==
    ASSUME TreesInv, ~Done, NEW label, Turns(label), label \notin Lists, Goto(label)
    PROVE  TreeSteps
BY FrameAt, ContinueTrees DEF Goto

LEMMA CallTrees ==
    ASSUME TreesInv, ~Done, NEW label, Turns(label), label \notin Lists,
           NEW callee \in Callees, Gives(callee, "END_OF_FILE") \subseteq Expects(label),
           Call(label, callee)
    PROVE  TreeSteps
<1> DEFINE frame == [Top EXCEPT !.at = label]
<1>1. Shaped(frame) /\ Remains(frame) /\ frame.at = label
  BY FrameAt
<1>2. CallFrom(frame, callee, 0)
  BY DEF Call
<1> HIDE DEF frame
<1> QED BY <1>1, <1>2, CallFromTrees

(* A frame made with trees of its own, at a step that takes none off *)
LEMMA ShapedWith ==
    ASSUME NEW frame, NEW kinds, Forest(frame.ast, kinds),
           Holding(frame.at, frame.kids, kinds),
           frame.at \notin Branch \cup Elifs \cup Listing \cup Trying \cup Naming
    PROVE  Shaped(frame)
BY DEF Shaped, Remembering

(* The trees it has and the one it got *)
LEMMA Together ==
    ASSUME TreesInv, ~Done, ret.tag = "value"
    PROVE  /\ Top.ast \o ret.ast \in Tree
           /\ \E kinds, more \in Seq(NodeKinds), kind \in NodeKinds :
                  /\ Forest(Top.ast, kinds) /\ Holding(Top.at, Top.kids, kinds)
                  /\ kind \in Expects(Top.at) /\ Forest(ret.ast, <<kind>>)
                  /\ Behind(more, kinds, kind)
                  /\ Forest(Top.ast \o ret.ast, more)
<1> PICK kinds : Forest(Top.ast, kinds) /\ Holding(Top.at, Top.kids, kinds)
  BY Own DEF Shaped
<1> PICK kind \in NodeKinds : kind \in Expects(Top.at) /\ Forest(ret.ast, <<kind>>)
  BY Got
<1>1. Top.ast \in Tree /\ ret.ast \in Tree /\ kinds \in Seq(NodeKinds)
  BY Own, Got DEF Forest
<1>2. Behind(kinds \o <<kind>>, kinds, kind)
  BY <1>1, OneMore
<1>3. Forest(Top.ast \o ret.ast, kinds \o <<kind>>)
  BY <1>1, ForestsJoin
<1>4. kinds \o <<kind>> \in Seq(NodeKinds)
  BY <1>2 DEF Behind
<1> QED BY <1>1, <1>2, <1>3, <1>4, ConcatIs

(* The step behind a call whose tree joins those the method has *)
Adds(label) ==
    /\ \A kinds, more \in Seq(NodeKinds), kind \in NodeKinds :
           Behind(more, kinds, kind) /\ kind \in Expects(Top.at)
               /\ Holding(Top.at, Top.kids, kinds) =>
                      /\ Holding(label, Top.kids + 1, more)
                      /\ label \in Lists => Len(more) >= 2 /\ Len(more) = Top.kids + 1
    /\ label \in Branch => Top.at \in Branch
    /\ label \in Elifs => Top.tok = "IF"
    /\ label \in Listing => Top.at \in Listing
    /\ label \notin Trying \cup Naming
    /\ Gives(label, Top.tok) \subseteq Gives(Top.at, Top.tok)

LEMMA GotoWithTrees ==
    ASSUME TreesInv, ~Done, ret.tag = "value", NEW label, Adds(label), GotoWith(label)
    PROVE  TreeSteps
<1> DEFINE trees == Top.ast \o ret.ast
           kids == Top.kids + 1
           frame == [Top EXCEPT !.at = label, !.ast = @ \o ret.ast, !.kids = @ + 1]
<1>1. /\ frame.at = label /\ frame.ast = trees /\ frame.kids = kids /\ frame.tok = Top.tok
  <2>1. frame = [Top EXCEPT !.at = label, !.ast = trees, !.kids = kids]
    OBVIOUS
  <2> HIDE DEF frame, trees, kids
  <2> QED BY <2>1, Own DEF Frame
<1>2. Continue(frame)
  BY DEF GotoWith
<1> PICK kinds, more \in Seq(NodeKinds), kind \in NodeKinds :
        /\ Forest(Top.ast, kinds) /\ Holding(Top.at, Top.kids, kinds)
        /\ kind \in Expects(Top.at) /\ Forest(ret.ast, <<kind>>)
        /\ Behind(more, kinds, kind)
        /\ Forest(trees, more)
  BY Together
<1>3. /\ Holding(label, kids, more)
      /\ label \in Lists => Len(more) >= 2 /\ Len(more) = kids
  BY DEF Adds, Forest
<1>4. Top.kids \in Nat /\ Remembering(Top)
  BY Own DEF Shaped
<1>5. ~(label \in Lists /\ kids < 2)
  BY <1>3, <1>4
<1> HIDE DEF frame, trees, kids
<1>6. Remembering(frame)
  BY <1>1, <1>4 DEF Remembering, Adds
<1>7. Shaped(frame) /\ Remains(frame) /\ Separated(frame)
  BY <1>1, <1>3, <1>5, <1>6 DEF Shaped, Remains, Separated, Adds
<1> QED BY <1>2, <1>7 DEF TreeSteps, GoesOnShaped

(* Nodes of the trees the method has, of those and the one it got, and of  *)
(* that one alone                                                          *)
LEMMA NodeOfTrees ==
    ASSUME TreesInv, ~Done, NEW kind \in NodeKinds, NEW arity, NEW area,
           \A kinds \in Seq(NodeKinds) :
               Forest(Top.ast, kinds) /\ Holding(Top.at, Top.kids, kinds) =>
                   arity = Len(kinds) /\ Declared(kind, kinds)
    PROVE  Forest(Grown(Top.ast, kind, arity, area), <<kind>>)
<1> PICK kinds : Forest(Top.ast, kinds) /\ Holding(Top.at, Top.kids, kinds)
  BY Own DEF Shaped
<1>1. arity = Len(kinds) /\ Declared(kind, kinds)
  BY DEF Forest
<1> QED BY <1>1, Own, ForestGrows

LEMMA NodeOfBoth ==
    ASSUME TreesInv, ~Done, ret.tag = "value",
           NEW kind \in NodeKinds, NEW arity, NEW area,
           \A kinds, more \in Seq(NodeKinds), got \in NodeKinds :
               Behind(more, kinds, got) /\ got \in Expects(Top.at)
                   /\ Holding(Top.at, Top.kids, kinds) =>
                          arity = Len(more) /\ Declared(kind, more)
    PROVE  Forest(Grown(Top.ast \o ret.ast, kind, arity, area), <<kind>>)
<1> PICK kinds, more \in Seq(NodeKinds), got \in NodeKinds :
        /\ Forest(Top.ast, kinds) /\ Holding(Top.at, Top.kids, kinds)
        /\ got \in Expects(Top.at) /\ Forest(ret.ast, <<got>>)
        /\ Behind(more, kinds, got)
        /\ Forest(Top.ast \o ret.ast, more)
  BY Together
<1>1. arity = Len(more) /\ Declared(kind, more)
  BY DEF Forest
<1> QED BY <1>1, Together, ForestGrows

LEMMA NodeOfGot ==
    ASSUME TreesInv, ~Done, ret.tag = "value", NEW kind \in NodeKinds, NEW area,
           \A got \in NodeKinds : got \in Expects(Top.at) => Declared(kind, <<got>>)
    PROVE  Forest(Grown(ret.ast, kind, 1, area), <<kind>>)
<1> PICK got \in NodeKinds : got \in Expects(Top.at) /\ Forest(ret.ast, <<got>>)
  BY Got
<1>1. Declared(kind, <<got>>) /\ Len(<<got>>) = 1
  OBVIOUS
<1> QED BY <1>1, Got, ForestGrows

(* The one tree the method has *)
LEMMA OnlyTree ==
    ASSUME TreesInv, ~Done, Top.at \in One
    PROVE  /\ Top.ast # <<>>
           /\ Root(Top.ast).size = Len(Top.ast)
           /\ \E kind \in NodeKinds :
                  /\ Forest(Top.ast, <<kind>>) /\ Root(Top.ast).kind = kind
                  /\ Holding(Top.at, Top.kids, <<kind>>)
                  /\ Top.at \in Names => kind = "Identifier"
                  /\ Top.at \in Types => kind \in TypeKinds
                  /\ Top.at \in Expressions => kind \in ExpressionKinds
                  /\ Top.at \in Statements => kind \in StatementKinds
<1> PICK kinds : Forest(Top.ast, kinds) /\ Holding(Top.at, Top.kids, kinds)
  BY Own DEF Shaped
<1>1. kinds \in Seq(NodeKinds) /\ Len(kinds) = 1
  BY DEF Forest, Holding
<1> DEFINE kind == LastPart(kinds)
<1>2. /\ kinds = <<kind>> /\ kinds # <<>>
      /\ \A K : AllOf(kinds, K) => kind \in K
  BY <1>1, JustOne
<1>3. kind \in NodeKinds
  <2>1. AllOf(kinds, NodeKinds)
    BY <1>1 DEF AllOf
  <2> QED BY <1>2, <2>1
<1>4. /\ Top.at \in Names => kind = "Identifier"
      /\ Top.at \in Types => kind \in TypeKinds
      /\ Top.at \in Expressions => kind \in ExpressionKinds
      /\ Top.at \in Statements => kind \in StatementKinds
  <2>1. kind \in {"Identifier"} => kind = "Identifier"
    OBVIOUS
  <2> HIDE DEF kind
  <2> QED BY <1>2, <2>1 DEF Holding
<1>5. /\ Top.ast # <<>> /\ Root(Top.ast).kind = kind
      /\ Root(Top.ast).size = Len(Top.ast)
  BY <1>1, <1>2, Own, ForestRoot
<1> HIDE DEF kind
<1> QED BY <1>2, <1>3, <1>4, <1>5

(* The trees the method has and a leaf *)
LEMMA OneMoreLeaf ==
    ASSUME TreesInv, ~Done, NEW kinds, Forest(Top.ast, kinds),
           NEW kind \in NodeKinds, Declared(kind, <<>>)
    PROVE  LET trees == Top.ast \o Leaf(kind, NextArea) IN
           /\ Root(trees).size = 1
           /\ \E more \in Seq(NodeKinds) : Behind(more, kinds, kind) /\ Forest(trees, more)
<1> DEFINE leaf == Leaf(kind, NextArea)
           trees == Top.ast \o leaf
           n == Len(Top.ast)
<1>1. Top.ast \in Tree /\ n \in Nat /\ kinds \in Seq(NodeKinds)
  BY Own, NodesOf DEF Forest
<1>2. leaf \in Tree /\ Len(leaf) = 1 /\ leaf[1].size = 1
  <2>1. NextArea \in Area
    <3>1. taken \in Nat
      BY Running DEF TreesInv
    <3> QED BY <3>1 DEF NextArea, TokenArea, Area
  <2> QED BY <2>1 DEF Leaf, Tree, Node
<1>3. Forest(leaf, <<kind>>)
  BY LeafForest
<1> HIDE DEF leaf
<1>4. Forest(trees, kinds \o <<kind>>)
  BY <1>1, <1>2, <1>3, ForestsJoin
<1>5. Behind(kinds \o <<kind>>, kinds, kind)
  BY <1>1, OneMore
<1>6. /\ Len(trees) = n + 1
      /\ \A i \in 1 .. n + 1 : trees[i] = IF i <= n THEN Top.ast[i] ELSE leaf[i - n]
  <2>1. /\ Len(trees) = n + Len(leaf)
        /\ \A i \in 1 .. Len(trees) : trees[i] = IF i <= n THEN Top.ast[i] ELSE leaf[i - n]
    BY <1>1, <1>2, ConcatIs
  <2> HIDE DEF trees, n
  <2>2. Len(trees) = n + 1
    BY <1>2, <2>1
  <2> QED BY <2>1, <2>2
<1> HIDE DEF trees, n
<1>7. Root(trees).size = 1
  <2>1. n + 1 \in 1 .. n + 1 /\ ~(n + 1 <= n) /\ (n + 1) - n = 1
    BY <1>1
  <2>2. trees[n + 1] = leaf[1]
    BY <1>6, <2>1
  <2> QED BY <1>2, <1>6, <2>2 DEF Root
<1>8. kinds \o <<kind>> \in Seq(NodeKinds)
  BY <1>5 DEF Behind
<1> QED BY <1>4, <1>5, <1>7, <1>8 DEF trees, leaf

(* A root that is given another area *)
LEMMA WidenedForest ==
    ASSUME NEW trees \in Tree, NEW kinds, Forest(trees, kinds), NEW area
    PROVE  Forest([trees EXCEPT ![Len(trees)].area = area], kinds)
<1> DEFINE n == Len(trees)
           wide == [trees EXCEPT ![n].area = area]
<1>1. n \in Nat /\ DOMAIN trees = 1 .. n /\ \A i \in 1 .. n : trees[i] \in Node
  BY NodesOf, LenProperties DEF Tree
<1>2. /\ Len(wide) = n
      /\ \A i \in 1 .. n : wide[i] = IF i = n THEN [trees[n] EXCEPT !.area = area]
                                     ELSE trees[i]
  BY <1>1 DEF Tree
<1>3. \A i \in 1 .. n : Alike(wide[i], trees[i])
  BY <1>1, <1>2 DEF Alike, Node
<1> HIDE DEF wide, n
<1> QED BY <1>1, <1>2, <1>3, SameForest DEF wide, n

-----------------------------------------------------------------------------
(* The steps of the methods, class by class *)

LEMMA TypeTrees ==
    ASSUME TreesInv, TypeNext
    PROVE  TreeSteps
<1> USE DEF Bare, One, Some, Names, Types, Expressions, Statements, Parameters, Branch,
            Elifs, Counting, Holding, Listing, Trying, Naming, TypeSteps, Gives, Expects,
            Lists, Callees, Turns, Adds, Looks, In, Gets, Fails
<1>1. CASE StartCompound
  BY <1>1, CallTrees DEF StartCompound
<1>2. CASE StartSelf
  <2> DEFINE trees == Leaf("SelfType", NextArea)
             frame == [Top EXCEPT !.at = "type.suffix", !.kids = 1, !.ast = trees]
  <2>1. ~Done /\ Top.at = "type" /\ Continue(frame)
    BY <1>2 DEF StartSelf
  <2>2. "SelfType" \in TypeKinds /\ "SelfType" \in NodeKinds /\ Declared("SelfType", <<>>)
    BY KindsAre DEF TypeKinds, Declared
  <2>3. Forest(trees, <<"SelfType">>)
    BY <2>2, LeafForest
  <2>4. Len(<<"SelfType">>) = 1 /\ AllOf(<<"SelfType">>, TypeKinds)
    BY <2>2, JustOneIs
  <2> HIDE DEF trees
  <2>5. frame.at = "type.suffix" /\ frame.ast = trees
    BY <2>1, Own DEF Frame
  <2> HIDE DEF frame
  <2>6. Shaped(frame)
    BY <2>3, <2>4, <2>5, ShapedWith
  <2> QED BY <2>1, <2>5, <2>6, ContinueTrees DEF Remains
<1>3. CASE StartNamed
  BY <1>3, CallTrees DEF StartNamed
<1>4. CASE Started
  <2>1. ~Done /\ Top.at = "type.started" /\ ret.tag = "value" /\ GotoWith("type.suffix")
    BY <1>4 DEF Started
  <2>2. Adds("type.suffix")
    BY <2>1, OneIs
  <2> QED BY <2>1, <2>2, GotoWithTrees
<1>5. CASE StartFailed
  BY <1>5, GotoTrees DEF StartFailed
<1>6. CASE TypeFails
  BY <1>6, PopsBadTokenTrees DEF TypeFails
<1>7. CASE Optional
  <2> DEFINE trees == Grown(Top.ast, "OptionalType", 1,
                            Combine(Root(Top.ast).area, NextArea))
             frame == [Top EXCEPT !.ast = trees]
  <2>1. ~Done /\ Top.at = "type.suffix" /\ Continue(frame)
    BY <1>7 DEF Optional
  <2>2. "OptionalType" \in TypeKinds /\ "OptionalType" \in NodeKinds
    BY KindsAre DEF TypeKinds
  <2>3. Forest(trees, <<"OptionalType">>)
    BY <2>1, <2>2, NodeOfTrees DEF Declared, OptionalTypeParts
  <2>4. Len(<<"OptionalType">>) = 1 /\ AllOf(<<"OptionalType">>, TypeKinds)
    BY <2>2, JustOneIs
  <2> HIDE DEF trees
  <2>5. frame.at = "type.suffix" /\ frame.ast = trees
    BY <2>1, Own DEF Frame
  <2> HIDE DEF frame
  <2>6. Shaped(frame)
    BY <2>3, <2>4, <2>5, ShapedWith
  <2> QED BY <2>1, <2>5, <2>6, ContinueTrees DEF Remains
<1>8. CASE Arrow
  BY <1>8, CallTrees DEF Arrow
<1>9. CASE ArrowGetsType
  <2> DEFINE trees == Grown(Top.ast \o ret.ast, "LambdaType", 2,
                            Combine(Root(Top.ast).area, Root(ret.ast).area))
             frame == [Top EXCEPT !.at = "type.suffix", !.ast = trees]
  <2>1. ~Done /\ Top.at = "type.arrow" /\ ret.tag = "value" /\ Continue(frame)
    BY <1>9 DEF ArrowGetsType
  <2>2. "LambdaType" \in TypeKinds /\ "LambdaType" \in NodeKinds
    BY KindsAre DEF TypeKinds
  <2>3. Forest(trees, <<"LambdaType">>)
    <3>1. ASSUME NEW kinds \in Seq(NodeKinds), NEW more \in Seq(NodeKinds),
                 NEW got \in NodeKinds, Behind(more, kinds, got),
                 got \in Expects(Top.at), Holding(Top.at, Top.kids, kinds)
          PROVE  2 = Len(more) /\ Declared("LambdaType", more)
      <4>1. Len(kinds) = 1 /\ AllOf(kinds, TypeKinds) /\ got \in TypeKinds
        BY <2>1, <3>1
      <4>2. Len(more) = 2 /\ AllOf(more, TypeKinds)
        <5> HIDE DEF Holding, Expects
        <5>1. Len(more) = Len(kinds) + 1
          BY <3>1, BehindIs
        <5>2. AllOf(more, TypeKinds)
          BY <3>1, <4>1, BehindIs
        <5> QED BY <4>1, <5>1, <5>2
      <4> QED BY <4>2 DEF Declared, LambdaTypeParts
    <3> HIDE DEF Holding, Expects
    <3> QED BY <2>1, <2>2, <3>1, NodeOfBoth
  <2>4. Len(<<"LambdaType">>) = 1 /\ AllOf(<<"LambdaType">>, TypeKinds)
    BY <2>2, JustOneIs
  <2> HIDE DEF trees
  <2>5. frame.at = "type.suffix" /\ frame.ast = trees
    BY <2>1, Own DEF Frame
  <2> HIDE DEF frame
  <2>6. Shaped(frame)
    BY <2>3, <2>4, <2>5, ShapedWith
  <2> QED BY <2>1, <2>5, <2>6, ContinueTrees DEF Remains
<1>10. CASE TypeReturns
  <2>1. ~Done /\ Top.at = "type.suffix" /\ Return(Top.ast)
    BY <1>10 DEF TypeReturns
  <2> QED BY <2>1, OnlyTree, ReturnTrees
<1>11. CASE Identifier
  <2>1. "Identifier" \in NodeKinds /\ Declared("Identifier", <<>>)
    BY DEF NodeKinds, StatementKinds, ExpressionKinds, Declared
  <2>2. Forest(Leaf("Identifier", NextArea), <<"Identifier">>)
    BY <2>1, LeafForest
  <2> QED BY <1>11, <2>2, ReturnTrees, ErrorTrees DEF Identifier
<1>12. CASE NamePart
  <2> DEFINE trees == Top.ast \o Leaf("Identifier", NextArea)
             kids == Top.kids + 1
             frame == [Top EXCEPT !.at = "named_type.next", !.kids = kids, !.ast = trees]
  <2>1. ~Done /\ Top.at = "named_type" /\ (Continue(frame) \/ ReturnError(Unexpected))
    BY <1>12 DEF NamePart
  <2>2. "Identifier" \in NodeKinds /\ Declared("Identifier", <<>>)
    BY DEF NodeKinds, StatementKinds, ExpressionKinds, Declared
  <2>3. PICK kinds : Forest(Top.ast, kinds) /\ Holding(Top.at, Top.kids, kinds)
    BY <2>1, Own DEF Shaped
  <2>4. PICK more : Behind(more, kinds, "Identifier") /\ Forest(trees, more)
    BY <2>1, <2>2, <2>3, OneMoreLeaf
  <2> HIDE DEF trees
  <2>5. frame.at = "named_type.next" /\ frame.ast = trees /\ frame.kids = kids
    BY <2>1, Own DEF Frame
  <2>6. Holding("named_type.next", kids, more)
    BY <2>1, <2>3, <2>4, Own DEF Behind
  <2> HIDE DEF frame, kids
  <2>7. Shaped(frame)
    BY <2>4, <2>5, <2>6, ShapedWith
  <2> QED BY <2>1, <2>5, <2>7, ContinueTrees, ErrorTrees DEF Remains
<1>13. CASE NameGoesOn
  BY <1>13, GotoTrees DEF NameGoesOn
<1>14. CASE NameReturns
  <2> DEFINE area == Combine(Top.ast[1].area, Root(Top.ast).area)
  <2>1. ~Done /\ Top.at = "named_type.next"
        /\ Return(Grown(Top.ast, "NamedType", Top.kids, area))
    BY <1>14 DEF NameReturns
  <2>2. "NamedType" \in TypeKinds /\ "NamedType" \in NodeKinds
    BY KindsAre DEF TypeKinds
  <2> HIDE DEF area
  <2>3. Forest(Grown(Top.ast, "NamedType", Top.kids, area), <<"NamedType">>)
    BY <2>1, <2>2, NodeOfTrees DEF Declared, NamedTypeParts
  <2> QED BY <2>1, <2>2, <2>3, ReturnTrees
<1>15. CASE Parenthesis
  <2> DEFINE frame == [Top EXCEPT !.at = "compound_type.first", !.area = NextArea]
  <2>1. ~Done /\ Top.at = "compound_type" /\ CallFrom(frame, "type", 0)
    BY <1>15 DEF Parenthesis
  <2>2. /\ frame.at = "compound_type.first" /\ frame.ast = Top.ast
        /\ frame.kids = Top.kids /\ frame.tok = Top.tok
    BY <2>1, Own DEF Frame
  <2> HIDE DEF frame
  <2>3. Shaped(frame) /\ Remains(frame)
    BY <2>1, <2>2, ShapedAt
  <2> QED BY <2>1, <2>2, <2>3, CallFromTrees
<1>16. CASE FirstOfCompound
  <2>1. ~Done /\ Top.at = "compound_type.first" /\ ret.tag = "value"
        /\ GotoWith("compound_type.which")
    BY <1>16 DEF FirstOfCompound
  <2>2. Adds("compound_type.which")
    <3>1. ASSUME NEW kinds \in Seq(NodeKinds), NEW more \in Seq(NodeKinds),
                 NEW kind \in NodeKinds, Behind(more, kinds, kind),
                 kind \in Expects(Top.at), Holding(Top.at, Top.kids, kinds)
          PROVE  Holding("compound_type.which", Top.kids + 1, more)
      <4>1. kinds = <<>> /\ Top.kids = Len(kinds) /\ kind \in TypeKinds
        BY <2>1, <3>1
      <4>2. Len(more) = 1 /\ AllOf(more, TypeKinds) /\ Top.kids = 0
        <5> HIDE DEF Holding, Expects
        <5> QED BY <3>1, <4>1, OneIs, NoneIs
      <4> QED BY <4>2
    <3> HIDE DEF Holding, Expects
    <3> QED BY <2>1, <3>1 DEF Holding
  <2> QED BY <2>1, <2>2, GotoWithTrees
<1>17. CASE Grouped
  <2> DEFINE area == Combine(Top.area, NextArea)
             trees == [Top.ast EXCEPT ![Len(Top.ast)].area = area]
  <2>1. ~Done /\ Top.at = "compound_type.which" /\ Return(trees)
    BY <1>17 DEF Grouped, GroupedArea
  <2>2. PICK kind \in TypeKinds : Forest(Top.ast, <<kind>>)
    BY <2>1, OnlyTree
  <2> HIDE DEF area
  <2>3. Forest(trees, <<kind>>)
    BY <2>1, <2>2, Own, WidenedForest
  <2> QED BY <2>1, <2>3, ReturnTrees
<1>18. CASE List
  <2> DEFINE frame == [Top EXCEPT !.at = "type_list", !.tok = NextToken]
  <2>1. /\ ~Done /\ Top.at = "compound_type.which" /\ Continue(frame)
        /\ NextIn({"BITWISE_AND", "BITWISE_OR", "COMMA"}) /\ taken' = taken
    BY <1>18 DEF List, Keep
  <2>2. /\ frame.at = "type_list" /\ frame.ast = Top.ast
        /\ frame.kids = Top.kids /\ frame.tok = NextToken
    BY <2>1, Own DEF Frame
  <2>3. PICK kinds : Forest(Top.ast, kinds) /\ Holding(Top.at, Top.kids, kinds)
    BY <2>1, Own DEF Shaped
  <2> HIDE DEF frame
  <2>4. Holding("type_list", Top.kids, kinds)
    <3>1. Len(kinds) = 1 /\ AllOf(kinds, TypeKinds) /\ Top.kids = Len(kinds)
      BY <2>1, <2>3
    <3> QED BY <3>1
  <2>5. NextIs(NextToken) /\ NextToken \in {"BITWISE_AND", "BITWISE_OR", "COMMA"}
    BY <2>1 DEF NextIn, NextIs
  <2>6. Shaped(frame)
    BY <2>2, <2>3, <2>4, <2>5 DEF Shaped, Remembering
  <2>7. Remains(frame)
    BY <2>1, <2>2 DEF Remains
  <2>8. Separated(frame)
    BY <2>1, <2>2, <2>5 DEF Separated
  <2> QED BY <2>1, <2>6, <2>7, <2>8 DEF TreeSteps, GoesOnShaped
<1>19. CASE NotCompound
  BY <1>19, PopsBadTokenTrees DEF NotCompound
<1>20. CASE ListGoesOn
  BY <1>20, CallTrees DEF ListGoesOn
<1>21. CASE ListGetsType
  <2>1. ~Done /\ Top.at = "type_list.elem" /\ ret.tag = "value" /\ GotoWith("type_list")
    BY <1>21 DEF ListGetsType
  <2>2. Adds("type_list")
    BY <2>1 DEF Behind
  <2> QED BY <2>1, <2>2, GotoWithTrees
<1>22. CASE ListEnds
  <2> DEFINE kind == IF Top.tok = "BITWISE_AND" THEN "TupleType" ELSE "UnionType"
             area == Combine(Top.area, NextArea)
  <2>1. /\ ~Done /\ Top.at = "type_list" /\ NextIs("R_PARANTHESIS")
        /\ Goto("lambda_type.arrow") \/ Return(Grown(Top.ast, kind, Top.kids, area))
    BY <1>22 DEF ListEnds
  <2>2. Top.tok \in {"BITWISE_AND", "BITWISE_OR", "COMMA"} /\ ~(Top.kids < 2)
    BY <2>1, Own DEF Shaped, Remembering, AtSeparator, NextIs
  <2>3. kind \in TypeKinds /\ kind \in NodeKinds
    BY KindsAre DEF TypeKinds
  <2>4. \A kinds : Len(kinds) >= 2 /\ AllOf(kinds, TypeKinds) => Declared(kind, kinds)
    BY DEF Declared, TupleTypeParts, UnionTypeParts
  <2> HIDE DEF kind, area
  <2>5. Forest(Grown(Top.ast, kind, Top.kids, area), <<kind>>)
    BY <2>1, <2>2, <2>3, <2>4, Own, NodeOfTrees
  <2>6. Turns("lambda_type.arrow")
    BY <2>1
  <2> QED BY <2>1, <2>3, <2>5, <2>6, GotoTrees, ReturnTrees
<1>23. CASE ListFails
  BY <1>23, PopsBadTokenTrees DEF ListFails
<1>24. CASE LambdaArrow
  <2>1. /\ ~Done /\ Top.at = "lambda_type.arrow"
        /\ Call("lambda_type.ret", "type") \/ PopsBadToken
    BY <1>24 DEF LambdaArrow
  <2> QED BY <2>1, CallTrees, PopsBadTokenTrees
<1>25. CASE LambdaReturns
  <2> DEFINE area == Combine(Top.area, Root(ret.ast).area)
             tree == Grown(Top.ast \o ret.ast, "LambdaType", Top.kids + 1, area)
  <2>1. ~Done /\ Top.at = "lambda_type.ret" /\ ret.tag = "value" /\ Return(tree)
    BY <1>25 DEF LambdaReturns
  <2>2. "LambdaType" \in TypeKinds /\ "LambdaType" \in NodeKinds
    BY KindsAre DEF TypeKinds
  <2> HIDE DEF area
  <2>3. \A kinds, more \in Seq(NodeKinds), got \in NodeKinds :
            Behind(more, kinds, got) /\ got \in Expects(Top.at)
                /\ Holding(Top.at, Top.kids, kinds) =>
                       /\ Len(more) >= 2 /\ Len(more) = Top.kids + 1
                       /\ AllOf(more, TypeKinds)
    BY <2>1, BehindIs
  <2>4. \A more : Len(more) >= 2 /\ AllOf(more, TypeKinds) => Declared("LambdaType", more)
    BY DEF Declared, LambdaTypeParts
  <2>5. Forest(tree, <<"LambdaType">>)
    BY <2>1, <2>2, <2>3, <2>4, NodeOfBoth
  <2> QED BY <2>1, <2>2, <2>5, ReturnTrees
<1>26. CASE TypePropagates
  BY <1>26, PropagatesTrees DEF TypePropagates
<1> QED
  BY TypeNext, <1>1, <1>2, <1>3, <1>4, <1>5, <1>6, <1>7, <1>8, <1>9, <1>10, <1>11,
     <1>12, <1>13, <1>14, <1>15, <1>16, <1>17, <1>18, <1>19, <1>20, <1>21, <1>22,
     <1>23, <1>24, <1>25, <1>26 DEF TypeNext

LEMMA ExpressionsAre ==
    /\ ExpressionKinds \subseteq NodeKinds
    /\ {"Identifier", "IfExpr", "FunctionCall", "LambdaExpr", "TupleExpr", "BlockExpr"}
           \subseteq ExpressionKinds
    /\ LiteralKinds \subseteq ExpressionKinds /\ BinaryKinds \subseteq ExpressionKinds
    /\ UnaryKinds \subseteq ExpressionKinds
BY DEF NodeKinds, StatementKinds, ExpressionKinds

(* expression_bp() has one tree again. *)
LEMMA LoopTrees ==
    ASSUME ~Done, Gives(Top.at, Top.tok) = ExpressionKinds,
           NEW frame, frame.at = "expression_bp.loop",
           NEW kind \in ExpressionKinds, Forest(frame.ast, <<kind>>),
           Continue(frame)
    PROVE  TreeSteps
<1>1. Len(<<kind>>) = 1 /\ AllOf(<<kind>>, ExpressionKinds)
  BY ExpressionsAre, JustOneIs
<1>2. Holding("expression_bp.loop", frame.kids, <<kind>>)
  BY <1>1 DEF Holding, Bare, One, Some, Names, Types, Expressions, Statements, Parameters,
              Elifs, Counting
<1>3. Gives("expression_bp.loop", frame.tok) = ExpressionKinds
  BY DEF Gives, TypeSteps, Branch, ElementSteps, LetSteps, StatementSteps
<1>4. "expression_bp.loop" \notin Branch \cup Elifs \cup Listing \cup Trying \cup Naming
                                         \cup Lists
  BY DEF Branch, Elifs, Listing, Trying, Naming, Lists
<1>5. Shaped(frame)
  BY <1>2, <1>4, ShapedWith
<1> QED BY <1>3, <1>4, <1>5, ContinueTrees DEF Remains

LEMMA ExpressionTrees ==
    ASSUME TreesInv, ExpressionNext
    PROVE  TreeSteps
<1> USE DEF Bare, One, Some, Names, Types, Expressions, Statements, Parameters, Branch,
            Elifs, Counting, Holding, Listing, Trying, Naming, Gives, Expects,
            TypeSteps, StatementSteps, ElementSteps, LetSteps,
            Lists, Callees, Turns, Adds, Looks, In, Gets, Fails
<1>1. CASE Prefix
  <2> DEFINE frame == [Top EXCEPT !.at = "lhs.rhs", !.tok = NextToken, !.area = NextArea]
  <2>1. ~Done /\ Top.at = "expression_bp" /\ CallFrom(frame, "expression_bp", PrefixPower)
    BY <1>1 DEF Prefix
  <2>2. frame.at = "lhs.rhs" /\ frame.ast = Top.ast
    BY <2>1, Own DEF Frame
  <2> HIDE DEF frame
  <2>3. Shaped(frame)
    <3>1. Forest(Top.ast, <<>>)
      BY <2>1, Own DEF Shaped
    <3> QED BY <2>2, <3>1, NoneIs, ShapedWith
  <2> QED BY <2>1, <2>2, <2>3, CallFromTrees DEF Remains
<1>2. CASE PrefixGetsOperand
  <2> DEFINE kind == PrefixNode(Top.tok)
             area == Combine(Top.area, Root(ret.ast).area)
             trees == Grown(ret.ast, kind, 1, area)
             frame == [Top EXCEPT !.at = "expression_bp.loop", !.ast = trees]
  <2>1. ~Done /\ Top.at = "lhs.rhs" /\ ret.tag = "value" /\ Continue(frame)
    BY <1>2 DEF PrefixGetsOperand
  <2>2. kind \in UnaryKinds
    BY <2>1, Own DEF PrefixOperators, IsPrefixOperator, PrefixNode, UnaryKinds
  <2>3. kind \in ExpressionKinds /\ kind \in NodeKinds
    BY <2>2, ExpressionsAre
  <2> HIDE DEF kind, area
  <2>4. Forest(trees, <<kind>>)
    <3>1. \A got \in ExpressionKinds : Declared(kind, <<got>>)
      BY <2>2, ExpressionsAre, JustOneIs DEF Declared, UnaryParts
    <3> QED BY <2>1, <2>3, <3>1, NodeOfGot
  <2> HIDE DEF trees
  <2>5. frame.at = "expression_bp.loop" /\ frame.ast = trees
    BY <2>1, Own DEF Frame
  <2> HIDE DEF frame
  <2> QED BY <2>1, <2>3, <2>4, <2>5, LoopTrees
<1>3. CASE Simple
  BY <1>3, CallTrees DEF Simple
<1>4. CASE GetsLhs
  <2> DEFINE frame == [Top EXCEPT !.at = "expression_bp.loop", !.ast = ret.ast]
  <2>1. ~Done /\ Top.at = "expression_bp.lhs" /\ ret.tag = "value" /\ Continue(frame)
    BY <1>4 DEF GetsLhs
  <2>2. PICK kind \in ExpressionKinds : Forest(ret.ast, <<kind>>)
    BY <2>1, Got
  <2>3. frame.at = "expression_bp.loop" /\ frame.ast = ret.ast
    BY <2>1, Own DEF Frame
  <2> HIDE DEF frame
  <2> QED BY <2>1, <2>2, <2>3, LoopTrees
<1>5. CASE ExpressionEnds
  <2>1. ~Done /\ Top.at = "expression_bp.loop" /\ Return(Top.ast)
    BY <1>5 DEF ExpressionEnds
  <2> QED BY <2>1, OnlyTree, ReturnTrees
<1>6. CASE NotAnInfix
  BY <1>6, ErrorTrees DEF NotAnInfix
<1>7. CASE Infix
  <2> DEFINE frame == [Top EXCEPT !.at = "expression_bp.rhs", !.tok = NextToken]
  <2>1. ~Done /\ Top.at = "expression_bp.loop"
        /\ CallFrom(frame, "expression_bp", RightPower(NextToken))
    BY <1>7 DEF Infix
  <2>2. frame.at = "expression_bp.rhs" /\ frame.ast = Top.ast
    BY <2>1, Own DEF Frame
  <2> HIDE DEF frame
  <2>3. Shaped(frame)
    <3>1. PICK kinds : Forest(Top.ast, kinds) /\ Holding(Top.at, Top.kids, kinds)
      BY <2>1, Own DEF Shaped
    <3>2. Holding("expression_bp.rhs", frame.kids, kinds)
      BY <2>1, <3>1
    <3> QED BY <2>2, <3>1, <3>2, ShapedWith
  <2> QED BY <2>1, <2>2, <2>3, CallFromTrees DEF Remains
<1>8. CASE InfixGetsOperand
  <2> DEFINE area == Combine(Root(Top.ast).area, Root(ret.ast).area)
             trees == Grown(Top.ast \o ret.ast, Top.tok, 2, area)
             frame == [Top EXCEPT !.at = "expression_bp.loop", !.ast = trees]
  <2>1. ~Done /\ Top.at = "expression_bp.rhs" /\ ret.tag = "value" /\ Continue(frame)
    BY <1>8 DEF InfixGetsOperand
  <2>2. Top.tok \in BinaryKinds /\ Top.tok \in ExpressionKinds /\ Top.tok \in NodeKinds
    BY <2>1, Own, ExpressionsAre
  <2> HIDE DEF area
  <2>3. Forest(trees, <<Top.tok>>)
    <3>1. ASSUME NEW kinds \in Seq(NodeKinds), NEW more \in Seq(NodeKinds),
                 NEW got \in NodeKinds, Behind(more, kinds, got),
                 got \in Expects(Top.at), Holding(Top.at, Top.kids, kinds)
          PROVE  2 = Len(more) /\ Declared(Top.tok, more)
      <4>1. Len(kinds) = 1 /\ AllOf(kinds, ExpressionKinds)
        BY <2>1, <3>1
      <4>2. got \in ExpressionKinds
        BY <2>1, <3>1
      <4>3. Len(more) = 2 /\ AllOf(more, ExpressionKinds)
        <5> HIDE DEF Holding, Expects
        <5>1. Len(more) = Len(kinds) + 1
          BY <3>1, BehindIs
        <5>2. AllOf(more, ExpressionKinds)
          BY <3>1, <4>1, <4>2, BehindIs
        <5> QED BY <4>1, <5>1, <5>2
      <4> QED BY <2>2, <4>3 DEF Declared, BinaryParts
    <3> HIDE DEF Holding, Expects
    <3> QED BY <2>1, <2>2, <3>1, NodeOfBoth
  <2> HIDE DEF trees
  <2>4. frame.at = "expression_bp.loop" /\ frame.ast = trees
    BY <2>1, Own DEF Frame
  <2> HIDE DEF frame
  <2> QED BY <2>1, <2>2, <2>3, <2>4, LoopTrees
<1>9. CASE FunctionCall
  <2> DEFINE area == Root(Top.ast).area
             frame == [Top EXCEPT !.at = "function_params", !.kids = 1, !.tok = NextToken,
                                  !.area = area]
  <2>1. ~Done /\ Top.at = "expression_bp.loop" /\ Continue(frame)
    BY <1>9 DEF FunctionCall
  <2> HIDE DEF area
  <2>2. frame.at = "function_params" /\ frame.ast = Top.ast /\ frame.kids = 1
    BY <2>1, Own DEF Frame
  <2> HIDE DEF frame
  <2>3. Shaped(frame)
    <3>1. PICK kinds : Forest(Top.ast, kinds) /\ Holding(Top.at, Top.kids, kinds)
      BY <2>1, Own DEF Shaped
    <3>2. Holding("function_params", 1, kinds)
      <4>1. Len(kinds) = 1 /\ AllOf(kinds, ExpressionKinds)
        BY <2>1, <3>1
      <4> QED BY <4>1
    <3> QED BY <2>2, <3>1, <3>2, ShapedWith
  <2> QED BY <2>1, <2>2, <2>3, ContinueTrees DEF Remains
<1>10. CASE CallEnds
  <2> DEFINE area == Combine(Top.area, NextArea)
             trees == Grown(Top.ast, "FunctionCall", Top.kids, area)
             frame == [Top EXCEPT !.at = "expression_bp.loop", !.ast = trees]
  <2>1. ~Done /\ Top.at \in {"function_params", "function_params.sep"} /\ Continue(frame)
    BY <1>10 DEF CallEnds
  <2>2. "FunctionCall" \in ExpressionKinds /\ "FunctionCall" \in NodeKinds
    BY ExpressionsAre
  <2> HIDE DEF area
  <2>3. Forest(trees, <<"FunctionCall">>)
    <3>1. ASSUME NEW kinds \in Seq(NodeKinds), Holding(Top.at, Top.kids, kinds)
          PROVE  Top.kids = Len(kinds) /\ Declared("FunctionCall", kinds)
      <4>1. Top.kids = Len(kinds) /\ Len(kinds) >= 1 /\ AllOf(kinds, ExpressionKinds)
        BY <2>1, <3>1
      <4> QED BY <4>1 DEF Declared, FunctionCallParts
    <3> HIDE DEF Holding
    <3> QED BY <2>1, <2>2, <3>1, NodeOfTrees
  <2> HIDE DEF trees
  <2>4. frame.at = "expression_bp.loop" /\ frame.ast = trees
    BY <2>1, Own DEF Frame
  <2> HIDE DEF frame
  <2> QED BY <2>1, <2>2, <2>3, <2>4, LoopTrees
<1>11. CASE Param
  BY <1>11, CallTrees DEF Param
<1>12. CASE GetsParam
  <2>1. /\ ~Done /\ Top.at = "function_params.param" /\ ret.tag = "value"
        /\ GotoWith("function_params.sep")
    BY <1>12 DEF GetsParam
  <2>2. Adds("function_params.sep")
    BY <2>1, BehindIs
  <2> QED BY <2>1, <2>2, GotoWithTrees
<1>13. CASE NextParam
  BY <1>13, GotoTrees DEF NextParam
<1>14. CASE NotAParam
  BY <1>14, PopsBadTokenTrees DEF NotAParam
<1>15. CASE PrattPropagates
  BY <1>15, PropagatesTrees DEF PrattPropagates
<1> QED
  BY ExpressionNext, <1>1, <1>2, <1>3, <1>4, <1>5, <1>6, <1>7, <1>8, <1>9, <1>10,
     <1>11, <1>12, <1>13, <1>14, <1>15 DEF ExpressionNext

(* A name is a tree of one node. *)
LEMMA NameAlone ==
    ASSUME NEW names \in Tree, Forest(names, <<"Identifier">>)
    PROVE  Len(names) = 1 /\ AllIdentifiers(names)
<1> DEFINE n == Len(names)
           kinds == <<"Identifier">>
<1>1. "Identifier" \in NodeKinds
  BY ExpressionsAre
<1>2. Len(kinds) = 1 /\ LastPart(kinds) = "Identifier" /\ kinds # <<>>
  BY <1>1, JustOneIs
<1> HIDE DEF kinds
<1>3. names # <<>> /\ names[n].kind = "Identifier" /\ names[n].size = n
  BY <1>2, ForestRoot DEF kinds, Root
<1>4. n \in Nat /\ n \in 1 .. n /\ DOMAIN names = 1 .. n
  BY <1>3, EmptySeq, LenProperties DEF Tree
<1>5. n = 1
  BY <1>3, <1>4, NamesAreLeaves DEF Forest, AllBuilt
<1> QED BY <1>3, <1>4, <1>5 DEF AllIdentifiers

(* Parameters and the body that was returned make a lambda. *)
LEMMA LambdaForest ==
    ASSUME TreesInv, ~Done, ret.tag = "value", Expects(Top.at) = ExpressionKinds,
           NEW params \in Tree, NEW kinds, Forest(params, kinds), kinds # <<>>,
           AllOf(kinds, {"LambdaParameter"}), NEW area
    PROVE  Forest(Grown(params \o ret.ast, "LambdaExpr", Len(kinds) + 1, area),
                  <<"LambdaExpr">>)
<1> PICK kind \in ExpressionKinds : Forest(ret.ast, <<kind>>)
  BY Got
<1> DEFINE more == kinds \o <<kind>>
<1>1. ret.ast \in Tree /\ kinds \in Seq(NodeKinds) /\ kind \in NodeKinds
  BY Got, ExpressionsAre DEF Forest
<1>2. Behind(more, kinds, kind)
  BY <1>1, OneMore
<1>3. params \o ret.ast \in Tree /\ Forest(params \o ret.ast, more)
  BY <1>1, ForestsJoin, ConcatIs
<1> HIDE DEF more
<1>4. Len(kinds) \in Nat \ {0} /\ Len(more) = Len(kinds) + 1
  BY <1>1, <1>2, EmptySeq, LenProperties DEF Behind
<1>5. LambdaExprParts(more)
  <2>1. Len(more) >= 2
    BY <1>4
  <2>2. AllBut(1, more) = kinds /\ LastPart(more) = kind
    BY <1>2 DEF Behind
  <2> QED BY <2>1, <2>2 DEF LambdaExprParts
<1>6. "LambdaExpr" \in NodeKinds /\ Declared("LambdaExpr", more)
  BY <1>5, ExpressionsAre DEF Declared
<1> QED BY <1>3, <1>4, <1>6, ForestGrows

(* Names become the parameters of the lambda. *)
LEMMA NamesMakeALambda ==
    ASSUME TreesInv, ~Done, ret.tag = "value", Expects(Top.at) = ExpressionKinds,
           NEW names \in Tree, AllBuilt(names), AllIdentifiers(names), names # <<>>,
           NEW area
    PROVE  Forest(Grown(AsParameters(names) \o ret.ast, "LambdaExpr", Len(names) + 1, area),
                  <<"LambdaExpr">>)
<1> DEFINE params == AsParameters(names)
           kinds == [i \in 1 .. Len(names) |-> "LambdaParameter"]
<1>1. /\ params \in Tree /\ Forest(params, kinds) /\ kinds \in Seq(NodeKinds)
      /\ Len(kinds) = Len(names) /\ AllOf(kinds, {"LambdaParameter"})
  BY NamesBecomeParameters
<1>2. kinds # <<>>
  <2>1. Len(names) \in Nat \ {0}
    BY EmptySeq, NodesOf DEF Tree
  <2> HIDE DEF kinds
  <2> QED BY <1>1, <2>1
<1> HIDE DEF params, kinds
<1>3. Forest(Grown(params \o ret.ast, "LambdaExpr", Len(kinds) + 1, area), <<"LambdaExpr">>)
  BY <1>1, <1>2, LambdaForest
<1> QED BY <1>1, <1>3 DEF params

LEMMA SimpleExpressionTrees ==
    ASSUME TreesInv, SimpleExpressionNext
    PROVE  TreeSteps
<1> USE DEF Bare, One, Some, Names, Types, Expressions, Statements, Parameters, Branch,
            Elifs, Counting, Holding, Listing, Trying, Naming, Gives, Expects,
            TypeSteps, StatementSteps, ElementSteps, LetSteps,
            Lists, Callees, Turns, Adds, Looks, In, Gets, Fails
<1>1. CASE Literal
  <2>1. ~Done /\ Top.at = "simple_expression" /\ Return(Leaf(NextToken, NextArea))
        /\ NextToken \in LiteralKinds
    BY <1>1 DEF Literal, Literals, LiteralKinds, NextIn
  <2>2. NextToken \in ExpressionKinds /\ NextToken \in NodeKinds /\ Declared(NextToken, <<>>)
    BY <2>1, ExpressionsAre DEF Declared
  <2>3. Forest(Leaf(NextToken, NextArea), <<NextToken>>)
    BY <2>2, LeafForest
  <2> QED BY <2>1, <2>2, <2>3, ReturnTrees
<1>2. CASE FirstAlternative
  <2> DEFINE frame == [Top EXCEPT !.at = "simple_expression.tried", !.kids = 1]
  <2>1. ~Done /\ Top.at = "simple_expression"
        /\ CallFrom(frame, "identifier_or_simple_lambda", 0)
    BY <1>2 DEF FirstAlternative, Alternatives
  <2>2. frame.at = "simple_expression.tried" /\ frame.ast = Top.ast
    BY <2>1, Own DEF Frame
  <2> HIDE DEF frame
  <2>3. Shaped(frame)
    <3>1. Forest(Top.ast, <<>>)
      BY <2>1, Own DEF Shaped
    <3> QED BY <2>2, <3>1, NoneIs, ShapedWith
  <2> QED BY <2>1, <2>2, <2>3, CallFromTrees DEF Remains
<1>3. CASE AlternativeSucceeds
  <2>1. ~Done /\ Top.at = "simple_expression.tried" /\ ret.tag = "value" /\ Return(ret.ast)
    BY <1>3 DEF AlternativeSucceeds
  <2>2. PICK kind \in ExpressionKinds : Forest(ret.ast, <<kind>>)
    BY <2>1, Got
  <2> QED BY <2>1, <2>2, ReturnTrees
<1>4. CASE NextAlternative
  <2> DEFINE kids == Top.kids + 1
             frame == [Top EXCEPT !.kids = kids]
  <2>1. /\ ~Done /\ Top.at = "simple_expression.tried" /\ Top.kids < Len(Alternatives)
        /\ CallFrom(frame, Alternatives[kids], 0)
    BY <1>4 DEF NextAlternative
  <2>2. Alternatives[kids] \in {"identifier_or_simple_lambda", "if_expression",
                                "block_expression", "l_par_expression"}
    <3>1. kids \in 1 .. 4
      BY <2>1, Own DEF Alternatives
    <3> QED BY <3>1 DEF Alternatives
  <2> HIDE DEF kids
  <2>3. frame.at = "simple_expression.tried" /\ frame.ast = Top.ast
    BY <2>1, Own DEF Frame
  <2> HIDE DEF frame
  <2>4. Shaped(frame)
    <3>1. Forest(Top.ast, <<>>)
      BY <2>1, Own DEF Shaped
    <3> QED BY <2>3, <3>1, NoneIs, ShapedWith
  <2>5. Gives(Alternatives[kids], "END_OF_FILE") \subseteq Expects(frame.at)
    BY <2>2, <2>3
  <2>6. Remains(frame) /\ frame.at \notin Lists /\ Alternatives[kids] \in Callees
    BY <2>1, <2>2, <2>3 DEF Remains
  <2> HIDE DEF Gives, Expects, Callees, Lists
  <2> QED BY <2>1, <2>4, <2>5, <2>6, CallFromTrees
<1>5. CASE LastAlternativeFails
  BY <1>5, GotoTrees DEF LastAlternativeFails
<1>6. CASE NoSimpleExpression
  BY <1>6, ErrorTrees DEF NoSimpleExpression
<1>7. CASE IdentifierOrLambda
  <2> DEFINE trees == Leaf("Identifier", NextArea)
             frame == [Top EXCEPT !.at = "simple_lambda", !.ast = trees]
  <2>1. ~Done /\ Top.at = "identifier_or_simple_lambda" /\ (Continue(frame) \/ Rejects)
    BY <1>7 DEF IdentifierOrLambda
  <2>2. "Identifier" \in NodeKinds /\ Declared("Identifier", <<>>)
    BY ExpressionsAre DEF Declared
  <2>3. Forest(trees, <<"Identifier">>)
    BY <2>2, LeafForest
  <2> HIDE DEF trees
  <2>4. frame.at = "simple_lambda" /\ frame.ast = trees
    BY <2>1, Own DEF Frame
  <2> HIDE DEF frame
  <2>5. Len(<<"Identifier">>) = 1 /\ AllOf(<<"Identifier">>, {"Identifier"})
    BY <2>2, JustOneIs
  <2>6. Shaped(frame)
    BY <2>3, <2>4, <2>5, ShapedWith
  <2> QED BY <2>1, <2>4, <2>6, ContinueTrees, RejectsTrees DEF Remains
<1>8. CASE TypedIdentifier
  BY <1>8, RejectsTrees DEF TypedIdentifier
<1>9. CASE SimpleLambda
  BY <1>9, CallTrees DEF SimpleLambda
<1>10. CASE JustIdentifier
  <2>1. ~Done /\ Top.at = "simple_lambda" /\ Return(Top.ast)
    BY <1>10 DEF JustIdentifier
  <2>2. Forest(Top.ast, <<"Identifier">>)
    BY <2>1, OnlyTree
  <2> QED BY <2>1, <2>2, ExpressionsAre, ReturnTrees
<1>11. CASE SimpleLambdaReturns
  <2> DEFINE area == Combine(Root(Top.ast).area, Root(ret.ast).area)
             trees == AsParameters(Top.ast) \o ret.ast
  <2>1. /\ ~Done /\ Top.at = "simple_lambda.body" /\ ret.tag = "value"
        /\ Return(Grown(trees, "LambdaExpr", 2, area))
    BY <1>11 DEF SimpleLambdaReturns
  <2> HIDE DEF area
  <2>2. Top.ast \in Tree /\ Forest(Top.ast, <<"Identifier">>) /\ Top.ast # <<>>
    BY <2>1, Own, OnlyTree
  <2>3. Len(Top.ast) = 1 /\ AllIdentifiers(Top.ast) /\ AllBuilt(Top.ast)
    BY <2>2, NameAlone DEF Forest
  <2>4. Forest(Grown(trees, "LambdaExpr", Len(Top.ast) + 1, area), <<"LambdaExpr">>)
    <3>1. Expects(Top.at) = ExpressionKinds
      BY <2>1
    <3> HIDE DEF Expects
    <3> QED BY <2>1, <2>2, <2>3, <3>1, NamesMakeALambda
  <2>5. Len(Top.ast) + 1 = 2
    BY <2>3
  <2> HIDE DEF trees
  <2>6. Forest(Grown(trees, "LambdaExpr", 2, area), <<"LambdaExpr">>)
    BY <2>4, <2>5
  <2> QED BY <2>1, <2>6, ExpressionsAre, ReturnTrees
<1>12. CASE Swallows({"simple_lambda.body"})
  BY <1>12, SwallowsTrees
<1> QED
  BY SimpleExpressionNext, <1>1, <1>2, <1>3, <1>4, <1>5, <1>6, <1>7, <1>8, <1>9, <1>10,
     <1>11, <1>12 DEF SimpleExpressionNext

LEMMA NoElif ==
    ASSUME NEW kinds \in Seq(NodeKinds), Len(kinds) = 2, AllOf(kinds, ExpressionKinds)
    PROVE  HasElifs(kinds)
<1>1. DOMAIN kinds = 1 .. 2
  BY LenProperties
<1>2. \A i \in 1 .. 2 : i <= 2 /\ kinds[i] \in ExpressionKinds
  BY <1>1 DEF AllOf
<1> QED BY <1>2 DEF HasElifs

LEMMA OneMoreElif ==
    ASSUME NEW kinds, NEW more, Behind(more, kinds, "ElifExpr"), HasElifs(kinds)
    PROVE  HasElifs(more)
<1> DEFINE n == Len(kinds)
<1>1. /\ n \in Nat /\ n >= 2 /\ Len(more) = n + 1 /\ more[n + 1] = "ElifExpr"
      /\ \A i \in 1 .. n : more[i] = kinds[i]
  BY DEF Behind, HasElifs, LastPart
<1>2. \A i \in 1 .. n : IF i <= 2 THEN kinds[i] \in ExpressionKinds ELSE kinds[i] = "ElifExpr"
  BY DEF HasElifs
<1> HIDE DEF n
<1>3. \A i \in 1 .. n + 1 : i \in 1 .. n \/ (i = n + 1 /\ ~(i <= 2))
  BY <1>1
<1>4. n + 1 >= 2
  BY <1>1
<1> QED BY <1>1, <1>2, <1>3, <1>4 DEF HasElifs

(* With the body of else behind them they are the parts of an if. *)
LEMMA IfPartsAre ==
    ASSUME NEW kinds \in Seq(NodeKinds), NEW more, NEW kind \in ExpressionKinds,
           Behind(more, kinds, kind), HasElifs(kinds)
    PROVE  IfExprParts(more)
<1> DEFINE n == Len(kinds)
<1>1. /\ n \in Nat /\ n >= 2 /\ more \in Seq(NodeKinds) /\ Len(more) = n + 1
      /\ LastPart(more) = kind
      /\ \A i \in 1 .. n :
             IF i <= 2 THEN more[i] \in ExpressionKinds ELSE more[i] = "ElifExpr"
  BY DEF Behind, HasElifs
<1> HIDE DEF n
<1>2. AllOf(SubSeq(more, 1, 2), ExpressionKinds)
  <2> DEFINE first == SubSeq(more, 1, 2)
  <2>1. /\ first \in Seq(NodeKinds) /\ Len(first) = 2
        /\ \A i \in 1 .. 2 : first[i] = more[i]
    <3>1. 1 \in 1 .. Len(more) + 1 /\ 2 \in 0 .. Len(more)
      BY <1>1
    <3>2. \A i \in 1 .. 2 : i \in 1 .. n /\ i \in 1 .. Len(more)
      BY <1>1
    <3> QED BY <1>1, <3>1, <3>2
  <2> HIDE DEF first
  <2>2. DOMAIN first = 1 .. 2
    BY <2>1, LenProperties
  <2>3. \A i \in 1 .. 2 : i \in 1 .. n /\ i <= 2
    BY <1>1
  <2> QED BY <1>1, <2>1, <2>2, <2>3 DEF AllOf
<1>3. AllOf(SubSeq(more, 3, Len(more) - 1), {"ElifExpr"})
  <2> DEFINE elifs == SubSeq(more, 3, n)
  <2>1. Len(more) - 1 = n
    BY <1>1
  <2>2. /\ Len(elifs) = IF 3 <= n THEN n - 3 + 1 ELSE 0
        /\ \A i \in 1 .. n - 3 + 1 : elifs[i] = more[3 + i - 1]
        /\ elifs \in Seq(NodeKinds)
    <3>1. 3 \in 1 .. Len(more) + 1 /\ n \in 3 - 1 .. Len(more)
      BY <1>1
    <3> QED BY <1>1, <3>1, SubSeqProperties
  <2> HIDE DEF elifs
  <2>3. DOMAIN elifs = 1 .. n - 2
    <3>1. Len(elifs) = n - 2
      BY <1>1, <2>2
    <3> QED BY <2>2, <3>1, LenProperties
  <2>4. ASSUME NEW i \in 1 .. n - 2 PROVE elifs[i] = "ElifExpr"
    <3>1. i \in 1 .. n - 3 + 1 /\ 3 + i - 1 = i + 2 /\ i + 2 \in 1 .. n /\ ~(i + 2 <= 2)
      BY <1>1
    <3>2. elifs[i] = more[i + 2]
      BY <2>2, <3>1
    <3> QED BY <1>1, <3>1, <3>2
  <2>5. AllOf(elifs, {"ElifExpr"})
    BY <2>3, <2>4 DEF AllOf
  <2> QED BY <2>1, <2>5 DEF elifs
<1>4. Len(more) >= 3
  BY <1>1
<1> QED BY <1>1, <1>2, <1>3, <1>4 DEF IfExprParts

LEMMA IfTrees ==
    ASSUME TreesInv, IfNext
    PROVE  TreeSteps
<1> USE DEF Bare, One, Some, Names, Types, Expressions, Statements, Parameters, Branch,
            Elifs, Counting, Holding, Listing, Trying, Naming, Gives, Expects,
            TypeSteps, StatementSteps, ElementSteps, LetSteps,
            Lists, Callees, Turns, Adds, Looks, In, Gets, Fails
<1>1. CASE IfStarts
  <2> DEFINE frame == [Top EXCEPT !.at = "if.open", !.tok = NextToken, !.area = NextArea]
  <2>1. /\ ~Done /\ Top.at \in {"if_expression", "elif_expression"}
        /\ NextToken = Keyword(Top.at) /\ Continue(frame)
    BY <1>1 DEF IfStarts, NextIs
  <2>2. /\ frame.at = "if.open" /\ frame.ast = Top.ast /\ frame.kids = Top.kids
        /\ frame.tok = NextToken
    BY <2>1, Own DEF Frame
  <2> HIDE DEF frame
  <2>3. NextToken = IF Top.at = "if_expression" THEN "IF" ELSE "ELIF"
    BY <2>1 DEF Keyword
  <2>4. Shaped(frame)
    <3>1. Forest(Top.ast, <<>>) /\ Top.kids = 0
      BY <2>1, NoneIs, Own DEF Shaped
    <3>2. Holding("if.open", 0, <<>>)
      BY NoneIs
    <3>3. Remembering(frame)
      BY <2>2, <2>3 DEF Remembering
    <3> HIDE DEF Holding
    <3> QED BY <2>2, <3>1, <3>2, <3>3 DEF Shaped
  <2>5. Remains(frame)
    BY <2>1, <2>2, <2>3 DEF Remains
  <2> QED BY <2>1, <2>2, <2>4, <2>5, ContinueTrees
<1>2. CASE NoIf
  BY <1>2, RejectsTrees DEF NoIf
<1>3. CASE IfOpens
  BY <1>3, CallTrees, RejectsTrees DEF IfOpens
<1>4. CASE IfGetsCondition
  <2>1. ~Done /\ Top.at = "if.condition" /\ ret.tag = "value" /\ GotoWith("if.close")
    BY <1>4 DEF IfGetsCondition
  <2>2. Adds("if.close")
    <3>1. ASSUME NEW kinds \in Seq(NodeKinds), NEW more \in Seq(NodeKinds),
                 NEW kind \in NodeKinds, Behind(more, kinds, kind),
                 kind \in Expects(Top.at), Holding(Top.at, Top.kids, kinds)
          PROVE  Holding("if.close", Top.kids + 1, more)
      <4>1. kinds = <<>> /\ Top.kids = Len(kinds) /\ kind \in ExpressionKinds
        BY <2>1, <3>1
      <4>2. Len(more) = 1 /\ AllOf(more, ExpressionKinds) /\ Top.kids = 0
        <5> HIDE DEF Holding, Expects
        <5> QED BY <3>1, <4>1, OneIs, NoneIs
      <4> QED BY <4>2
    <3> HIDE DEF Holding, Expects
    <3> QED BY <2>1, <3>1
  <2> QED BY <2>1, <2>2, GotoWithTrees
<1>5. CASE IfCloses
  BY <1>5, CallTrees, RejectsTrees DEF IfCloses
<1>6. CASE IfGetsBody
  <2> DEFINE area == Combine(Top.area, Root(ret.ast).area)
             tree == Grown(Top.ast \o ret.ast, "ElifExpr", 2, area)
  <2>1. /\ ~Done /\ Top.at = "if.then" /\ ret.tag = "value"
        /\ IF Top.tok = "IF" THEN GotoWith("if.else") ELSE Return(tree)
    BY <1>6 DEF IfGetsBody
  <2>2. Top.tok \in {"IF", "ELIF"}
    BY <2>1, Own DEF Shaped, Remembering
  <2> HIDE DEF area
  <2>3. ASSUME NEW kinds \in Seq(NodeKinds), NEW more \in Seq(NodeKinds),
               NEW kind \in NodeKinds, Behind(more, kinds, kind),
               kind \in Expects(Top.at), Holding(Top.at, Top.kids, kinds)
        PROVE  2 = Len(more) /\ AllOf(more, ExpressionKinds) /\ Top.kids + 1 = 2
    <3>1. Len(kinds) = 1 /\ AllOf(kinds, ExpressionKinds) /\ Top.kids = Len(kinds)
      BY <2>1, <2>3
    <3>2. kind \in ExpressionKinds
      BY <2>1, <2>3
    <3> HIDE DEF Holding, Expects
    <3>3. Len(more) = Len(kinds) + 1
      BY <2>3, BehindIs
    <3>4. AllOf(more, ExpressionKinds)
      BY <2>3, <3>1, <3>2, BehindIs
    <3> QED BY <3>1, <3>3, <3>4
  <2>4. CASE Top.tok = "IF"
    <3>1. \A more \in Seq(NodeKinds) :
              2 = Len(more) /\ AllOf(more, ExpressionKinds) /\ Top.kids + 1 = 2 =>
                  Holding("if.else", Top.kids + 1, more)
      <4> SUFFICES ASSUME NEW more \in Seq(NodeKinds), 2 = Len(more),
                          AllOf(more, ExpressionKinds), Top.kids + 1 = 2
                   PROVE  Holding("if.else", Top.kids + 1, more)
        OBVIOUS
      <4>1. HasElifs(more)
        BY NoElif
      <4> QED BY <4>1 DEF HasElifs
    <3>2. Adds("if.else")
      <4>1. Gives("if.else", Top.tok) \subseteq Gives(Top.at, Top.tok)
        BY <2>1, <2>4
      <4>2. "if.else" \notin Branch \cup Listing \cup Trying \cup Naming \cup Lists
        OBVIOUS
      <4> HIDE DEF Holding, Expects, Gives
      <4> QED BY <2>1, <2>3, <2>4, <3>1, <4>1, <4>2
    <3> QED BY <2>1, <2>4, <3>2, GotoWithTrees
  <2>5. CASE Top.tok # "IF"
    <3>1. \A more : 2 = Len(more) /\ AllOf(more, ExpressionKinds) => Declared("ElifExpr", more)
      BY DEF Declared, ElifExprParts
    <3>2. Forest(tree, <<"ElifExpr">>)
      <4> HIDE DEF Holding, Expects
      <4> QED BY <2>1, <2>3, <3>1, KindsAre, NodeOfBoth
    <3>3. "ElifExpr" \in Gives(Top.at, Top.tok)
      BY <2>1, <2>2, <2>5
    <3> QED BY <2>1, <2>5, <3>2, <3>3, ReturnTrees
  <2> QED BY <2>4, <2>5
<1>7. CASE IfGoesOn
  <2>1. ~Done /\ Top.at = "if.else"
    BY <1>7 DEF IfGoesOn
  <2>2. \/ Call("if.elif", "elif_expression")
        \/ Call("if.last", "expression_bp")
        \/ Rejects
    BY <1>7 DEF IfGoesOn
  <2>3. Turns("if.elif") /\ Turns("if.last")
    BY <2>1
  <2>4. /\ Gives("elif_expression", "END_OF_FILE") \subseteq Expects("if.elif")
        /\ Gives("expression_bp", "END_OF_FILE") \subseteq Expects("if.last")
        /\ {"if.elif", "if.last"} \cap Lists = {}
        /\ {"elif_expression", "expression_bp"} \subseteq Callees
    OBVIOUS
  <2> HIDE DEF Turns, Gives, Expects, Lists, Callees
  <2> QED BY <2>1, <2>2, <2>3, <2>4, CallTrees, RejectsTrees
<1>8. CASE IfGetsElif
  <2>1. ~Done /\ Top.at = "if.elif" /\ ret.tag = "value" /\ GotoWith("if.else")
    BY <1>8 DEF IfGetsElif
  <2>2. Top.tok = "IF"
    BY <2>1, Own DEF Shaped, Remembering
  <2>3. ASSUME NEW kinds \in Seq(NodeKinds), NEW more \in Seq(NodeKinds),
               NEW kind \in NodeKinds, Behind(more, kinds, kind),
               kind \in Expects(Top.at), Holding(Top.at, Top.kids, kinds)
        PROVE  Holding("if.else", Top.kids + 1, more)
    <3>1. HasElifs(kinds) /\ Top.kids = Len(kinds)
      BY <2>1, <2>3 DEF HasElifs
    <3>2. kind = "ElifExpr"
      BY <2>1, <2>3
    <3>3. HasElifs(more) /\ Len(more) = Len(kinds) + 1
      <4> HIDE DEF Holding, Expects
      <4> QED BY <2>3, <3>1, <3>2, OneMoreElif, BehindIs
    <3>4. Top.kids + 1 = Len(more)
      BY <3>1, <3>3
    <3> QED BY <3>3, <3>4 DEF HasElifs
  <2>4. Adds("if.else")
    <3>1. Gives("if.else", Top.tok) \subseteq Gives(Top.at, Top.tok)
      BY <2>1, <2>2
    <3>2. "if.else" \notin Branch \cup Listing \cup Trying \cup Naming \cup Lists
      OBVIOUS
    <3> HIDE DEF Holding, Expects, Gives
    <3> QED BY <2>1, <2>2, <2>3, <3>1, <3>2
  <2> QED BY <2>1, <2>4, GotoWithTrees
<1>9. CASE IfReturns
  <2> DEFINE area == Combine(Top.area, Root(ret.ast).area)
             tree == Grown(Top.ast \o ret.ast, "IfExpr", Top.kids + 1, area)
  <2>1. ~Done /\ Top.at = "if.last" /\ ret.tag = "value" /\ Return(tree)
    BY <1>9 DEF IfReturns
  <2> HIDE DEF area
  <2>2. ASSUME NEW kinds \in Seq(NodeKinds), NEW more \in Seq(NodeKinds),
               NEW kind \in NodeKinds, Behind(more, kinds, kind),
               kind \in Expects(Top.at), Holding(Top.at, Top.kids, kinds)
        PROVE  Top.kids + 1 = Len(more) /\ Declared("IfExpr", more)
    <3>1. HasElifs(kinds) /\ Top.kids = Len(kinds)
      BY <2>1, <2>2 DEF HasElifs
    <3>2. kind \in ExpressionKinds
      BY <2>1, <2>2
    <3> HIDE DEF Holding, Expects
    <3>3. Len(more) = Len(kinds) + 1
      BY <2>2, BehindIs
    <3>4. IfExprParts(more)
      BY <2>2, <3>1, <3>2, IfPartsAre
    <3> QED BY <3>1, <3>3, <3>4 DEF Declared
  <2>3. Forest(tree, <<"IfExpr">>)
    <3> HIDE DEF Holding, Expects
    <3> QED BY <2>1, <2>2, ExpressionsAre, NodeOfBoth
  <2>4. "IfExpr" \in Gives(Top.at, Top.tok)
    BY <2>1, ExpressionsAre
  <2> QED BY <2>1, <2>3, <2>4, ReturnTrees
<1>10. CASE Swallows({"if.condition", "if.then", "if.elif", "if.last"})
  BY <1>10, SwallowsTrees
<1> QED
  BY IfNext, <1>1, <1>2, <1>3, <1>4, <1>5, <1>6, <1>7, <1>8, <1>9, <1>10 DEF IfNext

LEMMA BlockTrees ==
    ASSUME TreesInv, BlockNext
    PROVE  TreeSteps
<1> USE DEF Bare, One, Some, Names, Types, Expressions, Statements, Parameters, Branch,
            Elifs, Counting, Holding, Listing, Trying, Naming, Gives, Expects,
            TypeSteps, StatementSteps, ElementSteps, LetSteps,
            Lists, Callees, Turns, Adds, Looks, In, Gets, Fails
<1>1. CASE BlockStarts
  <2> DEFINE frame == [Top EXCEPT !.at = "block_expression.loop", !.area = NextArea]
  <2>1. ~Done /\ Top.at = "block_expression" /\ (Continue(frame) \/ Rejects)
    BY <1>1 DEF BlockStarts
  <2>2. frame.at = "block_expression.loop" /\ frame.ast = Top.ast /\ frame.kids = Top.kids
    BY <2>1, Own DEF Frame
  <2> HIDE DEF frame
  <2>3. Shaped(frame)
    <3>1. Forest(Top.ast, <<>>) /\ Top.kids = 0
      BY <2>1, NoneIs, Own DEF Shaped
    <3> QED BY <2>2, <3>1, NoneIs, ShapedWith
  <2> QED BY <2>1, <2>2, <2>3, ContinueTrees, RejectsTrees DEF Remains
<1>2. CASE BlockGoesOn
  <2>1. ~Done /\ Top.at = "block_expression.loop"
    BY <1>2 DEF BlockGoesOn
  <2>2. Call("block.ret", "expression_bp") \/ Call("block.stmt", "statement")
    BY <1>2 DEF BlockGoesOn
  <2>3. Turns("block.ret") /\ Turns("block.stmt")
    BY <2>1
  <2>4. /\ Gives("statement", "END_OF_FILE") \subseteq Expects("block.stmt")
        /\ Gives("expression_bp", "END_OF_FILE") \subseteq Expects("block.ret")
        /\ {"block.ret", "block.stmt"} \cap Lists = {}
        /\ {"statement", "expression_bp"} \subseteq Callees
    OBVIOUS
  <2> HIDE DEF Turns, Gives, Expects, Lists, Callees
  <2> QED BY <2>1, <2>2, <2>3, <2>4, CallTrees
<1>3. CASE BlockGetsStatement
  <2>1. /\ ~Done /\ Top.at = "block.stmt" /\ ret.tag = "value"
        /\ IF Top.kids = 0 THEN GotoWith("block.single") ELSE GotoWith("block.separator")
    BY <1>3 DEF BlockGetsStatement
  <2>2. ASSUME NEW kinds \in Seq(NodeKinds), NEW more \in Seq(NodeKinds),
               NEW kind \in NodeKinds, Behind(more, kinds, kind),
               kind \in Expects(Top.at), Holding(Top.at, Top.kids, kinds)
        PROVE  Len(more) = Top.kids + 1 /\ AllOf(more, StatementKinds)
    <3>1. AllOf(kinds, StatementKinds) /\ Top.kids = Len(kinds)
      BY <2>1, <2>2
    <3>2. kind \in StatementKinds
      BY <2>1, <2>2
    <3> HIDE DEF Holding, Expects
    <3>3. Len(more) = Len(kinds) + 1
      BY <2>2, BehindIs
    <3>4. AllOf(more, StatementKinds)
      BY <2>2, <3>1, <3>2, BehindIs
    <3> QED BY <3>1, <3>3, <3>4
  <2>3. Gives("block.single", Top.tok) \cup Gives("block.separator", Top.tok)
            \subseteq Gives(Top.at, Top.tok)
    BY <2>1
  <2>4. {"block.single", "block.separator"}
            \cap (Branch \cup Elifs \cup Listing \cup Trying \cup Naming \cup Lists) = {}
    OBVIOUS
  <2>5. CASE Top.kids = 0
    <3>1. \A more : Len(more) = 1 /\ AllOf(more, StatementKinds) =>
                        Holding("block.single", 1, more)
      OBVIOUS
    <3>2. Adds("block.single")
      <4> HIDE DEF Holding, Expects, Gives, Branch, Elifs, Listing, Trying, Naming, Lists
      <4> QED BY <2>2, <2>3, <2>4, <2>5, <3>1
    <3> QED BY <2>1, <2>5, <3>2, GotoWithTrees
  <2>6. CASE Top.kids # 0
    <3>1. \A more : Len(more) = Top.kids + 1 /\ AllOf(more, StatementKinds) =>
                        Holding("block.separator", Top.kids + 1, more)
      OBVIOUS
    <3>2. Adds("block.separator")
      <4> HIDE DEF Holding, Expects, Gives, Branch, Elifs, Listing, Trying, Naming, Lists
      <4> QED BY <2>2, <2>3, <2>4, <3>1
    <3> QED BY <2>1, <2>6, <3>2, GotoWithTrees
  <2> QED BY <2>5, <2>6
<1>4. CASE SingleExpression
  <2> DEFINE area == Combine(Top.area, NextArea)
             tree == Grown(Top.ast, "BlockExpr", Top.kids, area)
  <2>1. /\ ~Done /\ Top.at = "block.single" /\ Root(Top.ast).kind # "LetAssignment"
        /\ Return(tree)
    BY <1>4 DEF SingleExpression, BlockReturns, IsExpression
  <2> HIDE DEF area
  <2>2. PICK kind \in NodeKinds : /\ Forest(Top.ast, <<kind>>) /\ Root(Top.ast).kind = kind
                                  /\ Holding(Top.at, Top.kids, <<kind>>)
                                  /\ Top.at \in Statements => kind \in StatementKinds
    BY <2>1, OnlyTree
  <2>3. kind \in ExpressionKinds /\ Top.kids = Len(<<kind>>)
    BY <2>1, <2>2 DEF StatementKinds
  <2>4. Declared("BlockExpr", <<kind>>)
    <3>1. <<kind>> \in Seq(NodeKinds) /\ Len(<<kind>>) = 1 /\ LastPart(<<kind>>) = kind
      BY <2>3, JustOneIs
    <3> DEFINE kinds == <<kind>>
    <3> HIDE DEF kinds
    <3>2. AllBut(1, kinds) \in Seq(NodeKinds) /\ Len(AllBut(1, kinds)) = 0
      BY <3>1, AllButLastIs DEF AllBut, kinds
    <3>3. AllOf(AllBut(1, kinds), StatementKinds)
      <4> HIDE DEF AllBut
      <4> QED BY <3>2, EmptySeq, NoneIs
    <3> QED BY <2>3, <3>1, <3>3 DEF Declared, BlockExprParts, kinds
  <2>5. Top.ast \in Tree /\ "BlockExpr" \in NodeKinds /\ "BlockExpr" \in Gives(Top.at, Top.tok)
    BY <2>1, Own, ExpressionsAre
  <2>6. Forest(tree, <<"BlockExpr">>)
    <3> HIDE DEF Holding, Gives
    <3> QED BY <2>2, <2>3, <2>4, <2>5, ForestGrows
  <2> QED BY <2>1, <2>5, <2>6, ReturnTrees
<1>5. CASE BlockSeparator
  <2>1. ~Done /\ Top.at \in {"block.separator", "block.single"}
    BY <1>5 DEF BlockSeparator
  <2>2. Goto("block_expression.loop") \/ Rejects
    BY <1>5 DEF BlockSeparator
  <2>3. Turns("block_expression.loop")
    BY <2>1
  <2> QED BY <2>1, <2>2, <2>3, GotoTrees, RejectsTrees
<1>6. CASE BlockGetsExpression
  <2>1. ~Done /\ Top.at = "block.ret" /\ ret.tag = "value" /\ GotoWith("block.close")
    BY <1>6 DEF BlockGetsExpression
  <2>2. ASSUME NEW kinds \in Seq(NodeKinds), NEW more \in Seq(NodeKinds),
               NEW kind \in NodeKinds, Behind(more, kinds, kind),
               kind \in Expects(Top.at), Holding(Top.at, Top.kids, kinds)
        PROVE  Holding("block.close", Top.kids + 1, more)
    <3>1. AllOf(kinds, StatementKinds) /\ Top.kids = Len(kinds)
      BY <2>1, <2>2
    <3>2. kind \in ExpressionKinds
      BY <2>1, <2>2
    <3>3. /\ Len(kinds) \in Nat /\ Len(more) = Len(kinds) + 1
          /\ AllBut(1, more) = kinds /\ LastPart(more) = kind
      <4> HIDE DEF Holding, Expects
      <4> QED BY <2>2 DEF Behind
    <3>4. Top.kids + 1 = Len(more) /\ Len(more) >= 1
      <4> HIDE DEF Holding, Expects
      <4> QED BY <3>1, <3>3
    <3> QED BY <3>1, <3>2, <3>3, <3>4
  <2>3. Adds("block.close")
    <3>1. Gives("block.close", Top.tok) \subseteq Gives(Top.at, Top.tok)
      BY <2>1
    <3> HIDE DEF Holding, Expects, Gives
    <3> QED BY <2>2, <3>1
  <2> QED BY <2>1, <2>3, GotoWithTrees
<1>7. CASE BlockCloses
  <2> DEFINE area == Combine(Top.area, NextArea)
             tree == Grown(Top.ast, "BlockExpr", Top.kids, area)
  <2>1. ~Done /\ Top.at = "block.close" /\ (Return(tree) \/ Rejects)
    BY <1>7 DEF BlockCloses, BlockReturns
  <2> HIDE DEF area
  <2>2. ASSUME NEW kinds \in Seq(NodeKinds), Holding(Top.at, Top.kids, kinds)
        PROVE  Top.kids = Len(kinds) /\ Declared("BlockExpr", kinds)
    <3>1. /\ Top.kids = Len(kinds) /\ Len(kinds) >= 1
          /\ AllOf(AllBut(1, kinds), StatementKinds) /\ LastPart(kinds) \in ExpressionKinds
      BY <2>1, <2>2
    <3> QED BY <3>1 DEF Declared, BlockExprParts
  <2>3. Forest(tree, <<"BlockExpr">>)
    <3> HIDE DEF Holding
    <3> QED BY <2>1, <2>2, ExpressionsAre, NodeOfTrees
  <2> QED BY <2>1, <2>3, ExpressionsAre, ReturnTrees, RejectsTrees
<1>8. CASE Swallows({"block.stmt", "block.ret"})
  BY <1>8, SwallowsTrees
<1> QED
  BY BlockNext, <1>1, <1>2, <1>3, <1>4, <1>5, <1>6, <1>7, <1>8 DEF BlockNext

(* The last parameter gets the type that was returned. *)
LEMMA LastTyped ==
    ASSUME TreesInv, ~Done, ret.tag = "value", Expects(Top.at) = TypeKinds,
           NEW params \in Tree, NEW kinds, Forest(params, kinds), kinds # <<>>,
           AllOf(kinds, {"LambdaParameter"}), Root(params).size = 1, NEW area \in Area
    PROVE  \E more \in Seq(NodeKinds) :
               /\ Forest(SubSeq(params, 1, Len(params) - 1)
                             \o Grown(ret.ast, "LambdaParameter", 1, area), more)
               /\ Len(more) = Len(kinds) /\ Len(more) >= 1
               /\ AllOf(more, {"LambdaParameter"})
<1> DEFINE kind == "LambdaParameter"
           n == Len(kinds)
           rest == SubSeq(kinds, 1, n - 1)
           front == SubSeq(params, 1, Len(params) - 1)
           typed == Grown(ret.ast, kind, 1, area)
           more == rest \o <<kind>>
<1>1. kind \in NodeKinds
  BY DEF NodeKinds, PartKinds
<1>2. /\ kinds \in Seq(NodeKinds) /\ n \in Nat \ {0}
      /\ rest \in Seq(NodeKinds) /\ Len(rest) = n - 1
      /\ \A i \in 1 .. n - 1 : rest[i] = kinds[i]
  BY AllButLastIs DEF Forest
<1>3. AllOf(rest, {kind})
  <2>1. DOMAIN kinds = 1 .. n /\ DOMAIN rest = 1 .. n - 1
    BY <1>2, LenProperties
  <2> HIDE DEF n, rest, kind
  <2>2. \A i \in 1 .. n - 1 : i \in 1 .. n
    BY <1>2
  <2> QED BY <1>2, <2>1, <2>2 DEF AllOf, kind
<1>4. Forest(front, rest)
  BY ForestShrinks
<1>5. front \in Tree
  <2>1. params # <<>>
    BY ForestRoot
  <2> QED BY <2>1, AllButLastIs DEF Tree
<1>6. Forest(typed, <<kind>>)
  <2>1. \A got \in TypeKinds : Declared(kind, <<got>>)
    <3>1. \A got \in TypeKinds : LambdaParameterParts(<<got>>)
      <4> TAKE got \in TypeKinds
      <4>1. Len(<<got>>) = 1 /\ AllOf(<<got>>, TypeKinds)
        BY KindsAre, JustOneIs
      <4> QED BY <4>1 DEF LambdaParameterParts
    <3> QED BY <3>1 DEF Declared
  <2> HIDE DEF kind
  <2> QED BY <1>1, <2>1, NodeOfGot
<1>7. typed \in Tree
  BY <1>1, Got, GrownIsATree
<1>8. Behind(more, rest, kind)
  BY <1>1, <1>2, OneMore
<1> HIDE DEF front, typed, rest, kind
<1>9. Forest(front \o typed, more)
  BY <1>4, <1>5, <1>6, <1>7, ForestsJoin
<1>10. more \in Seq(NodeKinds)
  BY <1>8 DEF Behind
<1> HIDE DEF more
<1>11. AllOf(more, {kind})
  BY <1>3, <1>8, BehindIs
<1>12. Len(more) = n /\ Len(more) >= 1
  <2>1. Len(more) = Len(rest) + 1
    BY <1>8, BehindIs
  <2> HIDE DEF n
  <2> QED BY <1>2, <2>1
<1> QED BY <1>9, <1>10, <1>11, <1>12 DEF front, typed, kind, n

LEMMA RootsArea == ASSUME NEW trees \in Tree, trees # <<>> PROVE Root(trees).area \in Area
<1>1. Len(trees) \in 1 .. Len(trees)
  BY EmptySeq, NodesOf DEF Tree
<1> QED BY <1>1, NodesOf DEF Root

LEMMA LParTrees ==
    ASSUME TreesInv, LParNext
    PROVE  TreeSteps
<1> USE DEF Bare, One, Some, Names, Types, Expressions, Statements, Parameters, Branch,
            Elifs, Counting, Holding, Listing, Trying, Naming, Gives, Expects,
            TypeSteps, StatementSteps, ElementSteps, LetSteps,
            Lists, Callees, Turns, Adds, Looks, In, Gets, Fails
<1>1. CASE LParStarts
  <2> DEFINE frame == [Top EXCEPT !.at = "lpar.first", !.area = NextArea]
  <2>1. ~Done /\ Top.at = "l_par_expression"
        /\ (CallFrom(frame, "expression_bp", 0) \/ Rejects)
    BY <1>1 DEF LParStarts
  <2>2. frame.at = "lpar.first" /\ frame.ast = Top.ast /\ frame.kids = Top.kids
    BY <2>1, Own DEF Frame
  <2> HIDE DEF frame
  <2>3. Shaped(frame)
    <3>1. Forest(Top.ast, <<>>) /\ Top.kids = 0
      BY <2>1, NoneIs, Own DEF Shaped
    <3> QED BY <2>2, <3>1, NoneIs, ShapedWith
  <2> QED BY <2>1, <2>2, <2>3, CallFromTrees, RejectsTrees DEF Remains
<1>2. CASE LParGetsFirst
  <2>1. ~Done /\ Top.at = "lpar.first" /\ ret.tag = "value" /\ GotoWith("lpar.next")
    BY <1>2 DEF LParGetsFirst
  <2>2. Adds("lpar.next")
    <3>1. ASSUME NEW kinds \in Seq(NodeKinds), NEW more \in Seq(NodeKinds),
                 NEW kind \in NodeKinds, Behind(more, kinds, kind),
                 kind \in Expects(Top.at), Holding(Top.at, Top.kids, kinds)
          PROVE  Holding("lpar.next", Top.kids + 1, more)
      <4>1. kinds = <<>> /\ Top.kids = Len(kinds) /\ kind \in ExpressionKinds
        BY <2>1, <3>1
      <4>2. Len(more) = 1 /\ AllOf(more, ExpressionKinds) /\ Top.kids = 0
        <5> HIDE DEF Holding, Expects
        <5> QED BY <3>1, <4>1, OneIs, NoneIs
      <4> QED BY <4>2
    <3> HIDE DEF Holding, Expects
    <3> QED BY <2>1, <3>1
  <2> QED BY <2>1, <2>2, GotoWithTrees
<1>3. CASE LParGrouped
  <2>1. ~Done /\ Top.at = "lpar.next" /\ Goto("try_lambda")
    BY <1>3 DEF LParGrouped
  <2>2. Turns("try_lambda")
    <3>1. ASSUME NEW kinds \in Seq(NodeKinds), Holding(Top.at, Top.kids, kinds)
          PROVE  Holding("try_lambda", Top.kids, kinds) /\ Top.kids <= 1
      <4>1. Len(kinds) = 1 /\ Top.kids = Len(kinds) /\ AllOf(kinds, ExpressionKinds)
        BY <2>1, <3>1
      <4> QED BY <4>1
    <3>2. Gives("try_lambda", Top.tok) \subseteq Gives(Top.at, Top.tok)
      BY <2>1
    <3> HIDE DEF Holding, Gives
    <3> QED BY <3>1, <3>2
  <2> QED BY <2>1, <2>2, GotoTrees
<1>4. CASE LParList
  <2> DEFINE frame == [Top EXCEPT !.at = "tuple"]
  <2>1. ~Done /\ Top.at = "lpar.next" /\ Continue(frame) /\ NextIs("COMMA") /\ taken' = taken
    BY <1>4 DEF LParList, Keep, Goto
  <2>2. Turns("tuple")
    BY <2>1
  <2>3. Shaped(frame) /\ Remains(frame) /\ frame.at = "tuple"
    BY <2>1, <2>2, FrameAt
  <2> HIDE DEF frame
  <2>4. Separated(frame)
    BY <2>1, <2>3 DEF Separated
  <2> QED BY <2>1, <2>3, <2>4 DEF TreeSteps, GoesOnShaped
<1>5. CASE LParNeither
  BY <1>5, RejectsTrees DEF LParNeither
<1>6. CASE TupleGoesOn
  BY <1>6, CallTrees DEF TupleGoesOn
<1>7. CASE TupleGetsElement
  <2>1. ~Done /\ Top.at = "tuple.elem" /\ ret.tag = "value" /\ GotoWith("tuple")
    BY <1>7 DEF TupleGetsElement
  <2>2. ASSUME NEW kinds \in Seq(NodeKinds), NEW more \in Seq(NodeKinds),
               NEW kind \in NodeKinds, Behind(more, kinds, kind),
               kind \in Expects(Top.at), Holding(Top.at, Top.kids, kinds)
        PROVE  Holding("tuple", Top.kids + 1, more) /\ Len(more) >= 2 /\ Len(more) = Top.kids + 1
    <3>1. AllOf(kinds, ExpressionKinds) /\ Top.kids = Len(kinds) /\ Len(kinds) >= 1
      BY <2>1, <2>2
    <3>2. kind \in ExpressionKinds
      BY <2>1, <2>2
    <3>3. Len(more) = Len(kinds) + 1 /\ Len(kinds) \in Nat /\ AllOf(more, ExpressionKinds)
      <4> HIDE DEF Holding, Expects
      <4>1. Len(more) = Len(kinds) + 1 /\ Len(kinds) \in Nat
        BY <2>2, BehindIs
      <4>2. AllOf(more, ExpressionKinds)
        BY <2>2, <3>1, <3>2, BehindIs
      <4> QED BY <4>1, <4>2
    <3>4. Len(more) >= 2 /\ Len(more) >= 1 /\ Len(more) = Top.kids + 1
      <4> DEFINE n == Len(kinds)
      <4>1. n \in Nat /\ n >= 1 /\ Top.kids = n /\ Len(more) = n + 1
        BY <3>1, <3>3
      <4> HIDE DEF n
      <4> QED BY <4>1
    <3> QED BY <3>3, <3>4
  <2>3. Adds("tuple")
    <3>1. Gives("tuple", Top.tok) \subseteq Gives(Top.at, Top.tok)
      BY <2>1
    <3> HIDE DEF Holding, Expects, Gives
    <3> QED BY <2>2, <3>1
  <2> QED BY <2>1, <2>3, GotoWithTrees
<1>8. CASE TupleEnds
  <2> DEFINE area == Combine(Top.area, NextArea)
             trees == Grown(Top.ast, "TupleExpr", Top.kids, area)
             frame == [Top EXCEPT !.at = "try_lambda", !.ast = trees]
  <2>1. ~Done /\ Top.at = "tuple" /\ NextIs("R_PARANTHESIS") /\ Continue(frame)
    BY <1>8 DEF TupleEnds
  <2>2. ~(Top.kids < 2)
    BY <2>1, Own DEF AtSeparator, NextIs
  <2>3. "TupleExpr" \in ExpressionKinds /\ "TupleExpr" \in NodeKinds
    BY ExpressionsAre
  <2> HIDE DEF area
  <2>4. Forest(trees, <<"TupleExpr">>)
    <3>1. ASSUME NEW kinds \in Seq(NodeKinds), Holding(Top.at, Top.kids, kinds)
          PROVE  Top.kids = Len(kinds) /\ Declared("TupleExpr", kinds)
      <4>1. Top.kids = Len(kinds) /\ AllOf(kinds, ExpressionKinds)
        BY <2>1, <3>1
      <4>2. Top.kids >= 2
        BY <2>1, <2>2, Own
      <4> QED BY <4>1, <4>2 DEF Declared, TupleExprParts
    <3> HIDE DEF Holding
    <3> QED BY <2>1, <2>3, <3>1, NodeOfTrees
  <2>5. Len(trees) > 1
    <3>1. Len(Top.ast) \in Nat \ {0} /\ Top.ast \in Tree
      <4>1. PICK kinds \in Seq(NodeKinds) : Forest(Top.ast, kinds) /\ Len(kinds) >= 1
        BY <2>1, Own DEF Shaped, Forest
      <4>2. kinds # <<>>
        BY <4>1
      <4>3. Top.ast # <<>> /\ Top.ast \in Tree
        BY <2>1, <4>1, <4>2, Own, ForestRoot
      <4> QED BY <4>3, EmptySeq, NodesOf DEF Tree
    <3>2. Len(trees) = Len(Top.ast) + 1
      BY <3>1 DEF Grown, Tree
    <3> HIDE DEF trees
    <3> QED BY <3>1, <3>2
  <2> HIDE DEF trees
  <2>6. frame.at = "try_lambda" /\ frame.ast = trees
    BY <2>1, Own DEF Frame
  <2> HIDE DEF frame
  <2>7. Shaped(frame)
    <3>1. Len(<<"TupleExpr">>) = 1 /\ AllOf(<<"TupleExpr">>, ExpressionKinds)
      BY <2>3, JustOneIs
    <3>2. Holding("try_lambda", frame.kids, <<"TupleExpr">>)
      BY <3>1
    <3>3. Remembering(frame)
      BY <2>5, <2>6 DEF Remembering
    <3> HIDE DEF Holding
    <3> QED BY <2>4, <2>6, <3>2, <3>3 DEF Shaped
  <2> QED BY <2>1, <2>6, <2>7, ContinueTrees DEF Remains
<1>9. CASE TupleBreaksOff
  BY <1>9, RejectsTrees DEF TupleBreaksOff
<1>10. CASE NotALambda
  <2>1. ~Done /\ Top.at = "try_lambda" /\ Return(Top.ast)
    BY <1>10 DEF NotALambda
  <2> QED BY <2>1, OnlyTree, ReturnTrees
<1>11. CASE TryLambda
  BY <1>11, CallTrees DEF TryLambda
<1>12. CASE TryLambdaReturns
  <2> DEFINE names == Elements
             area == Combine(Top.area, Root(ret.ast).area)
             tree == Grown(AsParameters(names) \o ret.ast, "LambdaExpr", Len(names) + 1, area)
  <2>1. /\ ~Done /\ Top.at = "try_lambda.body" /\ ret.tag = "value"
        /\ (AllIdentifiers(names) /\ Return(tree)) \/ Rejects
    BY <1>12 DEF TryLambdaReturns
  <2> HIDE DEF area
  <2>2. Top.ast \in Tree /\ AllBuilt(Top.ast) /\ Top.ast # <<>>
    BY <2>1, Own, OnlyTree DEF Forest
  <2>3. names \in Tree /\ AllBuilt(names) /\ names # <<>>
    <3>1. CASE Top.kids > 1
      <4>1. Len(Top.ast) > 1
        BY <2>1, <3>1, Own DEF Shaped, Remembering
      <4>2. /\ names \in Seq(Node) /\ Len(names) = Len(Top.ast) - 1 /\ Len(Top.ast) \in Nat
        BY <2>2, <3>1, AllButLastIs DEF Elements, Tree
      <4>3. AllBuilt(names)
        BY <2>2, <3>1, FrontBuilt DEF Elements
      <4> HIDE DEF names
      <4>4. names # <<>>
        <5> DEFINE n == Len(Top.ast)
        <5>1. n \in Nat /\ n > 1 /\ Len(names) = n - 1
          BY <4>1, <4>2
        <5> HIDE DEF n
        <5>2. Len(names) # 0
          BY <5>1
        <5> QED BY <5>2
      <4> QED BY <4>2, <4>3, <4>4 DEF Tree
    <3>2. CASE ~(Top.kids > 1)
      BY <2>2, <3>2 DEF Elements
    <3> QED BY <3>1, <3>2
  <2>4. Expects(Top.at) = ExpressionKinds
    BY <2>1
  <2>5. CASE AllIdentifiers(names) /\ Return(tree)
    <3>1. Forest(tree, <<"LambdaExpr">>)
      <4> HIDE DEF Expects, names
      <4> QED BY <2>1, <2>3, <2>4, <2>5, NamesMakeALambda
    <3> HIDE DEF names
    <3> QED BY <2>1, <2>5, <3>1, ExpressionsAre, ReturnTrees
  <2> QED BY <2>1, <2>5, RejectsTrees
<1>13. CASE Swallows({"lpar.first", "tuple.elem", "try_lambda.body"})
  BY <1>13, SwallowsTrees
<1>14. CASE TupleIsParameters
  BY <1>14, CallTrees DEF TupleIsParameters
<1>15. CASE ParamsGetType
  <2> DEFINE params == AsParameters(Top.ast)
             last == Root(params)
             trees == SubSeq(params, 1, Len(params) - 1) \o Grown(ret.ast, last.kind, 1, last.area)
             frame == [Top EXCEPT !.at = "params", !.ast = trees]
             kinds == [i \in 1 .. Len(Top.ast) |-> "LambdaParameter"]
  <2>1. /\ ~Done /\ Top.at = "params.type" /\ ret.tag = "value"
        /\ (AllIdentifiers(Top.ast) /\ Continue(frame)) \/ Rejects
    BY <1>15 DEF ParamsGetType
  <2> SUFFICES ASSUME AllIdentifiers(Top.ast), Continue(frame) PROVE TreeSteps
    BY <2>1, RejectsTrees
  <2>2. PICK some : Forest(Top.ast, some) /\ Holding(Top.at, Top.kids, some)
    BY <2>1, Own DEF Shaped
  <2>3. some \in Seq(NodeKinds) /\ Len(some) >= 1 /\ Top.kids = Len(some)
    BY <2>1, <2>2 DEF Forest
  <2>4. Top.ast \in Tree /\ AllBuilt(Top.ast)
    BY <2>1, <2>2, Own DEF Forest
  <2>5. /\ params \in Tree /\ Len(params) = Len(Top.ast) /\ Forest(params, kinds)
        /\ Len(Top.ast) \in Nat /\ kinds \in Seq(NodeKinds) /\ Len(kinds) = Len(Top.ast)
        /\ AllOf(kinds, {"LambdaParameter"})
        /\ \A i \in 1 .. Len(Top.ast) : Top.ast[i].size = 1 /\ params[i].size = 1
    BY <2>4, NamesBecomeParameters
  <2>6. Len(some) = Len(Top.ast)
    <3> HIDE DEF Holding
    <3> QED BY <2>2, <2>4, <2>5, LeavesCount
  <2> HIDE DEF params, kinds
  <2>7. kinds # <<>> /\ Len(Top.ast) \in 1 .. Len(Top.ast)
    BY <2>3, <2>5, <2>6
  <2>8. params # <<>> /\ last.kind = "LambdaParameter" /\ last.size = 1
    <3>1. params # <<>> /\ last.kind = LastPart(kinds)
      BY <2>5, <2>7, ForestRoot
    <3>2. LastPart(kinds) = "LambdaParameter"
      BY <2>5, <2>7 DEF LastPart, kinds
    <3>3. last.size = 1
      BY <2>5, <2>7 DEF Root
    <3> QED BY <3>1, <3>2, <3>3
  <2>9. last.area \in Area
    BY <2>5, <2>8, RootsArea
  <2> HIDE DEF last
  <2>10. PICK more \in Seq(NodeKinds) :
            /\ Forest(trees, more) /\ Len(more) = Len(kinds) /\ Len(more) >= 1
            /\ AllOf(more, {"LambdaParameter"})
    <3>1. Expects(Top.at) = TypeKinds
      BY <2>1
    <3> HIDE DEF Expects, Holding
    <3> QED BY <2>1, <2>5, <2>7, <2>8, <2>9, <3>1, LastTyped DEF last
  <2> HIDE DEF trees
  <2>11. frame.at = "params" /\ frame.ast = trees /\ frame.kids = Top.kids
    BY <2>1, Own DEF Frame
  <2> HIDE DEF frame
  <2>12. Shaped(frame)
    <3>1. Top.kids = Len(more)
      BY <2>3, <2>5, <2>6, <2>10
    <3>2. Holding("params", Top.kids, more)
      BY <2>10, <3>1
    <3> QED BY <2>10, <2>11, <3>2, ShapedWith
  <2> QED BY <2>1, <2>11, <2>12, ContinueTrees DEF Remains
<1>16. CASE ParamsGoOn
  BY <1>16, GotoTrees DEF ParamsGoOn
<1>17. CASE ParamsEnd
  <2>1. ~Done /\ Top.at = "params" /\ (Goto("params.arrow") \/ Rejects)
    BY <1>17 DEF ParamsEnd
  <2> QED BY <2>1, GotoTrees, RejectsTrees
<1>18. CASE ParamStarts
  <2> DEFINE trees == Top.ast \o Leaf("LambdaParameter", NextArea)
             kids == Top.kids + 1
             frame == [Top EXCEPT !.at = "lambda_parameter.colon", !.kids = kids,
                                  !.ast = trees]
  <2>1. ~Done /\ Top.at = "lambda_parameter" /\ (Continue(frame) \/ Rejects)
    BY <1>18 DEF ParamStarts
  <2>2. "LambdaParameter" \in NodeKinds /\ Declared("LambdaParameter", <<>>)
    BY NoneIs DEF NodeKinds, PartKinds, Declared, LambdaParameterParts
  <2>3. PICK kinds : Forest(Top.ast, kinds) /\ Holding(Top.at, Top.kids, kinds)
    BY <2>1, Own DEF Shaped
  <2>4. /\ Root(trees).size = 1
        /\ \E more \in Seq(NodeKinds) :
               Behind(more, kinds, "LambdaParameter") /\ Forest(trees, more)
    <3> HIDE DEF Holding
    <3> QED BY <2>1, <2>2, <2>3, OneMoreLeaf
  <2>5. PICK more \in Seq(NodeKinds) :
            Behind(more, kinds, "LambdaParameter") /\ Forest(trees, more)
    BY <2>4
  <2> HIDE DEF trees
  <2>6. frame.at = "lambda_parameter.colon" /\ frame.ast = trees /\ frame.kids = kids
    BY <2>1, Own DEF Frame
  <2>7. Holding("lambda_parameter.colon", kids, more)
    <3>1. Top.kids = Len(kinds) /\ AllOf(kinds, {"LambdaParameter"})
      BY <2>1, <2>3
    <3>2. /\ Len(more) = Len(kinds) + 1 /\ Len(kinds) \in Nat
          /\ AllOf(more, {"LambdaParameter"})
      <4> HIDE DEF Holding
      <4> QED BY <2>5, <3>1, BehindIs
    <3>3. kids = Len(more) /\ Len(more) >= 1
      <4> HIDE DEF Holding
      <4> QED BY <3>1, <3>2
    <3> QED BY <3>2, <3>3
  <2> HIDE DEF frame, kids
  <2>8. Shaped(frame)
    <3>1. Remembering(frame)
      BY <2>4, <2>6 DEF Remembering
    <3> HIDE DEF Holding
    <3> QED BY <2>5, <2>6, <2>7, <3>1 DEF Shaped
  <2> QED BY <2>1, <2>6, <2>8, ContinueTrees, RejectsTrees DEF Remains
<1>19. CASE ParamColon
  <2>1. ~Done /\ Top.at = "lambda_parameter.colon"
        /\ (Call("lambda_parameter.type", "type") \/ Goto("params"))
    BY <1>19 DEF ParamColon
  <2> QED BY <2>1, CallTrees, GotoTrees
<1>20. CASE ParamGetsType
  <2> DEFINE area == Combine(Root(Top.ast).area, Root(ret.ast).area)
             trees == SubSeq(Top.ast, 1, Len(Top.ast) - 1)
                          \o Grown(ret.ast, "LambdaParameter", 1, area)
             frame == [Top EXCEPT !.at = "params", !.ast = trees]
  <2>1. ~Done /\ Top.at = "lambda_parameter.type" /\ ret.tag = "value" /\ Continue(frame)
    BY <1>20 DEF ParamGetsType
  <2>2. PICK kinds : Forest(Top.ast, kinds) /\ Holding(Top.at, Top.kids, kinds)
    BY <2>1, Own DEF Shaped
  <2>3. /\ kinds \in Seq(NodeKinds) /\ Len(kinds) >= 1 /\ Top.kids = Len(kinds)
        /\ AllOf(kinds, {"LambdaParameter"})
    BY <2>1, <2>2 DEF Forest
  <2>4. kinds # <<>>
    BY <2>3
  <2>5. Top.ast \in Tree /\ Top.ast # <<>> /\ Root(Top.ast).size = 1
    <3>1. Root(Top.ast).size = 1
      BY <2>1, Own DEF Shaped, Remembering
    <3> HIDE DEF Holding
    <3> QED BY <2>1, <2>2, <2>4, <3>1, Own, ForestRoot
  <2>6. area \in Area
    <3>1. Root(Top.ast).area \in Area
      BY <2>5, RootsArea
    <3>2. Root(ret.ast).area \in Area
      <4>1. PICK got \in NodeKinds : Forest(ret.ast, <<got>>)
        BY <2>1, Got
      <4>2. ret.ast # <<>> /\ ret.ast \in Tree
        BY <2>1, <4>1, Got, JustOneIs, ForestRoot
      <4> QED BY <4>2, RootsArea
    <3> QED BY <3>1, <3>2 DEF Combine, Area
  <2> HIDE DEF area
  <2>7. PICK more \in Seq(NodeKinds) :
            /\ Forest(trees, more) /\ Len(more) = Len(kinds) /\ Len(more) >= 1
            /\ AllOf(more, {"LambdaParameter"})
    <3>1. Expects(Top.at) = TypeKinds
      BY <2>1
    <3> HIDE DEF Expects, Holding
    <3> QED BY <2>1, <2>2, <2>3, <2>4, <2>5, <2>6, <3>1, LastTyped
  <2> HIDE DEF trees
  <2>8. frame.at = "params" /\ frame.ast = trees /\ frame.kids = Top.kids
    BY <2>1, Own DEF Frame
  <2> HIDE DEF frame
  <2>9. Shaped(frame)
    <3>1. Top.kids = Len(more)
      BY <2>3, <2>7
    <3>2. Holding("params", Top.kids, more)
      BY <2>7, <3>1
    <3> QED BY <2>7, <2>8, <3>2, ShapedWith
  <2> QED BY <2>1, <2>8, <2>9, ContinueTrees DEF Remains
<1>21. CASE ParamsArrow
  BY <1>21, CallTrees, RejectsTrees DEF ParamsArrow
<1>22. CASE ParamsReturn
  <2> DEFINE area == Combine(Top.area, Root(ret.ast).area)
             tree == Grown(Top.ast \o ret.ast, "LambdaExpr", Top.kids + 1, area)
  <2>1. ~Done /\ Top.at = "params.body" /\ ret.tag = "value" /\ Return(tree)
    BY <1>22 DEF ParamsReturn
  <2> HIDE DEF area
  <2>2. PICK kinds : Forest(Top.ast, kinds) /\ Holding(Top.at, Top.kids, kinds)
    BY <2>1, Own DEF Shaped
  <2>3. /\ kinds \in Seq(NodeKinds) /\ Len(kinds) >= 1 /\ Top.kids = Len(kinds)
        /\ AllOf(kinds, {"LambdaParameter"})
    BY <2>1, <2>2 DEF Forest
  <2>4. kinds # <<>> /\ Top.ast \in Tree
    BY <2>1, <2>3, Own
  <2>5. Forest(tree, <<"LambdaExpr">>)
    <3>1. Expects(Top.at) = ExpressionKinds
      BY <2>1
    <3> HIDE DEF Expects, Holding
    <3> QED BY <2>1, <2>2, <2>3, <2>4, <3>1, LambdaForest
  <2> QED BY <2>1, <2>5, ExpressionsAre, ReturnTrees
<1>23. CASE Swallows({"params.type", "lambda_parameter.type", "params.body"})
  BY <1>23, SwallowsTrees
<1> QED
  BY LParNext, <1>1, <1>2, <1>3, <1>4, <1>5, <1>6, <1>7, <1>8, <1>9, <1>10, <1>11,
     <1>12, <1>13, <1>14, <1>15, <1>16, <1>17, <1>18, <1>19, <1>20, <1>21, <1>22, <1>23
  DEF LParNext, UntypedNext, TypedNext

LEMMA StatementTrees ==
    ASSUME TreesInv, StatementNext
    PROVE  TreeSteps
<1> USE DEF Bare, One, Some, Names, Types, Expressions, Statements, Parameters, Branch,
            Elifs, Counting, Holding, Listing, Trying, Naming, Gives, Expects,
            TypeSteps, StatementSteps, ElementSteps, LetSteps, ElementKinds,
            Lists, Callees, Turns, Adds, Looks, In, Gets, Fails
<1>1. CASE StatementIsLet
  <2>1. "LetAssignment" \in StatementKinds
    BY DEF StatementKinds
  <2> QED BY <1>1, CallTrees DEF StatementIsLet
<1>2. CASE StatementIsLoop
  BY <1>2, CallTrees DEF StatementIsLoop
<1>3. CASE StatementGetsCondition
  BY <1>3, CallTrees DEF StatementGetsCondition
<1>4. CASE StatementIsFor
  BY <1>4, GotoTrees DEF StatementIsFor
<1>5. CASE StatementIsExpression
  BY <1>5, CallTrees DEF StatementIsExpression
<1>6. CASE StatementReturns
  <2>1. /\ ~Done /\ Top.at \in {"statement.let", "statement.expression"} /\ ret.tag = "value"
        /\ Return(ret.ast)
    BY <1>6 DEF StatementReturns
  <2>2. PICK kind \in NodeKinds : kind \in Expects(Top.at) /\ Forest(ret.ast, <<kind>>)
    BY <2>1, Got
  <2>3. kind \in StatementKinds
    BY <2>1, <2>2 DEF StatementKinds
  <2> QED BY <2>1, <2>2, <2>3, ReturnTrees
<1>7. CASE ForOpens
  <2> DEFINE frame == [Top EXCEPT !.at = "for.elems", !.tok = NextToken]
  <2>1. ~Done /\ Top.at = "for" /\ (Continue(frame) \/ Rejects)
    BY <1>7 DEF ForOpens
  <2>2. frame.at = "for.elems" /\ frame.ast = Top.ast
    BY <2>1, Own DEF Frame
  <2> HIDE DEF frame
  <2>3. Shaped(frame)
    <3>1. PICK kinds : Forest(Top.ast, kinds)
      BY <2>1, Own DEF Shaped
    <3> QED BY <2>2, <3>1, ShapedWith
  <2> QED BY <2>1, <2>2, <2>3, ContinueTrees, RejectsTrees DEF Remains
<1>8. CASE ForElements
  BY <1>8, CallTrees DEF ForElements
<1>9. CASE ForGetsElement
  BY <1>9, GotoWithTrees DEF ForGetsElement
<1>10. CASE ForCloses
  BY <1>10, CallTrees, RejectsTrees DEF ForCloses
<1>11. CASE ForElement
  <2> DEFINE frame == [Top EXCEPT !.at = "for_element.which", !.area = NextArea]
  <2>1. ~Done /\ Top.at = "for_element" /\ (Continue(frame) \/ Rejects)
    BY <1>11 DEF ForElement
  <2>2. frame.at = "for_element.which" /\ frame.ast = Top.ast
    BY <2>1, Own DEF Frame
  <2> HIDE DEF frame
  <2>3. Shaped(frame)
    <3>1. Forest(Top.ast, <<>>)
      BY <2>1, Own DEF Shaped
    <3> QED BY <2>2, <3>1, NoneIs, ShapedWith
  <2> QED BY <2>1, <2>2, <2>3, ContinueTrees, RejectsTrees DEF Remains
<1>12. CASE ForElementWhich
  <2> DEFINE frame == [Top EXCEPT !.at = "for_element.rhs", !.tok = NextToken]
  <2>1. ~Done /\ Top.at = "for_element.which"
        /\ (CallFrom(frame, "expression_bp", 0) \/ Rejects)
    BY <1>12 DEF ForElementWhich
  <2>2. frame.at = "for_element.rhs" /\ frame.ast = Top.ast
    BY <2>1, Own DEF Frame
  <2> HIDE DEF frame
  <2>3. Shaped(frame)
    <3>1. Forest(Top.ast, <<>>)
      BY <2>1, Own DEF Shaped
    <3> QED BY <2>2, <3>1, NoneIs, ShapedWith
  <2> QED BY <2>1, <2>2, <2>3, CallFromTrees, RejectsTrees DEF Remains
<1>13. CASE ForElementReturns
  <2> DEFINE kind == IF Top.tok = "ASSIGN" THEN "ForLetElement" ELSE "ForMonadicElement"
             area == Combine(Top.area, Root(ret.ast).area)
             tree == Grown(ret.ast, kind, 1, area)
  <2>1. ~Done /\ Top.at = "for_element.rhs" /\ ret.tag = "value" /\ Return(tree)
    BY <1>13 DEF ForElementReturns
  <2>2. kind \in ElementKinds /\ kind \in NodeKinds
    BY DEF NodeKinds, PartKinds
  <2>3. \A got \in ExpressionKinds : Declared(kind, <<got>>)
    <3> TAKE got \in ExpressionKinds
    <3>1. Len(<<got>>) = 1 /\ AllOf(<<got>>, ExpressionKinds)
      BY ExpressionsAre, JustOneIs
    <3> QED BY <2>2, <3>1 DEF Declared, ForLetElementParts, ForMonadicElementParts
  <2> HIDE DEF kind, area
  <2>4. Forest(tree, <<kind>>)
    BY <2>1, <2>2, <2>3, NodeOfGot
  <2> QED BY <2>1, <2>2, <2>4, ReturnTrees
<1>14. CASE BlockOpens
  <2>1. ~Done /\ Top.at = "block" /\ (Call("stmt_list.stmt", "statement") \/ Rejects)
    BY <1>14 DEF BlockOpens
  <2> QED BY <2>1, CallTrees, RejectsTrees
<1>15. CASE ListGetsStatement
  BY <1>15, GotoWithTrees DEF ListGetsStatement
<1>16. CASE ListSeparator
  <2>1. ~Done /\ Top.at = "stmt_list"
    BY <1>16 DEF ListSeparator
  <2>2. \/ PopNothing
        \/ Call("stmt_list.stmt", "statement")
        \/ ReturnError(NullOpt)
    BY <1>16 DEF ListSeparator
  <2>3. CASE PopNothing
    BY <2>1, <2>3 DEF TreeSteps
  <2> QED BY <2>1, <2>2, <2>3, CallTrees, ErrorTrees
<1>17. CASE Let
  <2> DEFINE frame == [Top EXCEPT !.at = "let.identifier", !.area = NextArea]
  <2>1. ~Done /\ Top.at = "let" /\ (Continue(frame) \/ ReturnError(Unexpected))
    BY <1>17 DEF Let
  <2>2. frame.at = "let.identifier" /\ frame.ast = Top.ast /\ frame.kids = Top.kids
    BY <2>1, Own DEF Frame
  <2> HIDE DEF frame
  <2>3. Shaped(frame)
    <3>1. Forest(Top.ast, <<>>) /\ Top.kids = 0
      BY <2>1, NoneIs, Own DEF Shaped
    <3> QED BY <2>2, <3>1, NoneIs, ShapedWith
  <2> QED BY <2>1, <2>2, <2>3, ContinueTrees, ErrorTrees DEF Remains
<1>18. CASE LetIdentifier
  <2>1. ~Done /\ Top.at = "let.identifier"
        /\ (Goto("let.colon") \/ ReturnError(Unexpected))
    BY <1>18 DEF LetIdentifier
  <2> QED BY <2>1, GotoTrees, ErrorTrees
<1>19. CASE LetColon
  <2>1. ~Done /\ Top.at = "let.colon" /\ (Call("let.type", "type") \/ Goto("let.assign"))
    BY <1>19 DEF LetColon
  <2>2. Turns("let.assign")
    <3>1. ASSUME NEW kinds, Holding(Top.at, Top.kids, kinds)
          PROVE  Holding("let.assign", Top.kids, kinds)
      <4>1. kinds = <<>> /\ Top.kids = Len(kinds)
        BY <2>1, <3>1
      <4> QED BY <4>1, NoneIs
    <3>2. Gives("let.assign", Top.tok) \subseteq Gives(Top.at, Top.tok)
      BY <2>1
    <3> HIDE DEF Holding, Gives
    <3> QED BY <3>1, <3>2
  <2>3. Turns("let.type")
    BY <2>1
  <2> QED BY <2>1, <2>2, <2>3, CallTrees, GotoTrees
<1>20. CASE LetGetsType
  <2>1. ~Done /\ Top.at = "let.type" /\ ret.tag = "value" /\ GotoWith("let.assign")
    BY <1>20 DEF LetGetsType
  <2>2. Adds("let.assign")
    <3>1. ASSUME NEW kinds \in Seq(NodeKinds), NEW more \in Seq(NodeKinds),
                 NEW kind \in NodeKinds, Behind(more, kinds, kind),
                 kind \in Expects(Top.at), Holding(Top.at, Top.kids, kinds)
          PROVE  Holding("let.assign", Top.kids + 1, more)
      <4>1. kinds = <<>> /\ Top.kids = Len(kinds) /\ kind \in TypeKinds
        BY <2>1, <3>1
      <4>2. Len(more) = 1 /\ AllOf(more, TypeKinds) /\ Top.kids = 0
        <5> HIDE DEF Holding, Expects
        <5> QED BY <3>1, <4>1, OneIs, NoneIs
      <4> QED BY <4>2
    <3>2. Gives("let.assign", Top.tok) \subseteq Gives(Top.at, Top.tok)
      BY <2>1
    <3> HIDE DEF Holding, Expects, Gives
    <3> QED BY <3>1, <3>2
  <2> QED BY <2>1, <2>2, GotoWithTrees
<1>21. CASE LetAssign
  <2>1. ~Done /\ Top.at = "let.assign"
    BY <1>21 DEF LetAssign
  <2>2. \/ PopNothing
        \/ Call("let.rhs", "expression_bp")
        \/ ReturnError([what |-> "UnexpectedToken", at |-> Top.start + 1])
    BY <1>21 DEF LetAssign
  <2>3. CASE PopNothing
    BY <2>1, <2>3 DEF TreeSteps
  <2> QED BY <2>1, <2>2, <2>3, CallTrees, ErrorTrees
<1>22. CASE LetReturns
  <2> DEFINE area == Combine(Top.area, Root(ret.ast).area)
             tree == Grown(Top.ast \o ret.ast, "LetAssignment", Top.kids + 1, area)
  <2>1. ~Done /\ Top.at = "let.rhs" /\ ret.tag = "value" /\ Return(tree)
    BY <1>22 DEF LetReturns
  <2> HIDE DEF area
  <2>2. ASSUME NEW kinds \in Seq(NodeKinds), NEW more \in Seq(NodeKinds),
               NEW kind \in NodeKinds, Behind(more, kinds, kind),
               kind \in Expects(Top.at), Holding(Top.at, Top.kids, kinds)
        PROVE  Top.kids + 1 = Len(more) /\ Declared("LetAssignment", more)
    <3>1. Len(kinds) <= 1 /\ AllOf(kinds, TypeKinds) /\ Top.kids = Len(kinds)
      BY <2>1, <2>2
    <3>2. kind \in ExpressionKinds
      BY <2>1, <2>2
    <3> HIDE DEF Holding, Expects
    <3>3. /\ Len(kinds) \in Nat /\ Len(more) = Len(kinds) + 1
          /\ AllBut(1, more) = kinds /\ LastPart(more) = kind
      BY <2>2 DEF Behind
    <3>4. Len(more) \in {1, 2}
      <4> DEFINE n == Len(kinds)
      <4>1. n \in Nat /\ n <= 1 /\ Len(more) = n + 1
        BY <3>1, <3>3
      <4> HIDE DEF n
      <4> QED BY <4>1
    <3> QED BY <3>1, <3>2, <3>3, <3>4 DEF Declared, LetAssignmentParts
  <2>3. "LetAssignment" \in NodeKinds /\ "LetAssignment" \in Gives(Top.at, Top.tok)
    BY <2>1 DEF NodeKinds, StatementKinds
  <2>4. Forest(tree, <<"LetAssignment">>)
    <3> HIDE DEF Holding, Expects, Gives
    <3> QED BY <2>1, <2>2, <2>3, NodeOfBoth
  <2> QED BY <2>1, <2>3, <2>4, ReturnTrees
<1>23. CASE LetPropagates
  BY <1>23, PropagatesTrees DEF LetPropagates
<1>24. CASE Swallows({"statement.let", "statement.condition", "statement.body",
                      "statement.expression", "for.elem", "for_element.rhs",
                      "stmt_list.stmt"})
  BY <1>24, SwallowsTrees
<1> QED
  BY StatementNext, <1>1, <1>2, <1>3, <1>4, <1>5, <1>6, <1>7, <1>8, <1>9, <1>10, <1>11,
     <1>12, <1>13, <1>14, <1>15, <1>16, <1>17, <1>18, <1>19, <1>20, <1>21, <1>22, <1>23,
     <1>24 DEF StatementNext, LetNext

LEMMA ParserTrees ==
    ASSUME TreesInv, ParserNext
    PROVE  TreesInv'
<1>1. Inv'
  BY ParserKeeps DEF TreesInv
<1>2. TreeSteps
  BY TypeTrees, ExpressionTrees, SimpleExpressionTrees, IfTrees, BlockTrees, LParTrees,
     StatementTrees DEF ParserNext
<1> QED BY <1>1, <1>2, TreeStepsKeep

-----------------------------------------------------------------------------
(* The theorem *)

LEMMA TreesInvHolds == Spec => []TreesInv
<1>1. Init => TreesInv
  <2> SUFFICES ASSUME NEW entry \in Entries, Starting(entry) PROVE TreesInv
    BY DEF Init
  <2> DEFINE frame == NewFrame(entry, 0, 0)
  <2>1. /\ frame.at = entry /\ frame.ast = <<>> /\ frame.kids = 0
        /\ stack = <<frame>> /\ ret.tag = "none"
    BY DEF Starting, NewFrame, NoResult
  <2>2. entry \in Callees \cup {"identifier"}
    BY EntriesAssumption DEF Callees
  <2> HIDE DEF frame
  <2>3. Shaped(frame) /\ entry \notin Lists
    <3>1. CASE entry = "identifier"
      <4>1. Holding("identifier", 0, <<>>)
        BY NoneIs DEF Holding, One, Some, Elifs
      <4>2. "identifier" \notin Branch \cup Elifs \cup Listing \cup Trying \cup Naming
                                       \cup Lists
        BY DEF Branch, Elifs, Listing, Trying, Naming, Lists
      <4> QED BY <2>1, <3>1, <4>1, <4>2, NoForest, ShapedWith
    <3> QED BY <2>1, <2>2, <3>1, CalleesShaped
  <2>4. Len(stack) = 1 /\ \A i \in 1 .. Len(stack) : stack[i] = frame
    BY <2>1
  <2>5. Answers /\ AtSeparator
    BY <2>1, <2>3, <2>4 DEF Answers, AtSeparator, Top
  <2>6. Inv
    BY InitKeeps DEF Init
  <2> QED BY <2>1, <2>3, <2>4, <2>5, <2>6 DEF TreesInv, Returned
<1>2. TreesInv /\ [Next]_vars => TreesInv'
  <2> SUFFICES ASSUME TreesInv, [Next]_vars PROVE TreesInv'
    OBVIOUS
  <2>1. CASE LexNext
    <3>1. Inv' /\ ~Done /\ ~Peeked /\ UNCHANGED <<taken, undefined, stack, ret>>
      <4>1. Inv'
        BY <2>1, LexKeeps DEF TreesInv
      <4>2. ~Done /\ UNCHANGED <<taken, undefined, stack, ret>>
        BY <2>1 DEF LexNext, Done
      <4>3. taken = Len(read) /\ Len(read) \in Nat
        BY <2>1, LenProperties DEF LexNext, TreesInv, Inv
      <4> QED BY <4>1, <4>2, <4>3 DEF Peeked
    <3>2. ~(Top.at \in Lists /\ Top.kids < 2)
      BY <3>1 DEF TreesInv, AtSeparator, NextIs
    <3>3. AtSeparator' /\ Answers' /\ Returned'
      BY <3>1, <3>2 DEF AtSeparator, Answers, Returned, TreesInv, Top
    <3> QED BY <3>1, <3>3 DEF TreesInv
  <2>2. CASE ParserNext
    BY <2>2, ParserTrees
  <2>3. CASE UNCHANGED vars
    <3>1. Inv'
      BY <2>3 DEF vars, Inv, TreesInv, Top
    <3>2. (~Done => AtSeparator)' /\ Answers' /\ Returned'
      BY <2>3 DEF vars, AtSeparator, Answers, Returned, TreesInv, Top, Done, NextIs, Peeked,
                  NextToken
    <3> QED BY <2>3, <3>1, <3>2 DEF TreesInv, vars
  <2> QED BY <2>1, <2>2, <2>3 DEF Next
<1> QED BY <1>1, <1>2, PTL DEF Spec

(* Whatever a public method returns of whatever source is one tree, and    *)
(* every node of it stands behind as many parts as it counts, of the kinds *)
(* its class declares (include/ast): a tuple has two elements at least, a  *)
(* lambda nothing but parameters before its body, a block a value behind   *)
(* its statements.                                                         *)
THEOREM TreesAreDeclared == Spec => []BuildsDeclaredNodes
<1>1. TreesInv => BuildsDeclaredNodes
  <2> SUFFICES ASSUME TreesInv, ret.tag = "value" PROVE BuildsDeclaredNodes
    BY DEF BuildsDeclaredNodes
  <2>1. PICK kind \in NodeKinds : Forest(ret.ast, <<kind>>)
    BY DEF TreesInv, Returned
  <2>2. ret.ast \in Tree /\ DOMAIN ret.ast = 1 .. Len(ret.ast)
    BY LenProperties DEF TreesInv, Inv, ResultsAt, Result, Tree
  <2>3. Root(ret.ast).size = Len(ret.ast)
    BY <2>1, <2>2, JustOneIs, ForestRoot
  <2>4. \A i \in 1 .. Len(ret.ast) : IsBuilt(ret.ast, i)
    BY <2>1, <2>2, ForestIsBuilt DEF Forest
  <2> QED BY <2>2, <2>3, <2>4 DEF BuildsDeclaredNodes
<1> QED BY <1>1, TreesInvHolds, PTL
=============================================================================
