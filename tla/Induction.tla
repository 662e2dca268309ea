----------------------------- MODULE Induction ------------------------------
(***************************************************************************)
(* Induction along data: what holds of a number because it holds of those  *)
(* below it, and the functions that are defined that way, of which a text  *)
(* or a source is read one piece after the other.                          *)
(***************************************************************************)
EXTENDS Integers, TLAPS, WellFoundedInduction

-----------------------------------------------------------------------------
(* Least numbers *)

LEMMA LeastNumber ==
    ASSUME NEW T, T \subseteq Nat, T # {}
    PROVE  \E x \in T : \A y \in T : x <= y
<1> DEFINE Less == OpToRel(<, Nat)
<1>1. IsWellFoundedOn(Less, Nat)
  BY NatLessThanWellFounded
<1>2. \A x, y \in Nat : <<x, y>> \in Less <=> x < y
  BY DEF OpToRel
<1> HIDE DEF Less
<1>3. PICK x \in T : \A y \in T : ~(<<y, x>> \in Less)
  BY <1>1, WFMin
<1>4. \A y \in T : ~(y < x)
  BY <1>2, <1>3
<1>5. \A y \in T : x <= y
  BY <1>4
<1> QED BY <1>3, <1>5

LEMMA LeastChosen ==
    ASSUME NEW T, T \subseteq Nat, T # {},
           NEW x, x = CHOOSE i \in T : \A j \in T : i <= j
    PROVE  x \in T /\ \A y \in T : x <= y
BY LeastNumber

(* What holds of no number's least counterexample holds of all. *)
LEMMA NoCounterexample ==
    ASSUME NEW T, T \subseteq Nat,
           \A x \in T : \E y \in T : y < x
    PROVE  T = {}
<1> SUFFICES ASSUME T # {} PROVE FALSE
  OBVIOUS
<1>1. PICK x \in T : \A y \in T : x <= y
  BY LeastNumber
<1> QED BY <1>1

(* What the first result of a sequence of results is, and each is if the    *)
(* one before it is, they all are.                                         *)
LEMMA AllResults ==
    ASSUME NEW S, NEW n \in Nat, NEW f, f[0] \in S,
           \A i \in 1 .. n : f[i - 1] \in S => f[i] \in S
    PROVE  \A i \in 0 .. n : f[i] \in S
<1> DEFINE Wrong == {i \in 0 .. n : f[i] \notin S}
<1>1. \A i \in Wrong : i - 1 \in Wrong /\ i - 1 < i
  <2> TAKE i \in Wrong
  <2>1. i \in 1 .. n /\ i - 1 \in 0 .. n /\ i - 1 < i
    <3>1. i \in 0 .. n /\ i # 0
      OBVIOUS
    <3> HIDE DEF Wrong
    <3> QED BY <3>1
  <2> QED BY <2>1
<1>2. Wrong \subseteq Nat
  OBVIOUS
<1> HIDE DEF Wrong
<1>3. Wrong = {}
  BY <1>1, <1>2, NoCounterexample
<1> QED BY <1>3 DEF Wrong

-----------------------------------------------------------------------------
(* Running results: from a first one, each step makes the next. *)

Runs(f, n, first, step) ==
    f[0] = first /\ \A i \in 1 .. n : f[i] = step[i][f[i - 1]]

LEMMA RunsLonger ==
    ASSUME NEW S, NEW n \in Nat, NEW first \in S, NEW step \in [1 .. n + 1 -> [S -> S]],
           NEW f \in [0 .. n -> S], Runs(f, n, first, step)
    PROVE  \E g \in [0 .. n + 1 -> S] : Runs(g, n + 1, first, step)
<1> DEFINE last == step[n + 1][f[n]]
           g == [i \in 0 .. n + 1 |-> IF i = n + 1 THEN last ELSE f[i]]
<1>1. last \in S
  <2>1. n + 1 \in 1 .. n + 1 /\ n \in 0 .. n
    OBVIOUS
  <2>2. step[n + 1] \in [S -> S] /\ f[n] \in S
    BY <2>1
  <2> QED BY <2>2
<1> HIDE DEF last
<1>2. g \in [0 .. n + 1 -> S]
  <2>1. \A i \in 0 .. n + 1 : i # n + 1 => i \in 0 .. n
    OBVIOUS
  <2> QED BY <1>1, <2>1
<1>3. g[0] = first
  BY DEF Runs
<1>4. ASSUME NEW i \in 1 .. n + 1 PROVE g[i] = step[i][g[i - 1]]
  <2>1. i - 1 \in 0 .. n /\ i - 1 \in 0 .. n + 1 /\ i - 1 # n + 1 /\ i \in 0 .. n + 1
    OBVIOUS
  <2>2. g[i - 1] = f[i - 1]
    BY <2>1
  <2>3. CASE i = n + 1
    <3>1. i - 1 = n
      BY <2>3
    <3>2. g[i] = last
      BY <2>1, <2>3
    <3> QED BY <2>2, <2>3, <3>1, <3>2 DEF last
  <2>4. CASE i # n + 1
    <3>1. i \in 1 .. n
      BY <2>4
    <3>2. g[i] = f[i]
      BY <2>1, <2>4
    <3> QED BY <2>2, <3>1, <3>2 DEF Runs
  <2> QED BY <2>3, <2>4
<1> HIDE DEF g
<1> QED BY <1>2, <1>3, <1>4 DEF Runs

(* They exist ... *)
LEMMA RunsExist ==
    ASSUME NEW S, NEW n \in Nat, NEW first \in S, NEW step \in [1 .. n -> [S -> S]]
    PROVE  \E f \in [0 .. n -> S] : Runs(f, n, first, step)
<1> DEFINE Short == {m \in 0 .. n : ~\E f \in [0 .. m -> S] : Runs(f, m, first, step)}
<1>1. 0 \notin Short
  <2> DEFINE f == [i \in 0 .. 0 |-> first]
  <2>1. f \in [0 .. 0 -> S] /\ f[0] = first /\ 1 .. 0 = {}
    OBVIOUS
  <2>2. Runs(f, 0, first, step)
    BY <2>1 DEF Runs
  <2> QED BY <2>1, <2>2
<1>2. ASSUME NEW m \in Short PROVE \E k \in Short : k < m
  <2>1. m \in 1 .. n /\ m - 1 \in 0 .. n /\ m - 1 < m /\ m - 1 \in Nat /\ (m - 1) + 1 = m
    <3>1. m \in 0 .. n /\ m # 0
      BY <1>1
    <3> HIDE DEF Short
    <3> QED BY <3>1
  <2> SUFFICES ASSUME m - 1 \notin Short PROVE FALSE
    BY <2>1
  <2>2. PICK f \in [0 .. m - 1 -> S] : Runs(f, m - 1, first, step)
    BY <2>1
  <2> DEFINE some == [i \in 1 .. m |-> step[i]]
  <2>3. some \in [1 .. m -> [S -> S]] /\ \A i \in 1 .. m : some[i] = step[i]
    BY <2>1
  <2> HIDE DEF some
  <2>4. Runs(f, m - 1, first, some)
    <3>1. \A i \in 1 .. m - 1 : i \in 1 .. m
      BY <2>1
    <3> QED BY <2>2, <2>3, <3>1 DEF Runs
  <2>5. PICK g \in [0 .. m -> S] : Runs(g, m, first, some)
    <3> DEFINE p == m - 1
    <3>1. p \in Nat /\ p + 1 = m
      BY <2>1
    <3>2. f \in [0 .. p -> S] /\ Runs(f, p, first, some)
      BY <2>4
    <3> HIDE DEF p
    <3>3. some \in [1 .. p + 1 -> [S -> S]]
      BY <2>3, <3>1
    <3>4. \E h \in [0 .. p + 1 -> S] : Runs(h, p + 1, first, some)
      BY <3>1, <3>2, <3>3, RunsLonger
    <3> QED BY <3>1, <3>4
  <2>6. Runs(g, m, first, step)
    BY <2>3, <2>5 DEF Runs
  <2> QED BY <2>5, <2>6
<1>3. Short = {}
  <2>1. Short \subseteq Nat
    OBVIOUS
  <2> HIDE DEF Short
  <2> QED BY <1>2, <2>1, NoCounterexample
<1>4. n \in 0 .. n
  OBVIOUS
<1> HIDE DEF Short
<1>5. n \notin Short
  BY <1>3
<1> QED BY <1>4, <1>5 DEF Short
=============================================================================
