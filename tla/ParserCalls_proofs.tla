------------------------- MODULE ParserCalls_proofs -------------------------
(***************************************************************************)
(* Proofs about the calls of the Parser's methods, for every source and    *)
(* every public method: how deep they nest, and which token the error that *)
(* comes out of them names.                                                *)
(*                                                                         *)
(* Each step of the machine either goes on in the running method, calls    *)
(* another, or leaves with a result.  What matters of it is in Steps; that *)
(* every step of every method is one of these is shown class by class.     *)
(***************************************************************************)
EXTENDS Parser_proofs

-----------------------------------------------------------------------------
(* The invariant *)

(* The frames that can lie on top of each other between two tokens, from   *)
(* the outermost: a statement, an expression, a simple expression and one  *)
(* of its alternatives; a type and one of its forms.  What a method goes   *)
(* on to is never further out than where it was.                           *)
Rank(label) ==
    IF label \in {"type", "statement"} THEN 1
    ELSE IF label = "expression_bp" THEN 2
    ELSE IF label \in {"simple_expression", "simple_expression.tried"} THEN 3
    ELSE 4

(* Where let() is behind its keyword *)
InLet == {"let.identifier", "let.colon", "let.type", "let.assign", "let.rhs"}

(* Where a method has taken a token and may call another from the start    *)
(* without taking one more                                                 *)
Ahead ==
    {"function_params", "block_expression.loop", "if.then", "if.else", "if.elif",
     "statement.condition", "for.elems", "for.elem"} \cup InLet

(* Every frame is no deeper than the tokens before its method allow. *)
Shallow ==
    \A i \in 1 .. Len(stack) :
        /\ i <= 4 * stack[i].start + Rank(stack[i].at)
        /\ stack[i].at \in Ahead => stack[i].start < taken

(* A let() began at a let, and what is called to become one runs first. *)
BehindLet ==
    \A i \in 1 .. Len(stack) :
        /\ stack[i].at = "let" => i = Len(stack) /\ stack[i].start = taken
        /\ stack[i].at \in InLet => read[stack[i].start + 1] = "LET"

CallInv == Inv /\ Shallow /\ BehindLet /\ ErrorsAreFresh

-----------------------------------------------------------------------------
(* What a step may do *)

(* The step the running method goes on at *)
Follows(label) ==
    /\ Rank(Top.at) <= Rank(label)
    /\ label \in Ahead => Top.at \in Ahead \/ taken' = taken + 1
    /\ label # "let"
    /\ label \in InLet => Top.at \in InLet \/ (Top.at = "let" /\ NextIs("LET"))

(* The method it calls *)
MayCall(callee) ==
    /\ Rank(Top.at) < Rank(callee) \/ Top.at \in Ahead \/ taken' = taken + 1
    /\ callee \notin Ahead

(* The token the error it leaves with names *)
Names(error) ==
    error.what \in {"UnexpectedToken", "UnknownToken"} =>
        \/ error.at \in {taken', taken' + 1}
        \/ /\ error.at < taken'
           /\ read[error.at] = "LET" /\ read[taken'] # "ASSIGN"

GoesOn == \E frame : frame.start = Top.start /\ Follows(frame.at) /\ Continue(frame)

Calls ==
    \E frame, callee, bp :
        /\ frame.start = Top.start /\ Follows(frame.at)
        /\ MayCall(callee) /\ CallFrom(frame, callee, bp)

Leaves == \E result : Leave(result) /\ (result.tag = "error" => Names(result.err))

Steps == ~Done /\ (GoesOn \/ Calls \/ Leaves \/ PopNothing)

(* What the invariant says of the frames, the running method's last *)
LEMMA TheFrames ==
    ASSUME CallInv, ~Done, Moves
    PROVE  /\ Len(stack) \in Nat \ {0} /\ Top = stack[Len(stack)] /\ Top \in Frame
           /\ taken \in Nat /\ taken' \in Nat /\ taken <= taken' /\ taken <= Len(read)
           /\ \A i \in 1 .. Len(stack) :
                  /\ stack[i].start \in Nat /\ stack[i].start <= taken
                  /\ i <= 4 * stack[i].start + Rank(stack[i].at)
                  /\ stack[i].at \in Ahead => stack[i].start < taken
                  /\ stack[i].at = "let" => i = Len(stack) /\ stack[i].start = taken
                  /\ stack[i].at \in InLet => read[stack[i].start + 1] = "LET"
<1>1. \A i \in 1 .. Len(stack) : stack[i] \in FramesAt(taken)
  BY ElementOfSeq DEF CallInv, Inv
<1>2. \A i \in 1 .. Len(stack) : stack[i].start \in Nat /\ stack[i].start <= taken
  BY <1>1 DEF FramesAt, Frame
<1> QED BY <1>2, Running, Moved DEF CallInv, Inv, Top, Shallow, BehindLet

LEMMA RanksAre == \A label : Rank(label) \in 1 .. 4
BY DEF Rank

LEMMA GoesOnKeeps ==
    ASSUME CallInv, ~Done, Moves, GoesOn
    PROVE  Shallow' /\ BehindLet' /\ ErrorsAreFresh'
<1> PICK frame : frame.start = Top.start /\ Follows(frame.at) /\ Continue(frame)
  BY DEF GoesOn
<1> DEFINE n == Len(stack)
<1>1. /\ Len(stack') = n /\ ret'.tag = "none" /\ read' = read
      /\ \A i \in 1 .. n : stack'[i] = IF i = n THEN frame ELSE stack[i]
  BY TheFrames DEF Continue, NoResult, CallInv, Inv
<1>2. Shallow'
  <2> SUFFICES ASSUME NEW i \in 1 .. n
               PROVE  /\ i <= 4 * stack'[i].start + Rank(stack'[i].at)
                      /\ stack'[i].at \in Ahead => stack'[i].start < taken'
    BY <1>1 DEF Shallow
  <2>1. CASE i # n
    BY <1>1, <2>1, TheFrames
  <2>2. CASE i = n
    <3>1. Rank(Top.at) \in 1 .. 4 /\ Rank(frame.at) \in 1 .. 4
      BY RanksAre
    <3>2. n <= 4 * Top.start + Rank(Top.at) /\ (Top.at \in Ahead => Top.start < taken)
      BY TheFrames
    <3>3. /\ Top.start \in Nat /\ Top.start <= taken /\ n \in Nat
          /\ taken \in Nat /\ taken' \in Nat /\ taken <= taken'
      BY TheFrames
    <3>4. stack'[i].start = Top.start /\ stack'[i].at = frame.at
      BY <1>1, <2>2
    <3>5. n <= 4 * Top.start + Rank(frame.at)
      BY <3>1, <3>2, <3>3 DEF Follows
    <3>6. frame.at \in Ahead => Top.start < taken'
      BY <3>2, <3>3 DEF Follows
    <3> QED BY <2>2, <3>4, <3>5, <3>6
  <2> QED BY <2>1, <2>2
<1>3. BehindLet'
  <2> SUFFICES ASSUME NEW i \in 1 .. n
               PROVE  /\ stack'[i].at = "let" => i = n /\ stack'[i].start = taken'
                      /\ stack'[i].at \in InLet => read[stack'[i].start + 1] = "LET"
    BY <1>1 DEF BehindLet
  <2>1. CASE i # n
    BY <1>1, <2>1, TheFrames
  <2>2. CASE i = n
    BY <1>1, <2>2, TheFrames DEF Follows, NextIs, NextToken
  <2> QED BY <2>1, <2>2
<1> QED BY <1>1, <1>2, <1>3 DEF ErrorsAreFresh

LEMMA CallsKeep ==
    ASSUME CallInv, ~Done, Moves, Calls
    PROVE  Shallow' /\ BehindLet' /\ ErrorsAreFresh'
<1> PICK frame, callee, bp :
        /\ frame.start = Top.start /\ Follows(frame.at)
        /\ MayCall(callee) /\ CallFrom(frame, callee, bp)
  BY DEF Calls
<1> DEFINE n == Len(stack)
           callers == [stack EXCEPT ![n] = frame]
           new == NewFrame(callee, taken', bp)
<1>1. Len(callers) = n /\ \A i \in 1 .. n : callers[i] = IF i = n THEN frame ELSE stack[i]
  BY TheFrames DEF CallInv, Inv
<1>2. stack' = Append(callers, new) /\ ret'.tag = "none" /\ read' = read
  BY DEF CallFrom, NoResult
<1>3. new.at = callee /\ new.start = taken'
  BY DEF NewFrame
<1> HIDE DEF callers, new
<1>4. /\ Len(stack') = n + 1 /\ stack'[n + 1] = new
      /\ \A i \in 1 .. n : stack'[i] = IF i = n THEN frame ELSE stack[i]
  BY <1>1, <1>2, TheFrames
<1>5. Shallow'
  <2> SUFFICES ASSUME NEW i \in 1 .. n + 1
               PROVE  /\ i <= 4 * stack'[i].start + Rank(stack'[i].at)
                      /\ stack'[i].at \in Ahead => stack'[i].start < taken'
    BY <1>4 DEF Shallow
  <2>1. CASE i < n
    BY <1>4, <2>1, TheFrames
  <2>2. n <= 4 * Top.start + Rank(Top.at) /\ (Top.at \in Ahead => Top.start < taken)
    BY TheFrames
  <2>3. /\ Top.start \in Nat /\ Top.start <= taken /\ n \in Nat
        /\ taken \in Nat /\ taken' \in Nat /\ taken <= taken'
    BY TheFrames
  <2>4. /\ Rank(Top.at) \in 1 .. 4 /\ Rank(frame.at) \in 1 .. 4
        /\ Rank(callee) \in 1 .. 4
    BY RanksAre
  <2>5. CASE i = n
    <3>1. stack'[i] = frame /\ frame.start = Top.start
      BY <1>4, <2>5
    <3>2. n <= 4 * Top.start + Rank(frame.at)
      <4>1. Rank(Top.at) <= Rank(frame.at)
        BY DEF Follows
      <4> QED BY <2>2, <2>3, <2>4, <4>1
    <3>3. frame.at \in Ahead => Top.start < taken'
      BY <2>2, <2>3 DEF Follows
    <3> QED BY <2>5, <3>1, <3>2, <3>3
  <2>6. CASE i = n + 1
    <3>1. n + 1 <= 4 * taken' + Rank(callee)
      <4>1. CASE Rank(Top.at) < Rank(callee)
        <5>1. n + 1 <= 4 * Top.start + Rank(callee)
          BY <2>2, <2>3, <2>4, <4>1
        <5>2. 4 * Top.start <= 4 * taken'
          BY <2>3
        <5> QED BY <2>3, <2>4, <5>1, <5>2
      <4>2. CASE Top.start < taken'
        <5>1. 4 * Top.start + 4 <= 4 * taken'
          BY <2>3, <4>2
        <5>2. n <= 4 * Top.start + 4
          BY <2>2, <2>3, <2>4
        <5> QED BY <2>3, <2>4, <5>1, <5>2
      <4> QED BY <2>2, <2>3, <4>1, <4>2 DEF MayCall
    <3> QED BY <1>3, <1>4, <2>6, <3>1 DEF MayCall
  <2> QED BY <2>1, <2>5, <2>6, TheFrames
<1>6. BehindLet'
  <2> SUFFICES ASSUME NEW i \in 1 .. n + 1
               PROVE  /\ stack'[i].at = "let" => i = n + 1 /\ stack'[i].start = taken'
                      /\ stack'[i].at \in InLet => read[stack'[i].start + 1] = "LET"
    BY <1>2, <1>4 DEF BehindLet
  <2>1. CASE i < n
    BY <1>4, <2>1, TheFrames
  <2>2. CASE i = n
    BY <1>4, <2>2, TheFrames DEF Follows, NextIs, NextToken
  <2>3. CASE i = n + 1
    BY <1>3, <1>4, <2>3 DEF MayCall, Ahead
  <2> QED BY <2>1, <2>2, <2>3, TheFrames
<1> QED BY <1>2, <1>5, <1>6 DEF ErrorsAreFresh

LEMMA LeavesKeeps ==
    ASSUME CallInv, ~Done, Moves, Leaves, read' = read
    PROVE  Shallow' /\ BehindLet' /\ ErrorsAreFresh'
<1> PICK result : Leave(result) /\ (result.tag = "error" => Names(result.err))
  BY DEF Leaves
<1> DEFINE n == Len(stack)
<1>1. Len(stack') = n - 1 /\ \A i \in 1 .. n - 1 : stack'[i] = stack[i]
  <2>1. /\ stack' = SubSeq(stack, 1, n - 1) /\ n \in Nat \ {0}
        /\ stack \in Seq(FramesAt(taken))
    BY TheFrames DEF Leave, CallInv, Inv
  <2>2. \A i \in 1 .. n - 1 : stack[i] \in FramesAt(taken)
    BY <2>1, ElementOfSeq
  <2>3. 1 \in Int /\ n - 1 \in Int
    BY <2>1
  <2> HIDE DEF n
  <2>4. /\ Len(stack') = IF 1 <= n - 1 THEN (n - 1) - 1 + 1 ELSE 0
        /\ \A i \in 1 .. (n - 1) - 1 + 1 : stack'[i] = stack[1 + i - 1]
    BY <2>1, <2>2, <2>3, SubSeqProperties
  <2> QED BY <2>1, <2>4
<1>2. Shallow'
  <2> SUFFICES ASSUME NEW i \in 1 .. n - 1
               PROVE  /\ i <= 4 * stack[i].start + Rank(stack[i].at)
                      /\ stack[i].at \in Ahead => stack[i].start < taken'
    BY <1>1 DEF Shallow
  <2>1. i \in 1 .. n /\ taken \in Nat /\ taken' \in Nat /\ taken <= taken'
    BY TheFrames
  <2>2. /\ i <= 4 * stack[i].start + Rank(stack[i].at)
        /\ stack[i].at \in Ahead => stack[i].start < taken
        /\ stack[i].start \in Nat
    BY <2>1, TheFrames
  <2> QED BY <2>1, <2>2
<1>3. BehindLet'
  <2> SUFFICES ASSUME NEW i \in 1 .. n - 1
               PROVE  /\ stack[i].at # "let"
                      /\ stack[i].at \in InLet => read[stack[i].start + 1] = "LET"
    BY <1>1 DEF BehindLet
  <2>1. i \in 1 .. n /\ i # n
    BY TheFrames
  <2> QED BY <2>1, TheFrames
<1>4. ErrorsAreFresh'
  BY DEF Leave, Names, ErrorsAreFresh
<1> QED BY <1>2, <1>3, <1>4

LEMMA StepsKeep ==
    ASSUME CallInv, ParserNext, Steps
    PROVE  CallInv'
<1>1. Inv' /\ read' = read /\ Moves
  BY ParserKeeps DEF CallInv
<1>2. CASE PopNothing
  BY <1>1, <1>2 DEF PopNothing, CallInv, Shallow, BehindLet, ErrorsAreFresh
<1>3. CASE ~PopNothing
  BY <1>1, <1>3, GoesOnKeeps, CallsKeep, LeavesKeeps DEF Steps, CallInv
<1> QED BY <1>2, <1>3

-----------------------------------------------------------------------------
(* The common forms of a step *)

LEMMA ContinueSteps ==
    ASSUME ~Done, NEW frame, frame.start = Top.start, Follows(frame.at), Continue(frame)
    PROVE  Steps
BY DEF Steps, GoesOn

LEMMA GotoSteps ==
    ASSUME Inv, ~Done, NEW label, Follows(label), Goto(label)
    PROVE  Steps
<1> DEFINE frame == [Top EXCEPT !.at = label]
<1>1. frame.start = Top.start /\ frame.at = label
  BY Running DEF Frame
<1> QED BY <1>1, ContinueSteps DEF Goto

LEMMA GotoWithSteps ==
    ASSUME Inv, ~Done, NEW label, Follows(label), GotoWith(label)
    PROVE  Steps
<1> DEFINE frame == [Top EXCEPT !.at = label, !.ast = @ \o ret.ast, !.kids = @ + 1]
<1>1. frame.start = Top.start /\ frame.at = label
  BY Running DEF Frame
<1> QED BY <1>1, ContinueSteps DEF GotoWith

LEMMA CallFromSteps ==
    ASSUME ~Done, NEW frame, frame.start = Top.start, Follows(frame.at),
           NEW callee, MayCall(callee), NEW bp, CallFrom(frame, callee, bp)
    PROVE  Steps
BY DEF Steps, Calls

LEMMA CallSteps ==
    ASSUME Inv, ~Done, NEW label, Follows(label), NEW callee, MayCall(callee),
           Call(label, callee)
    PROVE  Steps
<1> DEFINE frame == [Top EXCEPT !.at = label]
<1>1. frame.start = Top.start /\ frame.at = label
  BY Running DEF Frame
<1> QED BY <1>1, CallFromSteps DEF Call

LEMMA ReturnSteps ==
    ASSUME ~Done, NEW tree, Return(tree)
    PROVE  Steps
BY DEF Steps, Leaves, Return

LEMMA ErrorSteps ==
    ASSUME ~Done, NEW error, Names(error), ReturnError(error)
    PROVE  Steps
BY DEF Steps, Leaves, ReturnError

LEMMA RejectsSteps == ASSUME ~Done, Rejects PROVE Steps
BY ErrorSteps DEF Rejects, NullOpt, Names

LEMMA UnexpectedSteps ==
    ASSUME ~Done, Keep \/ Pop, ReturnError(Unexpected)
    PROVE  Steps
<1>1. Names(Unexpected)
  BY DEF Names, Unexpected, Keep, Pop
<1> QED BY <1>1, ErrorSteps

LEMMA PopsBadTokenSteps == ASSUME ~Done, PopsBadToken PROVE Steps
BY UnexpectedSteps DEF PopsBadToken, Steps

LEMMA PropagatesSteps ==
    ASSUME CallInv, NEW labels, Propagates(labels)
    PROVE  Steps
<1>1. Names(ret.err) /\ ~Done
  BY DEF Propagates, Errs, Keep, Names, CallInv, ErrorsAreFresh
<1> QED BY <1>1, ErrorSteps DEF Propagates

LEMMA SwallowsSteps == ASSUME NEW labels, Swallows(labels) PROVE Steps
BY RejectsSteps DEF Swallows, Errs

-----------------------------------------------------------------------------
(* The steps of the methods, class by class *)

LEMMA TypeSteps ==
    ASSUME CallInv, TypeNext
    PROVE  Steps
<1> USE DEF CallInv, Follows, MayCall, Rank, Ahead, InLet, Looks, In, Gets, Fails, Keep, Pop
<1>1. CASE StartCompound
  BY <1>1, CallSteps DEF StartCompound
<1>2. CASE StartSelf
  <2> DEFINE frame == [Top EXCEPT !.at = "type.suffix", !.kids = 1,
                                  !.ast = Leaf("SelfType", NextArea)]
  <2>1. ~Done /\ Top.at = "type" /\ Pop /\ Continue(frame)
    BY <1>2 DEF StartSelf
  <2>2. frame.start = Top.start /\ frame.at = "type.suffix"
    BY <2>1, Running DEF Frame
  <2> HIDE DEF frame
  <2> QED BY <2>1, <2>2, ContinueSteps
<1>3. CASE StartNamed
  BY <1>3, CallSteps DEF StartNamed
<1>4. CASE Started
  BY <1>4, GotoWithSteps DEF Started
<1>5. CASE StartFailed
  BY <1>5, GotoSteps DEF StartFailed
<1>6. CASE TypeFails
  BY <1>6, PopsBadTokenSteps DEF TypeFails
<1>7. CASE Optional
  BY <1>7, Running, ContinueSteps DEF Optional, Frame
<1>8. CASE Arrow
  BY <1>8, CallSteps DEF Arrow
<1>9. CASE ArrowGetsType
  <2> DEFINE frame == [Top EXCEPT
                !.at = "type.suffix",
                !.ast = Grown(@ \o ret.ast, "LambdaType", 2,
                              Combine(Root(@).area, Root(ret.ast).area))]
  <2>1. ~Done /\ Top.at = "type.arrow" /\ Keep /\ Continue(frame)
    BY <1>9 DEF ArrowGetsType
  <2>2. frame.start = Top.start /\ frame.at = "type.suffix"
    BY <2>1, Running DEF Frame
  <2> HIDE DEF frame
  <2> QED BY <2>1, <2>2, ContinueSteps
<1>10. CASE TypeReturns
  BY <1>10, ReturnSteps DEF TypeReturns
<1>11. CASE Identifier
  BY <1>11, ReturnSteps, UnexpectedSteps DEF Identifier
<1>12. CASE NamePart
  <2> DEFINE frame == [Top EXCEPT !.at = "named_type.next", !.kids = @ + 1,
                                  !.ast = @ \o Leaf("Identifier", NextArea)]
  <2>1. ~Done /\ Top.at = "named_type"
    BY <1>12 DEF NamePart
  <2>2. (Pop /\ Continue(frame)) \/ (Keep /\ ReturnError(Unexpected))
    BY <1>12 DEF NamePart
  <2>3. frame.start = Top.start /\ frame.at = "named_type.next"
    BY <2>1, Running DEF Frame
  <2> HIDE DEF frame
  <2> QED BY <2>1, <2>2, <2>3, ContinueSteps, UnexpectedSteps
<1>13. CASE NameGoesOn
  BY <1>13, GotoSteps DEF NameGoesOn
<1>14. CASE NameReturns
  BY <1>14, ReturnSteps DEF NameReturns
<1>15. CASE Parenthesis
  <2> DEFINE frame == [Top EXCEPT !.at = "compound_type.first", !.area = NextArea]
  <2>1. ~Done /\ Top.at = "compound_type" /\ Pop /\ CallFrom(frame, "type", 0)
    BY <1>15 DEF Parenthesis
  <2>2. frame.start = Top.start /\ frame.at = "compound_type.first"
    BY <2>1, Running DEF Frame
  <2> HIDE DEF frame
  <2> QED BY <2>1, <2>2, CallFromSteps
<1>16. CASE FirstOfCompound
  BY <1>16, GotoWithSteps DEF FirstOfCompound
<1>17. CASE Grouped
  BY <1>17, ReturnSteps DEF Grouped
<1>18. CASE List
  <2> DEFINE frame == [Top EXCEPT !.at = "type_list", !.tok = NextToken]
  <2>1. ~Done /\ Top.at = "compound_type.which" /\ Keep /\ Continue(frame)
    BY <1>18 DEF List
  <2>2. frame.start = Top.start /\ frame.at = "type_list"
    BY <2>1, Running DEF Frame
  <2> HIDE DEF frame
  <2> QED BY <2>1, <2>2, ContinueSteps
<1>19. CASE NotCompound
  BY <1>19, PopsBadTokenSteps DEF NotCompound
<1>20. CASE ListGoesOn
  BY <1>20, CallSteps DEF ListGoesOn
<1>21. CASE ListGetsType
  BY <1>21, GotoWithSteps DEF ListGetsType
<1>22. CASE ListEnds
  BY <1>22, GotoSteps, ReturnSteps DEF ListEnds
<1>23. CASE ListFails
  BY <1>23, PopsBadTokenSteps DEF ListFails
<1>24. CASE LambdaArrow
  BY <1>24, CallSteps, PopsBadTokenSteps DEF LambdaArrow
<1>25. CASE LambdaReturns
  BY <1>25, ReturnSteps DEF LambdaReturns
<1>26. CASE TypePropagates
  BY <1>26, PropagatesSteps DEF TypePropagates
<1> QED
  BY TypeNext, <1>1, <1>2, <1>3, <1>4, <1>5, <1>6, <1>7, <1>8, <1>9, <1>10, <1>11,
     <1>12, <1>13, <1>14, <1>15, <1>16, <1>17, <1>18, <1>19, <1>20, <1>21, <1>22,
     <1>23, <1>24, <1>25, <1>26 DEF TypeNext

LEMMA ExpressionSteps ==
    ASSUME CallInv, ExpressionNext
    PROVE  Steps
<1> USE DEF CallInv, Follows, MayCall, Rank, Ahead, InLet, Looks, In, Gets, Fails, Keep, Pop
<1>1. CASE Prefix
  <2> DEFINE frame == [Top EXCEPT !.at = "lhs.rhs", !.tok = NextToken, !.area = NextArea]
  <2>1. ~Done /\ Top.at = "expression_bp" /\ Pop /\ CallFrom(frame, "expression_bp", PrefixPower)
    BY <1>1 DEF Prefix
  <2>2. frame.start = Top.start /\ frame.at = "lhs.rhs"
    BY <2>1, Running DEF Frame
  <2> HIDE DEF frame
  <2> QED BY <2>1, <2>2, CallFromSteps
<1>2. CASE PrefixGetsOperand
  <2> DEFINE frame == [Top EXCEPT
                !.at = "expression_bp.loop",
                !.ast = Grown(ret.ast, PrefixNode(Top.tok), 1,
                              Combine(Top.area, Root(ret.ast).area))]
  <2>1. ~Done /\ Top.at = "lhs.rhs" /\ Keep /\ Continue(frame)
    BY <1>2 DEF PrefixGetsOperand
  <2>2. frame.start = Top.start /\ frame.at = "expression_bp.loop"
    BY <2>1, Running DEF Frame
  <2> HIDE DEF frame
  <2> QED BY <2>1, <2>2, ContinueSteps
<1>3. CASE Simple
  BY <1>3, CallSteps DEF Simple
<1>4. CASE GetsLhs
  <2> DEFINE frame == [Top EXCEPT !.at = "expression_bp.loop", !.ast = ret.ast]
  <2>1. ~Done /\ Top.at = "expression_bp.lhs" /\ Keep /\ Continue(frame)
    BY <1>4 DEF GetsLhs
  <2>2. frame.start = Top.start /\ frame.at = "expression_bp.loop"
    BY <2>1, Running DEF Frame
  <2> HIDE DEF frame
  <2> QED BY <2>1, <2>2, ContinueSteps
<1>5. CASE ExpressionEnds
  BY <1>5, ReturnSteps DEF ExpressionEnds
<1>6. CASE NotAnInfix
  BY <1>6, ErrorSteps DEF NotAnInfix, Internal, Names
<1>7. CASE Infix
  <2> DEFINE frame == [Top EXCEPT !.at = "expression_bp.rhs", !.tok = NextToken]
  <2>1. /\ ~Done /\ Top.at = "expression_bp.loop" /\ Pop
        /\ CallFrom(frame, "expression_bp", RightPower(NextToken))
    BY <1>7 DEF Infix
  <2>2. frame.start = Top.start /\ frame.at = "expression_bp.rhs"
    BY <2>1, Running DEF Frame
  <2> HIDE DEF frame
  <2> QED BY <2>1, <2>2, CallFromSteps
<1>8. CASE InfixGetsOperand
  <2> DEFINE frame == [Top EXCEPT
                !.at = "expression_bp.loop",
                !.ast = Grown(@ \o ret.ast, Top.tok, 2,
                              Combine(Root(@).area, Root(ret.ast).area))]
  <2>1. ~Done /\ Top.at = "expression_bp.rhs" /\ Keep /\ Continue(frame)
    BY <1>8 DEF InfixGetsOperand
  <2>2. frame.start = Top.start /\ frame.at = "expression_bp.loop"
    BY <2>1, Running DEF Frame
  <2> HIDE DEF frame
  <2> QED BY <2>1, <2>2, ContinueSteps
<1>9. CASE FunctionCall
  <2> DEFINE frame == [Top EXCEPT !.at = "function_params", !.kids = 1, !.tok = NextToken,
                                  !.area = Root(Top.ast).area]
  <2>1. ~Done /\ Top.at = "expression_bp.loop" /\ Pop /\ Continue(frame)
    BY <1>9 DEF FunctionCall
  <2>2. frame.start = Top.start /\ frame.at = "function_params"
    BY <2>1, Running DEF Frame
  <2> HIDE DEF frame
  <2> QED BY <2>1, <2>2, ContinueSteps
<1>10. CASE CallEnds
  <2> DEFINE frame == [Top EXCEPT
                !.at = "expression_bp.loop",
                !.ast = Grown(@, "FunctionCall", Top.kids, Combine(Top.area, NextArea))]
  <2>1. ~Done /\ Top.at \in {"function_params", "function_params.sep"} /\ Pop /\ Continue(frame)
    BY <1>10 DEF CallEnds
  <2>2. frame.start = Top.start /\ frame.at = "expression_bp.loop"
    BY <2>1, Running DEF Frame
  <2> HIDE DEF frame
  <2> QED BY <2>1, <2>2, ContinueSteps
<1>11. CASE Param
  BY <1>11, CallSteps DEF Param
<1>12. CASE GetsParam
  BY <1>12, GotoWithSteps DEF GetsParam
<1>13. CASE NextParam
  BY <1>13, GotoSteps DEF NextParam
<1>14. CASE NotAParam
  BY <1>14, PopsBadTokenSteps DEF NotAParam
<1>15. CASE PrattPropagates
  BY <1>15, PropagatesSteps DEF PrattPropagates
<1> QED
  BY ExpressionNext, <1>1, <1>2, <1>3, <1>4, <1>5, <1>6, <1>7, <1>8, <1>9,
     <1>10, <1>11, <1>12, <1>13, <1>14, <1>15 DEF ExpressionNext

LEMMA SimpleExpressionSteps ==
    ASSUME CallInv, SimpleExpressionNext
    PROVE  Steps
<1> USE DEF CallInv, Follows, MayCall, Rank, Ahead, InLet, Looks, In, Gets, Fails, Keep, Pop
<1>1. CASE Literal
  BY <1>1, ReturnSteps DEF Literal
<1>2. CASE FirstAlternative
  <2> DEFINE frame == [Top EXCEPT !.at = "simple_expression.tried", !.kids = 1]
  <2>1. /\ ~Done /\ Top.at = "simple_expression" /\ Keep
        /\ CallFrom(frame, "identifier_or_simple_lambda", 0)
    BY <1>2 DEF FirstAlternative, Alternatives
  <2>2. frame.start = Top.start /\ frame.at = "simple_expression.tried"
    BY <2>1, Running DEF Frame
  <2> HIDE DEF frame
  <2> QED BY <2>1, <2>2, CallFromSteps
<1>3. CASE AlternativeSucceeds
  BY <1>3, ReturnSteps DEF AlternativeSucceeds
<1>4. CASE NextAlternative
  <2> DEFINE frame == [Top EXCEPT !.kids = @ + 1]
             callee == Alternatives[Top.kids + 1]
  <2>1. /\ ~Done /\ Top.at = "simple_expression.tried" /\ Top.kids < Len(Alternatives)
        /\ taken' = taken /\ CallFrom(frame, callee, 0)
    BY <1>4 DEF NextAlternative, Retry
  <2>2. frame.start = Top.start /\ frame.at = Top.at /\ Top.kids \in Nat
    BY <2>1, Running DEF Frame
  <2>3. callee \in {"identifier_or_simple_lambda", "if_expression", "block_expression",
                    "l_par_expression"}
    BY <2>1, <2>2 DEF Alternatives
  <2> HIDE DEF frame, callee
  <2> QED BY <2>1, <2>2, <2>3, CallFromSteps
<1>5. CASE LastAlternativeFails
  BY <1>5, GotoSteps DEF LastAlternativeFails, Retry
<1>6. CASE NoSimpleExpression
  BY <1>6, UnexpectedSteps DEF NoSimpleExpression
<1>7. CASE IdentifierOrLambda
  <2> DEFINE frame == [Top EXCEPT !.at = "simple_lambda", !.ast = Leaf("Identifier", NextArea)]
  <2>1. ~Done /\ Top.at = "identifier_or_simple_lambda"
    BY <1>7 DEF IdentifierOrLambda
  <2>2. (Pop /\ Continue(frame)) \/ Rejects
    BY <1>7 DEF IdentifierOrLambda
  <2>3. frame.start = Top.start /\ frame.at = "simple_lambda"
    BY <2>1, Running DEF Frame
  <2> HIDE DEF frame
  <2> QED BY <2>1, <2>2, <2>3, ContinueSteps, RejectsSteps
<1>8. CASE TypedIdentifier
  BY <1>8, RejectsSteps DEF TypedIdentifier
<1>9. CASE SimpleLambda
  BY <1>9, CallSteps DEF SimpleLambda
<1>10. CASE JustIdentifier
  BY <1>10, ReturnSteps DEF JustIdentifier
<1>11. CASE SimpleLambdaReturns
  BY <1>11, ReturnSteps DEF SimpleLambdaReturns
<1>12. CASE Swallows({"simple_lambda.body"})
  BY <1>12, SwallowsSteps
<1> QED
  BY SimpleExpressionNext, <1>1, <1>2, <1>3, <1>4, <1>5, <1>6, <1>7, <1>8,
     <1>9, <1>10, <1>11, <1>12 DEF SimpleExpressionNext

LEMMA IfSteps ==
    ASSUME CallInv, IfNext
    PROVE  Steps
<1> USE DEF CallInv, Follows, MayCall, Rank, Ahead, InLet, Looks, In, Gets, Fails, Keep, Pop
<1>1. CASE IfStarts
  <2> DEFINE frame == [Top EXCEPT !.at = "if.open", !.tok = NextToken, !.area = NextArea]
  <2>1. ~Done /\ Top.at \in {"if_expression", "elif_expression"} /\ Pop /\ Continue(frame)
    BY <1>1 DEF IfStarts
  <2>2. frame.start = Top.start /\ frame.at = "if.open"
    BY <2>1, Running DEF Frame
  <2> HIDE DEF frame
  <2> QED BY <2>1, <2>2, ContinueSteps
<1>2. CASE NoIf
  BY <1>2, RejectsSteps DEF NoIf
<1>3. CASE IfOpens
  BY <1>3, CallSteps, RejectsSteps DEF IfOpens
<1>4. CASE IfGetsCondition
  BY <1>4, GotoWithSteps DEF IfGetsCondition
<1>5. CASE IfCloses
  BY <1>5, CallSteps, RejectsSteps DEF IfCloses
<1>6. CASE IfGetsBody
  BY <1>6, GotoWithSteps, ReturnSteps DEF IfGetsBody
<1>7. CASE IfGoesOn
  BY <1>7, CallSteps, RejectsSteps DEF IfGoesOn
<1>8. CASE IfGetsElif
  BY <1>8, GotoWithSteps DEF IfGetsElif
<1>9. CASE IfReturns
  BY <1>9, ReturnSteps DEF IfReturns
<1>10. CASE Swallows({"if.condition", "if.then", "if.elif", "if.last"})
  BY <1>10, SwallowsSteps
<1> QED
  BY IfNext, <1>1, <1>2, <1>3, <1>4, <1>5, <1>6, <1>7, <1>8, <1>9, <1>10
     DEF IfNext

LEMMA BlockSteps ==
    ASSUME CallInv, BlockNext
    PROVE  Steps
<1> USE DEF CallInv, Follows, MayCall, Rank, Ahead, InLet, Looks, In, Gets, Fails, Keep, Pop
<1>1. CASE BlockStarts
  <2> DEFINE frame == [Top EXCEPT !.at = "block_expression.loop", !.area = NextArea]
  <2>1. ~Done /\ Top.at = "block_expression"
    BY <1>1 DEF BlockStarts
  <2>2. (Pop /\ Continue(frame)) \/ Rejects
    BY <1>1 DEF BlockStarts
  <2>3. frame.start = Top.start /\ frame.at = "block_expression.loop"
    BY <2>1, Running DEF Frame
  <2> HIDE DEF frame
  <2> QED BY <2>1, <2>2, <2>3, ContinueSteps, RejectsSteps
<1>2. CASE BlockGoesOn
  BY <1>2, CallSteps DEF BlockGoesOn
<1>3. CASE BlockGetsStatement
  BY <1>3, GotoWithSteps DEF BlockGetsStatement
<1>4. CASE SingleExpression
  BY <1>4, ReturnSteps DEF SingleExpression, BlockReturns
<1>5. CASE BlockSeparator
  BY <1>5, GotoSteps, RejectsSteps DEF BlockSeparator
<1>6. CASE BlockGetsExpression
  BY <1>6, GotoWithSteps DEF BlockGetsExpression
<1>7. CASE BlockCloses
  BY <1>7, ReturnSteps, RejectsSteps DEF BlockCloses, BlockReturns
<1>8. CASE Swallows({"block.stmt", "block.ret"})
  BY <1>8, SwallowsSteps
<1> QED
  BY BlockNext, <1>1, <1>2, <1>3, <1>4, <1>5, <1>6, <1>7, <1>8 DEF BlockNext

LEMMA LParSteps ==
    ASSUME CallInv, LParNext
    PROVE  Steps
<1> USE DEF CallInv, Follows, MayCall, Rank, Ahead, InLet, Looks, In, Gets, Fails, Keep, Pop
<1>1. CASE LParStarts
  <2> DEFINE frame == [Top EXCEPT !.at = "lpar.first", !.area = NextArea]
  <2>1. ~Done /\ Top.at = "l_par_expression"
    BY <1>1 DEF LParStarts
  <2>2. (Pop /\ CallFrom(frame, "expression_bp", 0)) \/ Rejects
    BY <1>1 DEF LParStarts
  <2>3. frame.start = Top.start /\ frame.at = "lpar.first"
    BY <2>1, Running DEF Frame
  <2> HIDE DEF frame
  <2> QED BY <2>1, <2>2, <2>3, CallFromSteps, RejectsSteps
<1>2. CASE LParGetsFirst
  BY <1>2, GotoWithSteps DEF LParGetsFirst
<1>3. CASE LParGrouped
  BY <1>3, GotoSteps DEF LParGrouped
<1>4. CASE LParList
  BY <1>4, GotoSteps DEF LParList
<1>5. CASE LParNeither
  BY <1>5, RejectsSteps DEF LParNeither
<1>6. CASE TupleGoesOn
  BY <1>6, CallSteps DEF TupleGoesOn
<1>7. CASE TupleGetsElement
  BY <1>7, GotoWithSteps DEF TupleGetsElement
<1>8. CASE TupleEnds
  <2> DEFINE frame == [Top EXCEPT
                !.at = "try_lambda",
                !.ast = Grown(@, "TupleExpr", Top.kids, Combine(Top.area, NextArea))]
  <2>1. ~Done /\ Top.at = "tuple" /\ Pop /\ Continue(frame)
    BY <1>8 DEF TupleEnds
  <2>2. frame.start = Top.start /\ frame.at = "try_lambda"
    BY <2>1, Running DEF Frame
  <2> HIDE DEF frame
  <2> QED BY <2>1, <2>2, ContinueSteps
<1>9. CASE TupleBreaksOff
  BY <1>9, RejectsSteps DEF TupleBreaksOff
<1>10. CASE NotALambda
  BY <1>10, ReturnSteps DEF NotALambda
<1>11. CASE TryLambda
  BY <1>11, CallSteps DEF TryLambda
<1>12. CASE TryLambdaReturns
  BY <1>12, ReturnSteps, RejectsSteps DEF TryLambdaReturns
<1>13. CASE Swallows({"lpar.first", "tuple.elem", "try_lambda.body"})
  BY <1>13, SwallowsSteps
<1>14. CASE TupleIsParameters
  BY <1>14, CallSteps DEF TupleIsParameters
<1>15. CASE ParamsGetType
  <2> DEFINE params == AsParameters(Top.ast)
             frame == [Top EXCEPT
                 !.at = "params",
                 !.ast = SubSeq(params, 1, Len(params) - 1)
                             \o Grown(ret.ast, Root(params).kind, 1, Root(params).area)]
  <2>1. ~Done /\ Top.at = "params.type"
    BY <1>15 DEF ParamsGetType
  <2>2. (Keep /\ Continue(frame)) \/ Rejects
    BY <1>15 DEF ParamsGetType
  <2>3. frame.start = Top.start /\ frame.at = "params"
    BY <2>1, Running DEF Frame
  <2> HIDE DEF frame
  <2> QED BY <2>1, <2>2, <2>3, ContinueSteps, RejectsSteps
<1>16. CASE ParamsGoOn
  BY <1>16, GotoSteps DEF ParamsGoOn
<1>17. CASE ParamsEnd
  BY <1>17, GotoSteps, RejectsSteps DEF ParamsEnd
<1>18. CASE ParamStarts
  <2> DEFINE frame == [Top EXCEPT !.at = "lambda_parameter.colon", !.kids = @ + 1,
                                  !.ast = @ \o Leaf("LambdaParameter", NextArea)]
  <2>1. ~Done /\ Top.at = "lambda_parameter"
    BY <1>18 DEF ParamStarts
  <2>2. (Pop /\ Continue(frame)) \/ Rejects
    BY <1>18 DEF ParamStarts
  <2>3. frame.start = Top.start /\ frame.at = "lambda_parameter.colon"
    BY <2>1, Running DEF Frame
  <2> HIDE DEF frame
  <2> QED BY <2>1, <2>2, <2>3, ContinueSteps, RejectsSteps
<1>19. CASE ParamColon
  BY <1>19, CallSteps, GotoSteps DEF ParamColon
<1>20. CASE ParamGetsType
  <2> DEFINE frame == [Top EXCEPT
                !.at = "params",
                !.ast = SubSeq(@, 1, Len(@) - 1)
                            \o Grown(ret.ast, "LambdaParameter", 1,
                                     Combine(Root(@).area, Root(ret.ast).area))]
  <2>1. ~Done /\ Top.at = "lambda_parameter.type" /\ Keep /\ Continue(frame)
    BY <1>20 DEF ParamGetsType
  <2>2. frame.start = Top.start /\ frame.at = "params"
    BY <2>1, Running DEF Frame
  <2> HIDE DEF frame
  <2> QED BY <2>1, <2>2, ContinueSteps
<1>21. CASE ParamsArrow
  BY <1>21, CallSteps, RejectsSteps DEF ParamsArrow
<1>22. CASE ParamsReturn
  BY <1>22, ReturnSteps DEF ParamsReturn
<1>23. CASE Swallows({"params.type", "lambda_parameter.type", "params.body"})
  BY <1>23, SwallowsSteps
<1> QED
  BY LParNext, <1>1, <1>2, <1>3, <1>4, <1>5, <1>6, <1>7, <1>8, <1>9, <1>10,
     <1>11, <1>12, <1>13, <1>14, <1>15, <1>16, <1>17, <1>18, <1>19, <1>20,
     <1>21, <1>22, <1>23 DEF LParNext, UntypedNext, TypedNext

LEMMA StatementSteps ==
    ASSUME CallInv, StatementNext
    PROVE  Steps
<1> USE DEF CallInv, Follows, MayCall, Rank, Ahead, InLet, Looks, In, Gets, Fails, Keep, Pop
<1>1. CASE StatementIsLet
  BY <1>1, CallSteps DEF StatementIsLet
<1>2. CASE StatementIsLoop
  BY <1>2, CallSteps DEF StatementIsLoop
<1>3. CASE StatementGetsCondition
  BY <1>3, CallSteps DEF StatementGetsCondition
<1>4. CASE StatementIsFor
  BY <1>4, GotoSteps DEF StatementIsFor
<1>5. CASE StatementIsExpression
  BY <1>5, CallSteps DEF StatementIsExpression
<1>6. CASE StatementReturns
  BY <1>6, ReturnSteps DEF StatementReturns
<1>7. CASE ForOpens
  <2> DEFINE frame == [Top EXCEPT !.at = "for.elems", !.tok = NextToken]
  <2>1. ~Done /\ Top.at = "for"
    BY <1>7 DEF ForOpens
  <2>2. (Pop /\ Continue(frame)) \/ Rejects
    BY <1>7 DEF ForOpens
  <2>3. frame.start = Top.start /\ frame.at = "for.elems"
    BY <2>1, Running DEF Frame
  <2> HIDE DEF frame
  <2> QED BY <2>1, <2>2, <2>3, ContinueSteps, RejectsSteps
<1>8. CASE ForElements
  BY <1>8, CallSteps DEF ForElements
<1>9. CASE ForGetsElement
  BY <1>9, GotoWithSteps DEF ForGetsElement
<1>10. CASE ForCloses
  BY <1>10, CallSteps, RejectsSteps DEF ForCloses
<1>11. CASE ForElement
  <2> DEFINE frame == [Top EXCEPT !.at = "for_element.which", !.area = NextArea]
  <2>1. ~Done /\ Top.at = "for_element"
    BY <1>11 DEF ForElement
  <2>2. (Pop /\ Continue(frame)) \/ Rejects
    BY <1>11 DEF ForElement
  <2>3. frame.start = Top.start /\ frame.at = "for_element.which"
    BY <2>1, Running DEF Frame
  <2> HIDE DEF frame
  <2> QED BY <2>1, <2>2, <2>3, ContinueSteps, RejectsSteps
<1>12. CASE ForElementWhich
  <2> DEFINE frame == [Top EXCEPT !.at = "for_element.rhs", !.tok = NextToken]
  <2>1. ~Done /\ Top.at = "for_element.which"
    BY <1>12 DEF ForElementWhich
  <2>2. (Pop /\ CallFrom(frame, "expression_bp", 0)) \/ Rejects
    BY <1>12 DEF ForElementWhich
  <2>3. frame.start = Top.start /\ frame.at = "for_element.rhs"
    BY <2>1, Running DEF Frame
  <2> HIDE DEF frame
  <2> QED BY <2>1, <2>2, <2>3, CallFromSteps, RejectsSteps
<1>13. CASE ForElementReturns
  BY <1>13, ReturnSteps DEF ForElementReturns
<1>14. CASE BlockOpens
  BY <1>14, CallSteps, RejectsSteps DEF BlockOpens
<1>15. CASE ListGetsStatement
  BY <1>15, GotoWithSteps DEF ListGetsStatement
<1>16. CASE ListSeparator
  <2>1. ~Done /\ Names(NullOpt)
    BY <1>16 DEF ListSeparator, Names, NullOpt
  <2>2. PopNothing => Steps
    BY <2>1 DEF Steps
  <2> QED BY <1>16, <2>1, <2>2, CallSteps, ErrorSteps DEF ListSeparator
<1>17. CASE Let
  <2> DEFINE frame == [Top EXCEPT !.at = "let.identifier", !.area = NextArea]
  <2>1. ~Done /\ Top.at = "let"
    BY <1>17 DEF Let
  <2>2. (NextIs("LET") /\ Pop /\ Continue(frame)) \/ (Keep /\ ReturnError(Unexpected))
    BY <1>17 DEF Let
  <2>3. frame.start = Top.start /\ frame.at = "let.identifier"
    BY <2>1, Running DEF Frame
  <2> HIDE DEF frame
  <2> QED BY <2>1, <2>2, <2>3, ContinueSteps, UnexpectedSteps
<1>18. CASE LetIdentifier
  BY <1>18, GotoSteps, UnexpectedSteps DEF LetIdentifier
<1>19. CASE LetColon
  BY <1>19, CallSteps, GotoSteps DEF LetColon
<1>20. CASE LetGetsType
  BY <1>20, GotoWithSteps DEF LetGetsType
<1>21. CASE LetAssign
  <2> DEFINE error == [what |-> "UnexpectedToken", at |-> Top.start + 1]
  <2>1. ~Done /\ Top.at = "let.assign"
    BY <1>21 DEF LetAssign
  <2>2. CASE PopNothing
    BY <2>1, <2>2 DEF Steps
  <2>3. CASE NextIs("ASSIGN") /\ Pop /\ Call("let.rhs", "expression_bp")
    BY <2>1, <2>3, CallSteps
  <2>4. CASE Peeked /\ ~NextIs("ASSIGN") /\ Pop /\ ReturnError(error)
    <3>1. /\ Top.start \in Nat /\ taken \in Nat /\ Top.start < taken
          /\ read[Top.start + 1] = "LET"
      BY <2>1, Running DEF Top, Shallow, BehindLet
    <3>2. Names(error)
      BY <2>4, <3>1 DEF Names, NextIs, NextToken
    <3> QED BY <2>1, <2>4, <3>2, ErrorSteps
  <2> QED BY <1>21, <2>2, <2>3, <2>4 DEF LetAssign
<1>22. CASE LetReturns
  BY <1>22, ReturnSteps DEF LetReturns
<1>23. CASE LetPropagates
  BY <1>23, PropagatesSteps DEF LetPropagates
<1>24. CASE Swallows({"statement.let", "statement.condition", "statement.body",
                      "statement.expression", "for.elem", "for_element.rhs",
                      "stmt_list.stmt"})
  BY <1>24, SwallowsSteps
<1> QED
  BY StatementNext, <1>1, <1>2, <1>3, <1>4, <1>5, <1>6, <1>7, <1>8, <1>9,
     <1>10, <1>11, <1>12, <1>13, <1>14, <1>15, <1>16, <1>17, <1>18, <1>19,
     <1>20, <1>21, <1>22, <1>23, <1>24 DEF StatementNext, LetNext

-----------------------------------------------------------------------------
(* The theorems *)

LEMMA EveryStepSteps ==
    ASSUME CallInv, ParserNext
    PROVE  Steps
BY TypeSteps, ExpressionSteps, SimpleExpressionSteps, IfSteps, BlockSteps, LParSteps,
   StatementSteps DEF ParserNext

(* Reading a token moves nothing: a let that was taken is where it was. *)
LEMMA LexKeepsCalls ==
    ASSUME CallInv, LexNext
    PROVE  CallInv'
<1>1. Inv' /\ taken' = taken /\ stack' = stack /\ ret' = ret /\ ret = NoResult
  BY LexKeeps DEF CallInv, LexNext
<1>2. \A i \in 1 .. taken : read'[i] = read[i]
  <2>1. read \in Seq(TokenTypes) /\ taken \in 0 .. Len(read) /\ Len(read) \in Nat
    BY LenProperties DEF CallInv, Inv
  <2> QED BY <2>1, LexReads, AppendProperties DEF CallInv
<1>3. Shallow'
  BY <1>1 DEF CallInv, Shallow
<1>4. BehindLet'
  <2> SUFFICES ASSUME NEW i \in 1 .. Len(stack)
               PROVE  /\ stack[i].at = "let" => i = Len(stack) /\ stack[i].start = taken
                      /\ stack[i].at \in InLet => read'[stack[i].start + 1] = "LET"
    BY <1>1 DEF BehindLet
  <2>1. stack[i] \in FramesAt(taken) /\ taken \in Nat
    BY ElementOfSeq, LenProperties DEF CallInv, Inv
  <2>2. stack[i].start \in Nat
    BY <2>1 DEF FramesAt, Frame
  <2>3. stack[i].at \in InLet => stack[i].start + 1 \in 1 .. taken
    BY <2>1, <2>2 DEF CallInv, Shallow, Ahead
  <2> QED BY <1>2, <2>3 DEF CallInv, BehindLet
<1>5. ErrorsAreFresh'
  BY <1>1 DEF ErrorsAreFresh, NoResult
<1> QED BY <1>1, <1>3, <1>4, <1>5 DEF CallInv

LEMMA CallInitKeeps == Init => CallInv
<1> SUFFICES ASSUME NEW entry \in Entries, Starting(entry), Inv PROVE CallInv
  BY InitKeeps DEF Init
<1>1. stack = <<NewFrame(entry, 0, 0)>> /\ taken = 0 /\ ret = NoResult
  BY DEF Starting
<1>2. /\ Len(stack) = 1 /\ stack[1].start = 0 /\ stack[1].at = entry
      /\ \A i \in 1 .. Len(stack) : i = 1
  BY <1>1 DEF NewFrame
<1>3. Shallow
  <2>1. entry \notin Ahead
    BY EntriesAssumption DEF Ahead, InLet
  <2> QED BY <1>2, <2>1, RanksAre DEF Shallow
<1>4. BehindLet
  <2>1. entry \notin InLet
    BY EntriesAssumption DEF InLet
  <2> QED BY <1>1, <1>2, <2>1 DEF BehindLet
<1>5. ErrorsAreFresh
  BY <1>1 DEF ErrorsAreFresh, NoResult
<1> QED BY <1>3, <1>4, <1>5 DEF CallInv

LEMMA CallInvHolds == Spec => []CallInv
<1>1. CallInv /\ [Next]_vars => CallInv'
  <2> SUFFICES ASSUME CallInv, [Next]_vars PROVE CallInv'
    OBVIOUS
  <2>1. CASE UNCHANGED vars
    BY <2>1 DEF vars, CallInv, Inv, Top, Shallow, BehindLet, ErrorsAreFresh
  <2>2. CASE LexNext
    BY <2>2, LexKeepsCalls
  <2>3. CASE ParserNext
    BY <2>3, EveryStepSteps, StepsKeep
  <2> QED BY <2>1, <2>2, <2>3 DEF Next
<1> QED BY <1>1, CallInitKeeps, PTL DEF Spec

(* The calls in progress are bounded by the tokens taken, for every source *)
(* and every method: between two tokens at most four frames are stacked,   *)
(* so no grammar rule of the parser is left recursive.                     *)
THEOREM DepthIsBounded == Spec => []DepthBounded
<1>1. CallInv => DepthBounded
  <2> SUFFICES ASSUME CallInv PROVE DepthBounded
    OBVIOUS
  <2> DEFINE n == Len(stack)
  <2>1. n \in Nat /\ taken \in Nat
    BY LenProperties DEF CallInv, Inv
  <2>2. CASE n = 0
    BY <2>1, <2>2 DEF DepthBounded
  <2>3. CASE n # 0
    <3>1. n \in 1 .. n
      BY <2>1, <2>3
    <3>2. stack[n] \in FramesAt(taken)
      BY <3>1, ElementOfSeq DEF CallInv, Inv
    <3>3. stack[n].start \in Nat /\ stack[n].start <= taken
      BY <3>2 DEF FramesAt, Frame
    <3>4. n <= 4 * stack[n].start + Rank(stack[n].at)
      BY <3>1 DEF CallInv, Shallow
    <3>5. Rank(stack[n].at) \in 1 .. 4
      BY RanksAre
    <3> QED BY <2>1, <3>3, <3>4, <3>5 DEF DepthBounded
  <2> QED BY <2>2, <2>3
<1> QED BY <1>1, CallInvHolds, PTL

(* An error that reaches a caller is about the last token taken or the     *)
(* next one, through however many methods it went; or it is let's about a  *)
(* missing =, and then there is a let where it points to.                  *)
THEOREM ErrorsNameTokensAtHand == Spec => []ErrorsAreFresh
<1>1. CallInv => ErrorsAreFresh
  BY DEF CallInv
<1> QED BY <1>1, CallInvHolds, PTL
=============================================================================
