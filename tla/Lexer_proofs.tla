---------------------------- MODULE Lexer_proofs ----------------------------
(***************************************************************************)
(* Proofs about the Lexer, for every source, every start position, every   *)
(* width of the positions and every client.                                *)
(***************************************************************************)
EXTENDS Lexer, Induction, SequenceTheorems, FiniteSetTheorems

-----------------------------------------------------------------------------
(* What lexNext computes before it decides is well typed. *)
LEMMA SpaceTypes ==
    ASSUME TypeOK
    PROVE  /\ ContentAfterSpace \in Seq(Lexeme)
           /\ Start \in 0 .. Word - 1
           /\ UnwrappedStart \in Nat
<1>1. CASE AtWhitespace
  <2>1. content_ # <<>> /\ content_ \in Seq(Lexeme)
    BY <1>1 DEF AtWhitespace, TypeOK
  <2>2. Tail(content_) \in Seq(Lexeme) /\ Head(content_) \in Lexeme
    BY <2>1
  <2>3. Head(content_).size \in Nat
    BY <2>2 DEF Lexeme
  <2>4. (position_ + Head(content_).size) % Word \in 0 .. Word - 1
    BY <2>3, PositionsAssumption DEF TypeOK
  <2>5. unwrapped + Head(content_).size \in Nat
    BY <2>3 DEF TypeOK
  <2> QED BY <1>1, <2>2, <2>4, <2>5 DEF ContentAfterSpace, Start, UnwrappedStart
<1>2. CASE ~AtWhitespace
  BY <1>2 DEF ContentAfterSpace, Start, UnwrappedStart, TypeOK
<1> QED BY <1>1, <1>2

LEMMA TokenAtType ==
    ASSUME TypeOK, NEW type \in TokenTypes, NEW size \in Nat
    PROVE  TokenAt(type, size) \in Token
<1>1. Start \in Nat /\ (Start + size) % Word \in Nat
  BY SpaceTypes, PositionsAssumption
<1>2. Len(produced) + 1 \in Nat \ {0}
  BY DEF TypeOK
<1> QED BY <1>1, <1>2 DEF TokenAt, Token, Area

(* A lexNext that finds a token keeps the types, whatever the vector held. *)
LEMMA LexIntoTypes ==
    ASSUME TypeOK, NEW buffer \in Seq(Token), LexInto(buffer)
    PROVE  /\ content_' \in Seq(Lexeme) /\ position_' \in 0 .. Word - 1
           /\ unwrapped' \in Nat
           /\ lexed_' \in Seq(Token) /\ produced' \in Seq(Token)
           /\ \E token \in Token : /\ token.nth = Len(produced) + 1
                                   /\ lexed_' = Append(buffer, token)
                                   /\ produced' = Append(produced, token)
<1>1. CASE ContentAfterSpace = <<>>
  <2>1. /\ TokenAt("END_OF_FILE", 0) \in Token
        /\ TokenAt("END_OF_FILE", 0).nth = Len(produced) + 1
    BY TokenAtType DEF TokenTypes, TokenAt
  <2>2. /\ content_' = ContentAfterSpace /\ position_' = Start
        /\ unwrapped' = UnwrappedStart
        /\ lexed_' = Append(buffer, TokenAt("END_OF_FILE", 0))
        /\ produced' = Append(produced, TokenAt("END_OF_FILE", 0))
    BY <1>1 DEF LexInto, Appended
  <2>3. Append(produced, TokenAt("END_OF_FILE", 0)) \in Seq(Token)
    BY <2>1 DEF TypeOK
  <2> QED BY <2>1, <2>2, <2>3, SpaceTypes
<1>2. CASE ContentAfterSpace # <<>>
  <2> DEFINE lexeme == Head(ContentAfterSpace)
  <2>1. lexeme \in Lexeme /\ Tail(ContentAfterSpace) \in Seq(Lexeme)
    BY <1>2, SpaceTypes
  <2>2. lexeme.type \in TokenTypes /\ lexeme.size \in Nat
    BY <1>2, <2>1 DEF LexInto, Stuck, Lexeme
  <2>3. /\ TokenAt(lexeme.type, lexeme.size) \in Token
        /\ TokenAt(lexeme.type, lexeme.size).nth = Len(produced) + 1
    BY <2>2, TokenAtType DEF TokenAt
  <2>4. Advance(lexeme) \in Nat
    BY <2>2 DEF Advance
  <2>5. (Start + Advance(lexeme)) % Word \in 0 .. Word - 1
    BY <2>4, SpaceTypes, PositionsAssumption
  <2>6. /\ content_' = Tail(ContentAfterSpace)
        /\ position_' = (Start + Advance(lexeme)) % Word
        /\ unwrapped' = UnwrappedStart + Advance(lexeme)
        /\ lexed_' = Append(buffer, TokenAt(lexeme.type, lexeme.size))
        /\ produced' = Append(produced, TokenAt(lexeme.type, lexeme.size))
    BY <1>2 DEF LexInto, Appended
  <2>7. Append(produced, TokenAt(lexeme.type, lexeme.size)) \in Seq(Token)
    BY <2>3 DEF TypeOK
  <2>8. UnwrappedStart + Advance(lexeme) \in Nat
    BY <2>4, SpaceTypes
  <2> HIDE DEF lexeme
  <2> QED BY <2>1, <2>3, <2>5, <2>6, <2>7, <2>8
<1> QED BY <1>1, <1>2

LEMMA LexFailsTypes ==
    ASSUME TypeOK, NEW buffer \in Seq(Token), LexFails(buffer)
    PROVE  /\ content_' \in Seq(Lexeme) /\ position_' \in 0 .. Word - 1
           /\ unwrapped' \in Nat
           /\ lexed_' = buffer /\ produced' = produced
BY SpaceTypes DEF LexFails

LEMMA Concatenated == \A s, t \in Seq(Token) : s \o t \in Seq(Token)
OBVIOUS

(* pop<N> splits the vector. *)
LEMMA PoppedRest ==
    ASSUME TypeOK, NEW n \in 1 .. Len(lexed_)
    PROVE  /\ Popped(n) \in Seq(Token) /\ Rest(n) \in Seq(Token)
           /\ Len(Popped(n)) = n /\ Len(Rest(n)) = Len(lexed_) - n
<1> USE DEF Popped, Rest
<1>1. lexed_ \in Seq(Token) /\ Len(lexed_) \in Nat
  BY DEF TypeOK
<1>2. /\ Len(lexed_) - n + 1 \in 1 .. Len(lexed_) + 1
      /\ Len(lexed_) - n \in 0 .. Len(lexed_)
  BY <1>1
<1> QED BY <1>1, <1>2, SubSeqProperties

(* An operation in progress is one of Calls. *)
LEMMA CallFields ==
    ASSUME TypeOK
    PROVE  /\ call.n \in 1 .. MaxPeek
           /\ call.op \in {"none", "peek", "peek_and_pop", "next_is", "pop_next_is", "pop_token"}
           /\ call.op \notin {"none", "peek", "peek_and_pop"} => call.n = 1
BY MaxPeekAssumption DEF TypeOK, Calls, Idle

-----------------------------------------------------------------------------
LEMMA InitTypes == Init => TypeOK
<1> SUFFICES ASSUME Init PROVE TypeOK OBVIOUS
<1>1. content_ \in Seq(Lexeme)
  BY ContentsAssumption DEF Init
<1>2. position_ \in 0 .. Word - 1 /\ unwrapped \in Nat
  BY PositionsAssumption DEF Init
<1>3. /\ lexed_ \in Seq(Token) /\ produced \in Seq(Token)
      /\ delivered \in Seq(Token) /\ seen \in Seq(Token)
  BY DEF Init
<1>4. call \in Calls \cup {Idle} /\ undefined \in BOOLEAN
  BY DEF Init
<1> QED BY <1>1, <1>2, <1>3, <1>4 DEF TypeOK

(* Every variable keeps its type: in particular no position leaves its     *)
(* width and every token in the vector is a whole one.                     *)
THEOREM TypeCorrect == Spec => []TypeOK
<1>1. Init => TypeOK
  BY InitTypes
<1>2. TypeOK /\ [Next]_vars => TypeOK'
  <2> SUFFICES ASSUME TypeOK, [Next]_vars PROVE TypeOK' OBVIOUS
  <2>0. Idle \in Calls \cup {Idle} /\ <<>> \in Seq(Token)
    OBVIOUS
  <2>1. CASE Call
    BY <2>1 DEF Call, TypeOK, Calls, Idle
  <2>2. CASE Pop
    BY <2>2, PoppedRest DEF Pop, PopTokens, TypeOK
  <2>3. CASE LexForPeek
    BY <2>3, LexIntoTypes DEF LexForPeek, TypeOK
  <2>4. CASE PeekFails
    BY <2>4, LexFailsTypes DEF PeekFails, TypeOK
  <2>5. CASE PeekAndPopFails
    <3>1. Popped(Len(lexed_)) \in Seq(Token)
      <4>1. lexed_ \in Seq(Token) /\ Len(lexed_) - Len(lexed_) + 1 = 1
        BY DEF TypeOK
      <4>2. SubSeq(lexed_, 1, Len(lexed_)) \in Seq(Token)
        BY <4>1, SubSeqProperties
      <4> QED BY <4>1, <4>2 DEF Popped
    <3>2. delivered' \in Seq(Token)
      BY <2>5, <3>1, Concatenated DEF PeekAndPopFails, TypeOK
    <3>3. /\ content_' \in Seq(Lexeme) /\ position_' \in 0 .. Word - 1
          /\ lexed_' \in Seq(Token) /\ produced' \in Seq(Token) /\ unwrapped' \in Nat
      BY <2>0, <2>5, LexFailsTypes DEF PeekAndPopFails, TypeOK
    <3>4. call' \in Calls \cup {Idle} /\ undefined' \in BOOLEAN /\ seen' \in Seq(Token)
      BY <2>0, <2>5 DEF PeekAndPopFails
    <3> QED BY <3>2, <3>3, <3>4 DEF TypeOK
  <2>6. CASE PeekEnds
    <3>1. Answer(call.n) \in Seq(Token)
      BY <2>6, CallFields DEF PeekEnds, Answer, Back, TypeOK
    <3> QED BY <2>6, <3>1 DEF PeekEnds, TypeOK
  <2>7. CASE PopNextIsEnds
    <3>1. 1 <= Len(lexed_)
      BY <2>7, CallFields DEF PopNextIsEnds, TypeOK
    <3>2. Answer(1) \in Seq(Token)
      BY <3>1 DEF Answer, Back, TypeOK
    <3>3. lexed_' \in Seq(Token) /\ delivered' \in Seq(Token)
      <4>1. 1 \in 1 .. Len(lexed_)
        BY <3>1 DEF TypeOK
      <4>2. Popped(1) \in Seq(Token) /\ Rest(1) \in Seq(Token)
        BY <4>1, PoppedRest
      <4>3. \/ lexed_' = Rest(1) /\ delivered' = delivered \o Popped(1)
            \/ lexed_' = lexed_ /\ delivered' = delivered
        BY <2>7 DEF PopNextIsEnds, PopTokens
      <4> QED BY <4>2, <4>3, Concatenated DEF TypeOK
    <3> QED BY <2>7, <3>2, <3>3 DEF PopNextIsEnds, TypeOK
  <2>8. CASE PeekAndPopEnds
    <3>1. call.n \in 1 .. Len(lexed_)
      BY <2>8, CallFields DEF PeekAndPopEnds, TypeOK
    <3>2. Answer(call.n) \in Seq(Token)
      BY <3>1 DEF Answer, Back, TypeOK
    <3>3. lexed_' \in Seq(Token) /\ delivered' \in Seq(Token)
      BY <2>8, <3>1, PoppedRest DEF PeekAndPopEnds, PopTokens, TypeOK
    <3> QED BY <2>8, <3>2, <3>3 DEF PeekAndPopEnds, TypeOK
  <2>9. CASE PopTokenTurn
    <3>1. 1 \in 1 .. Len(lexed_)
      BY <2>9 DEF PopTokenTurn, TypeOK
    <3>2. delivered' \in Seq(Token)
      BY <2>9, <3>1, PoppedRest DEF PopTokenTurn, TypeOK
    <3>3. /\ content_' \in Seq(Lexeme) /\ position_' \in 0 .. Word - 1
          /\ lexed_' \in Seq(Token) /\ produced' \in Seq(Token) /\ unwrapped' \in Nat
      BY <2>9, <2>0, <3>1, PoppedRest, LexIntoTypes, LexFailsTypes DEF PopTokenTurn, TypeOK
    <3> QED BY <2>9, <3>2, <3>3 DEF PopTokenTurn, TypeOK
  <2>10. CASE PopTokenEnds
    BY <2>10 DEF PopTokenEnds, TypeOK
  <2>11. CASE UNCHANGED vars
    BY <2>11 DEF vars, TypeOK
  <2> QED BY <2>1, <2>2, <2>3, <2>4, <2>5, <2>6, <2>7, <2>8, <2>9, <2>10, <2>11 DEF Next
<1> QED BY <1>1, <1>2, PTL DEF Spec

-----------------------------------------------------------------------------
(* Errors.  Nothing here depends on types or on what the client does. *)

(* A lexNext that fails leaves everything as it must be to fail again.     *)
LEMMA StuckStays ==
    ASSUME NEW buffer, LexFails(buffer)
    PROVE  /\ Stuck' /\ produced' = produced /\ lexed_' = buffer
           /\ ContentAfterSpace' = ContentAfterSpace /\ Start' = Start
<1>1. /\ content_' = ContentAfterSpace /\ position_' = Start
      /\ produced' = produced /\ lexed_' = buffer
      /\ ContentAfterSpace # <<>> /\ Head(ContentAfterSpace).type = "UNLEXABLE"
  BY DEF LexFails, Stuck
<1>2. ~AtWhitespace'
  BY <1>1 DEF AtWhitespace
<1>3. ContentAfterSpace' = ContentAfterSpace /\ Start' = Start
  BY <1>1, <1>2 DEF ContentAfterSpace, Start
<1> QED BY <1>1, <1>3 DEF Stuck

LEMMA SourceUnchanged ==
    ASSUME UNCHANGED <<content_, position_>>
    PROVE  /\ Stuck' = Stuck
           /\ ContentAfterSpace' = ContentAfterSpace /\ Start' = Start
BY DEF Stuck, ContentAfterSpace, Start, AtWhitespace

(* Once lexNext failed no token is ever lexed, whatever the client calls:  *)
(* an error is never skipped (Lexer::lexNext).                             *)
THEOREM ErrorsAreFinal == Spec => ErrorIsFinal
<1> DEFINE Same == Stuck' /\ produced' = produced
                   /\ ContentAfterSpace' = ContentAfterSpace /\ Start' = Start
<1>1. ASSUME Stuck, [Next]_vars PROVE Same
  <2>1. \A buffer : ~LexInto(buffer)
    BY <1>1 DEF LexInto
  <2>2. \A buffer : LexFails(buffer) => Same
    BY StuckStays
  <2>3. UNCHANGED <<content_, position_, produced>> => Same
    BY <1>1, SourceUnchanged
  <2> HIDE DEF Same
  <2>4. CASE Call BY <2>3, <2>4 DEF Call
  <2>5. CASE Pop BY <2>3, <2>5 DEF Pop
  <2>6. CASE LexForPeek BY <2>1, <2>6 DEF LexForPeek
  <2>7. CASE PeekFails BY <2>2, <2>7 DEF PeekFails
  <2>8. CASE PeekAndPopFails BY <2>2, <2>8 DEF PeekAndPopFails
  <2>9. CASE PeekEnds BY <2>3, <2>9 DEF PeekEnds
  <2>10. CASE PopNextIsEnds BY <2>3, <2>10 DEF PopNextIsEnds
  <2>11. CASE PeekAndPopEnds BY <2>3, <2>11 DEF PeekAndPopEnds
  <2>12. CASE PopTokenTurn BY <2>1, <2>2, <2>3, <2>12 DEF PopTokenTurn
  <2>13. CASE PopTokenEnds BY <2>3, <2>13 DEF PopTokenEnds
  <2>14. CASE UNCHANGED vars BY <2>3, <2>14 DEF vars
  <2> QED BY <1>1, <2>4, <2>5, <2>6, <2>7, <2>8, <2>9, <2>10, <2>11, <2>12, <2>13, <2>14
          DEF Next
<1>2. [Next]_vars => [Stuck => Same]_vars
  BY <1>1
<1> QED BY <1>2, PTL DEF Spec, ErrorIsFinal

(* The strengthening of UndefinedOnlyIfStuck: behind the undefined pop no  *)
(* operation is in progress, so none goes on.                              *)
UndefinedInv == undefined => Stuck /\ lexed_ = <<>> /\ call = Idle

(* pop_back never runs on an empty vector but in a peek_and_pop whose peek *)
(* met an unlexable stretch of the source (Lexer::peek_and_pop).           *)
THEOREM UndefinedOnlyBehindErrors == Spec => []UndefinedOnlyIfStuck
<1>1. Init => UndefinedInv
  BY DEF Init, UndefinedInv
<1>2. UndefinedInv /\ [Next]_vars => UndefinedInv'
  <2> SUFFICES ASSUME UndefinedInv, [Next]_vars, undefined' PROVE UndefinedInv'
    BY DEF UndefinedInv
  <2> USE DEF UndefinedInv
  <2>1. CASE undefined
    <3>1. UNCHANGED vars
      BY <2>1 DEF Next, Call, Pop, LexForPeek, PeekFails, PeekAndPopFails, PeekEnds,
                  PopNextIsEnds, PeekAndPopEnds, PopTokenTurn, PopTokenEnds, Peeks, Idle
    <3> QED BY <2>1, <3>1, SourceUnchanged DEF vars
  <2>2. CASE ~undefined
    <3>1. PeekAndPopFails
      BY <2>2 DEF Next, Call, Pop, LexForPeek, PeekFails, PeekEnds, PopNextIsEnds,
                  PeekAndPopEnds, PopTokenTurn, PopTokenEnds, vars
    <3> QED BY <3>1, StuckStays DEF PeekAndPopFails
  <2> QED BY <2>1, <2>2
<1>3. UndefinedInv => UndefinedOnlyIfStuck
  BY DEF UndefinedInv, UndefinedOnlyIfStuck
<1> QED BY <1>1, <1>2, <1>3, PTL DEF Spec

-----------------------------------------------------------------------------
(* Areas.  What the client does matters as little as for errors.           *)

Ordered ==
    \A i \in 1 .. Len(produced) :
        /\ produced[i].area.start <= produced[i].area.end
        /\ i < Len(produced) => produced[i].area.end <= produced[i + 1].area.start

(* Before position_ wraps it is where it should be, behind every area.     *)
AreasInv ==
    /\ TypeOK
    /\ unwrapped < Word =>
           /\ position_ = unwrapped
           /\ Ordered
           /\ produced # <<>> => produced[Len(produced)].area.end <= position_

LEMMA NoWrap == \A x \in Nat : x < Word => x % Word = x
BY PositionsAssumption

(* Whitespace moves the position ahead, and as long as that does not wrap  *)
(* the next area starts where it should.                                   *)
LEMMA StartUnlessWrapped ==
    ASSUME AreasInv
    PROVE  /\ UnwrappedStart \in Nat /\ unwrapped \in Nat /\ unwrapped <= UnwrappedStart
           /\ UnwrappedStart < Word => Start = UnwrappedStart
<1>1. TypeOK /\ unwrapped \in Nat /\ UnwrappedStart \in Nat
  BY SpaceTypes DEF AreasInv, TypeOK
<1>2. unwrapped < Word => position_ = unwrapped
  BY DEF AreasInv
<1>3. Word \in Nat
  BY PositionsAssumption
<1>4. CASE AtWhitespace
  <2>1. content_ # <<>> /\ content_ \in Seq(Lexeme)
    BY <1>1, <1>4 DEF AtWhitespace, TypeOK
  <2>2. Head(content_).size \in Nat
    <3>1. Head(content_) \in Lexeme
      BY <2>1
    <3> QED BY <3>1 DEF Lexeme
  <2>3. UnwrappedStart = unwrapped + Head(content_).size
    BY <1>4 DEF UnwrappedStart
  <2>4. UnwrappedStart < Word => unwrapped < Word
    BY <1>1, <1>3, <2>2, <2>3
  <2>5. Start = (position_ + Head(content_).size) % Word
    BY <1>4 DEF Start
  <2> QED BY <1>1, <1>2, <2>2, <2>3, <2>4, <2>5, NoWrap
<1>5. CASE ~AtWhitespace
  BY <1>1, <1>2, <1>5 DEF UnwrappedStart, Start
<1> QED BY <1>4, <1>5

(* A token whose area is in order and behind all others *)
LEMMA OrderedBy ==
    ASSUME TypeOK, NEW token \in Token, Ordered,
           token.area.start <= token.area.end,
           produced # <<>> => produced[Len(produced)].area.end <= token.area.start,
           produced' = Append(produced, token)
    PROVE  /\ Ordered'
           /\ produced' # <<>> /\ produced'[Len(produced')] = token
<1> DEFINE n == Len(produced)
<1>1. /\ n \in Nat /\ Len(produced') = n + 1 /\ produced'[n + 1] = token
      /\ \A i \in 1 .. n : produced'[i] = produced[i]
  BY AppendProperties, LenProperties DEF TypeOK
<1>2. produced' # <<>>
  BY <1>1
<1>3. n # 0 => produced # <<>>
  OBVIOUS
<1> HIDE DEF n
<1>4. ASSUME NEW i \in 1 .. n + 1
      PROVE  /\ produced'[i].area.start <= produced'[i].area.end
             /\ i < n + 1 => produced'[i].area.end <= produced'[i + 1].area.start
  <2>1. CASE i = n + 1
    BY <1>1, <2>1
  <2>2. CASE i = n /\ i # n + 1
    <3>1. i \in 1 .. n /\ produced'[i] = produced[i] /\ produced'[i + 1] = token
      BY <1>1, <2>2
    <3>2. produced[i].area.end <= token.area.start
      BY <1>1, <1>3, <2>2, <3>1 DEF n
    <3> QED BY <3>1, <3>2 DEF Ordered, n
  <2>3. CASE i # n /\ i # n + 1
    <3>1. i \in 1 .. n /\ i + 1 \in 1 .. n /\ i < n
      BY <1>1, <2>3
    <3>2. produced'[i] = produced[i] /\ produced'[i + 1] = produced[i + 1]
      BY <1>1, <3>1
    <3> QED BY <3>1, <3>2 DEF Ordered, n
  <2> QED BY <2>1, <2>2, <2>3
<1> QED BY <1>1, <1>2, <1>4 DEF Ordered

(* lexNext puts the area of the token it finds behind the others. *)
LEMMA LexNextKeepsAreas ==
    ASSUME AreasInv, TypeOK', NEW buffer \in Seq(Token), LexInto(buffer)
    PROVE  AreasInv'
<1>1. /\ UnwrappedStart \in Nat /\ unwrapped \in Nat /\ unwrapped <= UnwrappedStart
      /\ UnwrappedStart < Word => Start = UnwrappedStart
  BY StartUnlessWrapped
<1>2. TypeOK /\ Word \in Nat
  BY PositionsAssumption DEF AreasInv
<1>3. ASSUME NEW type \in TokenTypes, NEW size \in Nat, NEW distance \in Nat,
             size <= distance,
             produced' = Append(produced, TokenAt(type, size)),
             position_' = (Start + distance) % Word,
             unwrapped' = UnwrappedStart + distance,
             unwrapped' < Word
      PROVE  AreasInv'
  <2> DEFINE token == TokenAt(type, size)
  <2>1. unwrapped < Word /\ Start = UnwrappedStart /\ Start + size < Word
    BY <1>1, <1>2, <1>3
  <2>2. /\ Ordered /\ position_ = unwrapped
        /\ produced # <<>> => produced[Len(produced)].area.end <= position_
    BY <2>1 DEF AreasInv
  <2>3. (Start + size) % Word = Start + size /\ (Start + distance) % Word = Start + distance
    <3>1. Start + distance \in Nat /\ Start + distance < Word /\ Start + size \in Nat
      BY <1>1, <1>3, <2>1
    <3> QED BY <2>1, <3>1, NoWrap
  <2>4. token \in Token /\ token.area.start = Start /\ token.area.end = Start + size
    BY <1>2, <1>3, <2>3, TokenAtType DEF TokenAt
  <2>5. token.area.start <= token.area.end
    BY <1>1, <1>3, <2>1, <2>4
  <2>6. position_ <= token.area.start
    BY <1>1, <2>1, <2>2, <2>4
  <2>7. produced # <<>> => produced[Len(produced)].area.end <= token.area.start
    <3> SUFFICES ASSUME produced # <<>>
                 PROVE  produced[Len(produced)].area.end <= token.area.start
      OBVIOUS
    <3>1. produced[Len(produced)].area.end \in Nat
      <4>1. produced \in Seq(Token) /\ Len(produced) \in 1 .. Len(produced)
        BY <1>2, EmptySeq, LenProperties DEF TypeOK
      <4>2. produced[Len(produced)] \in Token
        BY <4>1, ElementOfSeq
      <4> QED BY <4>2 DEF Token, Area
    <3> QED BY <1>1, <2>1, <2>2, <2>4, <3>1
  <2>8. produced' = Append(produced, token)
    BY <1>3
  <2> HIDE DEF token
  <2>9. Ordered' /\ produced' # <<>> /\ produced'[Len(produced')] = token
    BY <1>2, <2>2, <2>4, <2>5, <2>7, <2>8, OrderedBy
  <2>10. position_' = unwrapped' /\ token.area.end <= position_'
    BY <1>1, <1>3, <2>1, <2>3, <2>4
  <2> QED BY <2>9, <2>10 DEF AreasInv
<1>4. CASE ContentAfterSpace = <<>>
  <2>1. /\ produced' = Append(produced, TokenAt("END_OF_FILE", 0))
        /\ position_' = Start /\ unwrapped' = UnwrappedStart
    BY <1>4 DEF LexInto
  <2>2. CASE unwrapped' < Word
    <3>1. Start + 0 = Start /\ UnwrappedStart + 0 = UnwrappedStart /\ Start % Word = Start
      BY <1>1, <2>1, <2>2, NoWrap
    <3>2. "END_OF_FILE" \in TokenTypes
      BY DEF TokenTypes
    <3> QED BY <1>3, <2>1, <2>2, <3>1, <3>2
  <2> QED BY <2>2 DEF AreasInv
<1>5. CASE ContentAfterSpace # <<>>
  <2> DEFINE lexeme == Head(ContentAfterSpace)
  <2>1. lexeme.type \in TokenTypes /\ lexeme.size \in Nat
    <3>1. lexeme \in Lexeme
      BY <1>2, <1>5, SpaceTypes
    <3> QED BY <1>5, <3>1 DEF LexInto, Stuck, Lexeme
  <2>2. Advance(lexeme) \in Nat /\ lexeme.size <= Advance(lexeme)
    BY <2>1 DEF Advance
  <2>3. /\ produced' = Append(produced, TokenAt(lexeme.type, lexeme.size))
        /\ position_' = (Start + Advance(lexeme)) % Word
        /\ unwrapped' = UnwrappedStart + Advance(lexeme)
    BY <1>5 DEF LexInto
  <2> HIDE DEF lexeme
  <2>4. CASE unwrapped' < Word
    BY <1>3, <2>1, <2>2, <2>3, <2>4
  <2> QED BY <2>4 DEF AreasInv
<1> QED BY <1>4, <1>5

LEMMA FailingKeepsAreas ==
    ASSUME AreasInv, TypeOK', NEW buffer, LexFails(buffer)
    PROVE  AreasInv'
<1>1. /\ UnwrappedStart \in Nat /\ unwrapped \in Nat /\ unwrapped <= UnwrappedStart
      /\ UnwrappedStart < Word => Start = UnwrappedStart
  BY StartUnlessWrapped
<1>2. position_' = Start /\ unwrapped' = UnwrappedStart /\ produced' = produced
  BY DEF LexFails
<1>3. CASE unwrapped' < Word
  <2>1. unwrapped < Word /\ Start = UnwrappedStart
    BY <1>1, <1>2, <1>3, PositionsAssumption
  <2>2. /\ Ordered /\ position_ = unwrapped
        /\ produced # <<>> => produced[Len(produced)].area.end <= position_
    BY <2>1 DEF AreasInv
  <2>3. Ordered'
    BY <1>2, <2>2 DEF Ordered
  <2>4. produced # <<>> => produced[Len(produced)].area.end <= Start
    <3> SUFFICES ASSUME produced # <<>> PROVE produced[Len(produced)].area.end <= Start
      OBVIOUS
    <3>1. produced[Len(produced)].area.end \in Nat
      <4>1. produced \in Seq(Token) /\ Len(produced) \in 1 .. Len(produced)
        BY EmptySeq, LenProperties DEF AreasInv, TypeOK
      <4>2. produced[Len(produced)] \in Token
        BY <4>1, ElementOfSeq
      <4> QED BY <4>2 DEF Token, Area
    <3> QED BY <1>1, <2>1, <2>2, <3>1
  <2> QED BY <1>2, <2>1, <2>3, <2>4 DEF AreasInv
<1> QED BY <1>3 DEF AreasInv

(* As long as position_ has not wrapped, the areas of the tokens lie in    *)
(* the order of the source and do not overlap, although newlines move the  *)
(* position twice (lexNext, moveForward).                                  *)
THEOREM AreasStayOrdered == Spec => []AreasOrdered
<1>1. Init => AreasInv
  <2> SUFFICES ASSUME Init, TypeOK PROVE AreasInv
    BY InitTypes
  <2> QED BY DEF Init, AreasInv, Ordered
<1>2. TypeOK' /\ AreasInv /\ [Next]_vars => AreasInv'
  <2> SUFFICES ASSUME TypeOK', AreasInv, [Next]_vars PROVE AreasInv'
    OBVIOUS
  <2>1. lexed_ \in Seq(Token) /\ <<>> \in Seq(Token)
    BY DEF AreasInv, TypeOK
  <2>2. UNCHANGED <<position_, unwrapped, produced>> => AreasInv'
    BY DEF AreasInv, Ordered
  <2>3. CASE Call BY <2>2, <2>3 DEF Call
  <2>4. CASE Pop BY <2>2, <2>4 DEF Pop
  <2>5. CASE LexForPeek BY <2>1, <2>5, LexNextKeepsAreas DEF LexForPeek
  <2>6. CASE PeekFails BY <2>6, FailingKeepsAreas DEF PeekFails
  <2>7. CASE PeekAndPopFails BY <2>7, FailingKeepsAreas DEF PeekAndPopFails
  <2>8. CASE PeekEnds BY <2>2, <2>8 DEF PeekEnds
  <2>9. CASE PopNextIsEnds BY <2>2, <2>9 DEF PopNextIsEnds
  <2>10. CASE PeekAndPopEnds BY <2>2, <2>10 DEF PeekAndPopEnds
  <2>11. CASE PopTokenTurn
    BY <2>1, <2>2, <2>11, LexNextKeepsAreas, FailingKeepsAreas DEF PopTokenTurn
  <2>12. CASE PopTokenEnds BY <2>2, <2>12 DEF PopTokenEnds
  <2>13. CASE UNCHANGED vars BY <2>2, <2>13 DEF vars
  <2> QED BY <2>3, <2>4, <2>5, <2>6, <2>7, <2>8, <2>9, <2>10, <2>11, <2>12, <2>13
          DEF Next
<1>3. AreasInv => AreasOrdered
  BY DEF AreasInv, AreasOrdered, Ordered
<1> QED BY <1>1, <1>2, <1>3, TypeCorrect, PTL DEF Spec

-----------------------------------------------------------------------------
(* The source: which of its lexemes became which tokens, and where.        *)

SourceOK == origin.content \in Contents

LEMMA SourceTypes ==
    ASSUME SourceOK
    PROVE  /\ origin.content \in Seq(Lexeme) /\ Len(origin.content) \in Nat
           /\ DOMAIN origin.content = 1 .. Len(origin.content)
           /\ \A i \in 1 .. Len(origin.content) :
                  /\ origin.content[i].size \in Nat
                  /\ origin.content[i].type # "END_OF_FILE"
                  /\ i < Len(origin.content) /\ ~BecomesToken(i) => BecomesToken(i + 1)
<1>1. origin.content \in Seq(Lexeme) /\ Len(origin.content) \in Nat
  BY ContentsAssumption, LenProperties DEF SourceOK
<1>2. ASSUME NEW i \in 1 .. Len(origin.content)
      PROVE  origin.content[i].size \in Nat /\ origin.content[i].type # "END_OF_FILE"
  <2>1. origin.content[i] \in Lexeme
    BY <1>1, <1>2, ElementOfSeq
  <2> QED BY <2>1 DEF Lexeme
<1>3. ASSUME NEW i \in 1 .. Len(origin.content), i < Len(origin.content), ~BecomesToken(i)
      PROVE  BecomesToken(i + 1)
  <2>1. i \in 1 .. Len(origin.content) - 1
    BY <1>1, <1>3
  <2>2. origin.content[i].type = "WHITESPACE"
    BY <1>3 DEF BecomesToken
  <2>3. origin.content[i].type # origin.content[i + 1].type
    BY <2>1, <2>2, ContentsAssumption DEF SourceOK
  <2> QED BY <2>2, <2>3 DEF BecomesToken
<1> QED BY <1>1, <1>2, <1>3, LenProperties

(* Counting one lexeme more *)
LEMMA OneLexemeMore ==
    ASSUME NEW n \in Nat
    PROVE  /\ TokensUpTo(n) \in Nat /\ TokensUpTo(0) = 0
           /\ TokensUpTo(n + 1) = IF BecomesToken(n + 1) THEN TokensUpTo(n) + 1
                                  ELSE TokensUpTo(n)
<1> DEFINE T(m) == {k \in 1 .. m : BecomesToken(k)}
<1>1. \A m \in Nat : IsFiniteSet(T(m)) /\ Cardinality(T(m)) \in Nat
  <2> TAKE m \in Nat
  <2>1. IsFiniteSet(1 .. m) /\ T(m) \in SUBSET (1 .. m)
    BY FS_Interval
  <2> HIDE DEF T
  <2> QED BY <2>1, FS_Subset, FS_CardinalityType
<1>2. T(0) = {}
  OBVIOUS
<1>3. CASE BecomesToken(n + 1)
  <2>1. T(n + 1) = T(n) \cup {n + 1} /\ n + 1 \notin T(n)
    BY <1>3
  <2> HIDE DEF T
  <2>2. Cardinality(T(n + 1)) = Cardinality(T(n)) + 1
    BY <1>1, <2>1, FS_AddElement
  <2> QED BY <1>1, <1>2, <1>3, <2>2, FS_EmptySet DEF TokensUpTo, T
<1>4. CASE ~BecomesToken(n + 1)
  <2>1. T(n + 1) = T(n)
    BY <1>4
  <2> QED BY <1>1, <1>2, <1>4, <2>1, FS_EmptySet DEF TokensUpTo
<1> QED BY <1>3, <1>4

(* Tokens are numbered in the order of their lexemes, from 1 on. *)
LEMMA NumbersGrow ==
    ASSUME NEW i \in Nat, NEW j \in Nat, i <= j
    PROVE  /\ TokensUpTo(i) <= TokensUpTo(j)
           /\ i < j /\ BecomesToken(j) => TokensUpTo(i) < TokensUpTo(j)
           /\ i # 0 /\ BecomesToken(i) => TokensUpTo(i) \in 1 .. TokensUpTo(j)
<1>1. \A m \in Nat : TokensUpTo(m) \in Nat
  BY OneLexemeMore
<1>2. ASSUME NEW k \in Nat, NEW l \in Nat, k <= l
      PROVE  TokensUpTo(k) <= TokensUpTo(l)
  <2> DEFINE T(m) == {n \in 1 .. m : BecomesToken(n)}
  <2>1. T(k) \in SUBSET T(l) /\ T(l) \in SUBSET (1 .. l) /\ IsFiniteSet(1 .. l)
    BY <1>2, FS_Interval
  <2> HIDE DEF T
  <2>2. Cardinality(T(k)) <= Cardinality(T(l))
    BY <2>1, FS_Subset
  <2> QED BY <2>2 DEF TokensUpTo, T
<1>3. ASSUME NEW m \in Nat, m # 0, BecomesToken(m)
      PROVE  m - 1 \in Nat /\ TokensUpTo(m) = TokensUpTo(m - 1) + 1
  <2>1. m - 1 \in Nat /\ (m - 1) + 1 = m
    BY <1>3
  <2> QED BY <1>3, <2>1, OneLexemeMore
<1>4. i < j /\ BecomesToken(j) => TokensUpTo(i) < TokensUpTo(j)
  <2> SUFFICES ASSUME i < j, BecomesToken(j) PROVE TokensUpTo(i) < TokensUpTo(j)
    OBVIOUS
  <2>1. i <= j - 1 /\ j # 0 /\ j - 1 \in Nat
    OBVIOUS
  <2>2. TokensUpTo(i) <= TokensUpTo(j - 1) /\ TokensUpTo(j) = TokensUpTo(j - 1) + 1
    BY <1>2, <1>3, <2>1
  <2> QED BY <1>1, <2>1, <2>2
<1>5. i # 0 /\ BecomesToken(i) => TokensUpTo(i) \in 1 .. TokensUpTo(j)
  BY <1>1, <1>2, <1>3
<1> QED BY <1>2, <1>4, <1>5

LEMMA OffsetsAre ==
    ASSUME SourceOK
    PROVE  /\ \A n \in 0 .. Len(origin.content) : Offsets[n] \in Nat
           /\ \A n \in 1 .. Len(origin.content) :
                  Offsets[n] = Offsets[n - 1] + origin.content[n].size
<1> DEFINE N == Len(origin.content)
           Sum(v, n) == v + origin.content[n].size
           step == [n \in 1 .. N |-> [v \in Nat |-> Sum(v, n)]]
           Solves(f) == f = [i \in 0 .. N |-> IF i = 0 THEN 0 ELSE Sum(f[i - 1], i)]
           before == CHOOSE f : Solves(f)
<1>1. /\ N \in Nat /\ \A n \in 1 .. N : origin.content[n].size \in Nat
      /\ 0 \in 0 .. N
      /\ \A n \in 1 .. N : n \in 0 .. N /\ n - 1 \in 0 .. N /\ n # 0
  BY SourceTypes
<1>2. Offsets = before
  BY DEF Offsets
<1>3. \A n \in 1 .. N, v \in Nat : Sum(v, n) \in Nat
  BY <1>1
<1> HIDE DEF Sum, N
<1>4. \E f : Solves(f)
  <2>1. step \in [1 .. N -> [Nat -> Nat]]
    BY <1>3
  <2>2. PICK f \in [0 .. N -> Nat] : Runs(f, N, 0, step)
    <3> HIDE DEF step
    <3> QED BY <1>1, <2>1, RunsExist
  <2>3. f[0] = 0 /\ \A n \in 1 .. N : f[n] = Sum(f[n - 1], n)
    BY <1>1, <2>2 DEF Runs
  <2> QED BY <1>1, <2>2, <2>3
<1>5. before[0] = 0 /\ \A n \in 1 .. N : before[n] = Sum(before[n - 1], n)
  <2>1. Solves(before)
    <3> HIDE DEF Solves
    <3> QED BY <1>4
  <2> HIDE DEF before
  <2> QED BY <1>1, <2>1
<1> HIDE DEF before
<1>6. \A n \in 0 .. N : before[n] \in Nat
  <2>1. before[0] \in Nat
    BY <1>5
  <2>2. \A n \in 1 .. N : before[n - 1] \in Nat => before[n] \in Nat
    BY <1>3, <1>5
  <2> QED BY <1>1, <2>1, <2>2, AllResults
<1> QED BY <1>2, <1>5, <1>6 DEF Sum, N

-----------------------------------------------------------------------------
(* Numbers that are the same but for the width of a position *)

Same(x, y) == \E q \in Int : x - y = q * Word

LEMMA Division ==
    ASSUME NEW n \in Nat, n > 0, NEW x \in Int
    PROVE  /\ x % n \in 0 .. n - 1 /\ x \div n \in Int
           /\ x = n * (x \div n) + (x % n)
OBVIOUS

LEMMA Remainder ==
    ASSUME NEW n \in Nat, n > 0, NEW x \in Int, NEW r \in 0 .. n - 1, NEW q \in Int,
           x = r + q * n
    PROVE  x % n = r
OBVIOUS

LEMMA SameMoves ==
    /\ \A x \in Int : Same(x % Word, x) /\ Same(x, x)
    /\ \A x, y, z \in Int : Same(x, y) /\ Same(y, z) => Same(x, z)
    /\ \A x, y, z \in Int : Same(x, y) => Same(x + z, y + z)
<1>1. Word \in Nat /\ Word > 0
  BY PositionsAssumption
<1>2. ASSUME NEW x \in Int PROVE Same(x % Word, x)
  <2> DEFINE d == x \div Word
             r == x % Word
  <2>1. x = Word * d + r /\ d \in Int /\ r \in Int
    BY <1>1, Division
  <2> HIDE DEF d, r
  <2>2. -d \in Int /\ r - x = (-d) * Word
    BY <1>1, <2>1
  <2>3. Same(r, x)
    BY <2>2 DEF Same
  <2> QED BY <2>3 DEF r
<1>3. ASSUME NEW x \in Int PROVE Same(x, x)
  <2>1. 0 \in Int /\ x - x = 0 * Word
    BY <1>1
  <2> QED BY <2>1 DEF Same
<1>4. ASSUME NEW x \in Int, NEW y \in Int, NEW z \in Int, Same(x, y), Same(y, z)
      PROVE  Same(x, z)
  <2>1. PICK q \in Int : x - y = q * Word
    BY <1>4 DEF Same
  <2>2. PICK r \in Int : y - z = r * Word
    BY <1>4 DEF Same
  <2>3. q + r \in Int /\ x - z = (q + r) * Word
    BY <1>1, <2>1, <2>2
  <2> QED BY <2>3 DEF Same
<1>5. ASSUME NEW x \in Int, NEW y \in Int, NEW z \in Int, Same(x, y)
      PROVE  Same(x + z, y + z)
  <2>1. (x + z) - (y + z) = x - y
    OBVIOUS
  <2> QED BY <1>5, <2>1 DEF Same
<1> QED BY <1>2, <1>3, <1>4, <1>5

LEMMA SameModulo ==
    ASSUME NEW x \in Int, NEW y \in Int, Same(x, y)
    PROVE  x % Word = y % Word
<1>1. Word \in Nat /\ Word > 0
  BY PositionsAssumption
<1> DEFINE d == y \div Word
           r == y % Word
<1>2. y = Word * d + r /\ d \in Int /\ r \in 0 .. Word - 1
  BY <1>1, Division
<1>3. PICK q \in Int : x - y = q * Word
  BY DEF Same
<1> HIDE DEF d, r
<1>4. q + d \in Int /\ x = r + (q + d) * Word
  BY <1>1, <1>2, <1>3
<1>5. x % Word = r
  BY <1>1, <1>2, <1>4, Remainder
<1> QED BY <1>5 DEF r

-----------------------------------------------------------------------------
(* The first cut lexemes of the source are gone and content is left ...    *)
LeftIs(cut, content) ==
    /\ cut \in 0 .. Len(origin.content) /\ content \in Seq(Lexeme)
    /\ Len(content) = Len(origin.content) - cut
    /\ \A i \in 1 .. Len(content) : content[i] = origin.content[cut + i]
    /\ \A i \in 1 .. cut : origin.content[i].type # "UNLEXABLE"

(* ... the tokens are theirs, and behind the end of the source the one     *)
(* that says so, again and again ...                                       *)
TokensAre(cut, content, tokens) ==
    /\ tokens \in Seq(Token)
    /\ TokensUpTo(cut) <= Len(tokens)
    /\ TokensUpTo(cut) < Len(tokens) => content = <<>>
    /\ \A m \in 1 .. Len(tokens) :
           m > TokensUpTo(cut) <=> tokens[m].type = "END_OF_FILE"
    /\ \A i \in 1 .. cut :
           BecomesToken(i) => tokens[TokensUpTo(i)].type = origin.content[i].type

(* ... each as wide as its text, and from the start of each to the next    *)
(* ones in its line, and to the position, it is as far as in the source.   *)
OnLine(k, v, l, w) ==
    (\A m \in k + 1 .. l : origin.content[m].type # "NEWLINE")
        => Same(w - v, Offsets[l] - Offsets[k])

StartOf(tokens, i) == tokens[TokensUpTo(i)].area.start

IsAsWide(tokens, i) ==
    tokens[TokensUpTo(i)].area.end = (StartOf(tokens, i) + origin.content[i].size) % Word

AreasAre(cut, position, tokens) ==
    \A i \in 1 .. cut : BecomesToken(i) =>
        /\ IsAsWide(tokens, i)
        /\ OnLine(i - 1, StartOf(tokens, i), cut, position)
        /\ \A j \in i + 1 .. cut : BecomesToken(j) =>
               OnLine(i - 1, StartOf(tokens, i), j - 1, StartOf(tokens, j))

SourceAt(content, position, tokens) ==
    \E cut : LeftIs(cut, content) /\ TokensAre(cut, content, tokens)
                /\ AreasAre(cut, position, tokens)

SourceInv == SourceOK /\ SourceAt(content_, position_, produced)

-----------------------------------------------------------------------------
LEMMA OnLineFurther ==
    ASSUME SourceOK, NEW cut \in Nat, cut + 1 <= Len(origin.content), NEW k \in 0 .. cut,
           NEW v \in Int, NEW w \in Int, OnLine(k, v, cut, w), NEW further,
           origin.content[cut + 1].type # "NEWLINE" =>
               further = (w + origin.content[cut + 1].size) % Word
    PROVE  OnLine(k, v, cut + 1, further)
<1> DEFINE size == origin.content[cut + 1].size
<1> SUFFICES ASSUME \A m \in k + 1 .. cut + 1 : origin.content[m].type # "NEWLINE"
             PROVE  Same(further - v, Offsets[cut + 1] - Offsets[k])
  BY DEF OnLine
<1>1. Len(origin.content) \in Nat /\ cut + 1 \in 1 .. Len(origin.content)
      /\ k \in 0 .. Len(origin.content) /\ cut \in 0 .. Len(origin.content)
      /\ (cut + 1) - 1 = cut
  BY SourceTypes
<1>2. size \in Nat
  BY <1>1, SourceTypes
<1>3. further = (w + size) % Word
  BY <1>1
<1>4. Same(w - v, Offsets[cut] - Offsets[k])
  BY <1>1 DEF OnLine
<1>5. /\ Offsets[k] \in Int /\ Offsets[cut] \in Int /\ Offsets[cut + 1] \in Int
      /\ Offsets[cut + 1] = Offsets[cut] + size
  BY <1>1, OffsetsAre
<1> DEFINE a == w - v
           b == Offsets[cut] - Offsets[k]
           c == (w + size) % Word
<1> HIDE DEF size
<1>6. Word \in Nat /\ Word > 0
  BY PositionsAssumption
<1>7. c \in Int /\ Same(c, w + size)
  <2>1. w + size \in Int
    BY <1>2
  <2> QED BY <1>6, <2>1, Division, SameMoves
<1>8. Same(c - v, a + size)
  <2>1. Same(c + (-v), (w + size) + (-v))
    <3>1. w + size \in Int /\ -v \in Int
      BY <1>2
    <3> HIDE DEF c
    <3> QED BY <1>7, <3>1, SameMoves
  <2>2. c + (-v) = c - v /\ (w + size) + (-v) = a + size
    BY <1>2, <1>7
  <2> QED BY <2>1, <2>2
<1>9. Same(a + size, b + size)
  <2>1. a \in Int /\ b \in Int
    BY <1>5
  <2> HIDE DEF a, b
  <2>2. Same(a, b)
    BY <1>4 DEF a, b
  <2>3. size \in Int
    BY <1>2
  <2> QED BY <2>1, <2>2, <2>3, SameMoves
<1>10. b + size = Offsets[cut + 1] - Offsets[k]
  BY <1>2, <1>5
<1>11. c - v \in Int /\ a + size \in Int /\ b + size \in Int
  BY <1>2, <1>5, <1>7
<1>12. Same(c - v, b + size)
  <2> HIDE DEF a, b, c
  <2> QED BY <1>8, <1>9, <1>11, SameMoves
<1> QED BY <1>3, <1>10, <1>12

(* The front of what is left is the next lexeme of the source. *)
LEMMA LeftFront ==
    ASSUME SourceOK, NEW cut, NEW content, LeftIs(cut, content), content # <<>>
    PROVE  /\ cut \in Nat /\ cut + 1 \in 1 .. Len(origin.content)
           /\ Head(content) = origin.content[cut + 1] /\ Head(content) \in Lexeme
           /\ Head(content).type # "UNLEXABLE" => LeftIs(cut + 1, Tail(content))
<1>1. /\ Len(origin.content) \in Nat /\ Len(content) \in Nat /\ cut \in Nat
      /\ cut <= Len(origin.content) /\ content \in Seq(Lexeme)
      /\ Len(content) = Len(origin.content) - cut /\ Len(content) # 0
  BY SourceTypes, EmptySeq, LenProperties DEF LeftIs
<1>2. cut + 1 \in 1 .. Len(origin.content) /\ 1 \in 1 .. Len(content)
  BY <1>1
<1>3. /\ Head(content) = content[1] /\ Head(content) \in Lexeme
      /\ Tail(content) \in Seq(Lexeme) /\ Len(Tail(content)) = Len(content) - 1
      /\ \A i \in 1 .. Len(content) - 1 : Tail(content)[i] = content[i + 1]
  BY <1>1, HeadTailProperties
<1>4. Head(content) = origin.content[cut + 1]
  BY <1>2, <1>3 DEF LeftIs
<1>5. ASSUME Head(content).type # "UNLEXABLE"
      PROVE  LeftIs(cut + 1, Tail(content))
  <2>1. /\ cut + 1 \in 0 .. Len(origin.content)
        /\ Len(Tail(content)) = Len(origin.content) - (cut + 1)
    BY <1>1, <1>2, <1>3
  <2>2. ASSUME NEW i \in 1 .. Len(Tail(content))
        PROVE  Tail(content)[i] = origin.content[(cut + 1) + i]
    <3>1. i \in 1 .. Len(content) - 1 /\ i + 1 \in 1 .. Len(content)
          /\ cut + (i + 1) = (cut + 1) + i
      BY <1>1, <1>3
    <3> QED BY <1>3, <3>1 DEF LeftIs
  <2>3. ASSUME NEW i \in 1 .. cut + 1 PROVE origin.content[i].type # "UNLEXABLE"
    <3>1. i \in 1 .. cut \/ i = cut + 1
      BY <1>1
    <3> QED BY <1>4, <1>5, <3>1 DEF LeftIs
  <2> QED BY <1>3, <2>1, <2>2, <2>3 DEF LeftIs
<1> QED BY <1>1, <1>2, <1>3, <1>4, <1>5

(* The start of a token that was lexed is a number. *)
LEMMA StartsAre ==
    ASSUME SourceOK, NEW cut \in Nat, NEW content, NEW tokens, TokensAre(cut, content, tokens),
           NEW i \in 1 .. cut, BecomesToken(i)
    PROVE  /\ TokensUpTo(i) \in 1 .. Len(tokens) /\ TokensUpTo(i) <= TokensUpTo(cut)
           /\ StartOf(tokens, i) \in Int
<1>1. /\ TokensUpTo(i) \in 1 .. TokensUpTo(cut) /\ TokensUpTo(cut) \in Nat
      /\ TokensUpTo(i) \in Nat
  BY NumbersGrow, OneLexemeMore
<1>2. tokens \in Seq(Token) /\ Len(tokens) \in Nat /\ TokensUpTo(cut) <= Len(tokens)
  BY LenProperties DEF TokensAre
<1>3. TokensUpTo(i) \in 1 .. Len(tokens)
  BY <1>1, <1>2
<1>4. tokens[TokensUpTo(i)] \in Token
  BY <1>2, <1>3, ElementOfSeq
<1> QED BY <1>1, <1>3, <1>4 DEF StartOf, Token, Area

(* Whitespace is skipped. *)
LEMMA SkippingKeepsSource ==
    ASSUME SourceOK, NEW content, NEW position \in Int, NEW tokens,
           SourceAt(content, position, tokens),
           content # <<>>, Head(content).type = "WHITESPACE"
    PROVE  SourceAt(Tail(content), (position + Head(content).size) % Word, tokens)
<1>1. PICK cut : /\ LeftIs(cut, content) /\ TokensAre(cut, content, tokens)
                 /\ AreasAre(cut, position, tokens)
  BY DEF SourceAt
<1> DEFINE further == (position + Head(content).size) % Word
<1>2. /\ cut \in Nat /\ cut + 1 \in 1 .. Len(origin.content) /\ Len(origin.content) \in Nat
      /\ Head(content) = origin.content[cut + 1] /\ LeftIs(cut + 1, Tail(content))
  BY <1>1, LeftFront, SourceTypes
<1>3. ~BecomesToken(cut + 1) /\ TokensUpTo(cut + 1) = TokensUpTo(cut)
      /\ \A i \in 1 .. cut + 1 : BecomesToken(i) => i \in 1 .. cut
  <2>1. ~BecomesToken(cut + 1)
    BY <1>2 DEF BecomesToken
  <2>2. TokensUpTo(cut + 1) = TokensUpTo(cut)
    BY <1>2, <2>1, OneLexemeMore
  <2>3. \A i \in 1 .. cut + 1 : i # cut + 1 => i \in 1 .. cut
    BY <1>2
  <2> QED BY <2>1, <2>2, <2>3
<1>4. TokensAre(cut + 1, Tail(content), tokens)
  <2>1. TokensUpTo(cut) < Len(tokens) => FALSE
    BY <1>1 DEF TokensAre
  <2> QED BY <1>1, <1>3, <2>1 DEF TokensAre
<1>5. AreasAre(cut + 1, further, tokens)
  <2> SUFFICES ASSUME NEW i \in 1 .. cut + 1, BecomesToken(i)
               PROVE  /\ IsAsWide(tokens, i)
                      /\ OnLine(i - 1, StartOf(tokens, i), cut + 1, further)
                      /\ \A j \in i + 1 .. cut + 1 : BecomesToken(j) =>
                             OnLine(i - 1, StartOf(tokens, i), j - 1, StartOf(tokens, j))
    BY DEF AreasAre
  <2>1. i \in 1 .. cut
    BY <1>3
  <2>2. IsAsWide(tokens, i) /\ OnLine(i - 1, StartOf(tokens, i), cut, position)
    BY <1>1, <2>1 DEF AreasAre
  <2>3. StartOf(tokens, i) \in Int /\ i - 1 \in 0 .. cut /\ cut + 1 <= Len(origin.content)
    BY <1>1, <1>2, <2>1, StartsAre
  <2>4. OnLine(i - 1, StartOf(tokens, i), cut + 1, further)
    BY <1>2, <2>2, <2>3, OnLineFurther
  <2>5. ASSUME NEW j \in i + 1 .. cut + 1, BecomesToken(j)
        PROVE  OnLine(i - 1, StartOf(tokens, i), j - 1, StartOf(tokens, j))
    <3>1. j \in 1 .. cut + 1
      BY <1>2
    <3>2. j \in 1 .. cut
      BY <1>3, <2>5, <3>1
    <3>3. j \in i + 1 .. cut
      BY <1>2, <3>2
    <3> QED BY <1>1, <2>1, <2>5, <3>3 DEF AreasAre
  <2> QED BY <2>2, <2>4, <2>5
<1> QED BY <1>2, <1>4, <1>5 DEF SourceAt

(* The next lexeme becomes a token that starts at the position. *)
LEMMA LexingKeepsSource ==
    ASSUME SourceOK, NEW content, NEW position \in Int, NEW tokens,
           SourceAt(content, position, tokens),
           content # <<>>, Head(content).type \notin {"WHITESPACE", "UNLEXABLE"},
           NEW token \in Token, token.type = Head(content).type, token.area.start = position,
           token.area.end = (position + Head(content).size) % Word,
           NEW further,
           Head(content).type # "NEWLINE" =>
               further = (position + Head(content).size) % Word
    PROVE  SourceAt(Tail(content), further, Append(tokens, token))
<1>1. PICK cut : /\ LeftIs(cut, content) /\ TokensAre(cut, content, tokens)
                 /\ AreasAre(cut, position, tokens)
  BY DEF SourceAt
<1> DEFINE n == Len(tokens)
           more == Append(tokens, token)
<1>2. /\ cut \in Nat /\ cut + 1 \in 1 .. Len(origin.content) /\ Len(origin.content) \in Nat
      /\ Head(content) = origin.content[cut + 1] /\ LeftIs(cut + 1, Tail(content))
  BY <1>1, LeftFront, SourceTypes
<1>3. n \in Nat /\ n = TokensUpTo(cut) /\ TokensUpTo(cut + 1) = n + 1
  <2>1. BecomesToken(cut + 1)
    BY <1>2 DEF BecomesToken
  <2>2. TokensUpTo(cut + 1) = TokensUpTo(cut) + 1 /\ TokensUpTo(cut) \in Nat
    BY <1>2, <2>1, OneLexemeMore
  <2>3. n \in Nat /\ TokensUpTo(cut) <= n /\ ~(TokensUpTo(cut) < n)
    BY <1>1, LenProperties DEF TokensAre
  <2> QED BY <2>2, <2>3
<1>4. /\ more \in Seq(Token) /\ Len(more) = n + 1 /\ more[n + 1] = token
      /\ \A m \in 1 .. n : more[m] = tokens[m]
  BY <1>1, AppendProperties DEF TokensAre
<1> HIDE DEF n, more
<1>5. \A i \in 1 .. cut + 1 : i \in 1 .. cut \/ i = cut + 1
  BY <1>2
<1>6. ASSUME NEW i \in 1 .. cut, BecomesToken(i)
      PROVE  /\ TokensUpTo(i) \in 1 .. n /\ StartOf(tokens, i) \in Int
             /\ more[TokensUpTo(i)] = tokens[TokensUpTo(i)]
             /\ StartOf(more, i) = StartOf(tokens, i)
             /\ IsAsWide(tokens, i) => IsAsWide(more, i)
  <2>1. TokensUpTo(i) \in 1 .. n /\ StartOf(tokens, i) \in Int
    BY <1>1, <1>2, <1>6, StartsAre DEF n
  <2> QED BY <1>4, <2>1 DEF StartOf, IsAsWide
<1>7. StartOf(more, cut + 1) = position /\ IsAsWide(more, cut + 1)
  BY <1>2, <1>3, <1>4 DEF StartOf, IsAsWide
<1>8. TokensAre(cut + 1, Tail(content), more)
  <2>1. ASSUME NEW m \in 1 .. Len(more)
        PROVE  m > TokensUpTo(cut + 1) <=> more[m].type = "END_OF_FILE"
    <3>1. ~(m > TokensUpTo(cut + 1))
      BY <1>3, <1>4
    <3>2. CASE m \in 1 .. n
      <4>1. ~(m > TokensUpTo(cut))
        BY <1>3, <3>2
      <4> QED BY <1>1, <1>4, <3>1, <3>2, <4>1 DEF TokensAre, n
    <3>3. CASE m = n + 1
      <4>1. token.type # "END_OF_FILE"
        BY <1>2, SourceTypes
      <4> QED BY <1>4, <3>1, <3>3, <4>1
    <3> QED BY <1>3, <1>4, <3>2, <3>3
  <2>2. ASSUME NEW i \in 1 .. cut + 1, BecomesToken(i)
        PROVE  more[TokensUpTo(i)].type = origin.content[i].type
    <3>1. CASE i = cut + 1
      BY <1>2, <1>3, <1>4, <3>1
    <3>2. CASE i \in 1 .. cut
      BY <1>1, <1>6, <2>2, <3>2 DEF TokensAre
    <3> QED BY <1>5, <3>1, <3>2
  <2>3. TokensUpTo(cut + 1) <= Len(more) /\ ~(TokensUpTo(cut + 1) < Len(more))
    BY <1>3, <1>4
  <2> QED BY <1>4, <2>1, <2>2, <2>3 DEF TokensAre
<1>9. AreasAre(cut + 1, further, more)
  <2> SUFFICES ASSUME NEW i \in 1 .. cut + 1, BecomesToken(i)
               PROVE  /\ IsAsWide(more, i)
                      /\ OnLine(i - 1, StartOf(more, i), cut + 1, further)
                      /\ \A j \in i + 1 .. cut + 1 : BecomesToken(j) =>
                             OnLine(i - 1, StartOf(more, i), j - 1, StartOf(more, j))
    BY DEF AreasAre
  <2>1. /\ OnLine(i - 1, StartOf(more, i), cut, position) /\ StartOf(more, i) \in Int
        /\ IsAsWide(more, i)
    <3>1. CASE i = cut + 1
      <4>1. /\ i - 1 = cut /\ Offsets[cut] \in Int
            /\ position - position = 0 /\ Offsets[cut] - Offsets[cut] = 0
        <5>1. cut \in 0 .. Len(origin.content)
          BY <1>2
        <5>2. Offsets[cut] \in Nat
          BY <5>1, OffsetsAre
        <5> QED BY <1>2, <3>1, <5>2
      <4>2. Same(0, 0)
        BY SameMoves
      <4>3. OnLine(cut, position, cut, position)
        BY <4>1, <4>2 DEF OnLine
      <4> QED BY <1>7, <3>1, <4>1, <4>3
    <3>2. CASE i \in 1 .. cut
      <4>1. IsAsWide(tokens, i) /\ OnLine(i - 1, StartOf(tokens, i), cut, position)
        BY <1>1, <3>2 DEF AreasAre
      <4> QED BY <1>6, <3>2, <4>1
    <3> QED BY <1>5, <3>1, <3>2
  <2>2. OnLine(i - 1, StartOf(more, i), cut + 1, further)
    <3>1. i - 1 \in 0 .. cut /\ cut + 1 <= Len(origin.content)
      BY <1>2
    <3> QED BY <1>2, <2>1, <3>1, OnLineFurther
  <2>3. ASSUME NEW j \in i + 1 .. cut + 1, BecomesToken(j)
        PROVE  OnLine(i - 1, StartOf(more, i), j - 1, StartOf(more, j))
    <3>1. j \in 1 .. cut + 1
      BY <1>2
    <3>2. CASE j = cut + 1
      <4>1. j - 1 = cut
        BY <1>2, <3>2
      <4> QED BY <1>7, <2>1, <3>2, <4>1
    <3>3. CASE j \in 1 .. cut
      <4>1. i \in 1 .. cut /\ j \in i + 1 .. cut
        BY <1>2, <3>3
      <4>2. OnLine(i - 1, StartOf(tokens, i), j - 1, StartOf(tokens, j))
        BY <1>1, <2>3, <4>1 DEF AreasAre
      <4> QED BY <1>6, <2>3, <3>3, <4>1, <4>2
    <3> QED BY <1>5, <3>1, <3>2, <3>3
  <2> QED BY <2>1, <2>2, <2>3
<1> QED BY <1>2, <1>8, <1>9 DEF SourceAt, more

(* At the end of the source there is a token for the end. *)
LEMMA EndingKeepsSource ==
    ASSUME SourceOK, NEW position \in Int, NEW tokens,
           SourceAt(<<>>, position, tokens),
           NEW token \in Token, token.type = "END_OF_FILE"
    PROVE  SourceAt(<<>>, position, Append(tokens, token))
<1>1. PICK cut : /\ LeftIs(cut, <<>>) /\ TokensAre(cut, <<>>, tokens)
                 /\ AreasAre(cut, position, tokens)
  BY DEF SourceAt
<1> DEFINE n == Len(tokens)
           more == Append(tokens, token)
<1>2. cut \in Nat
  BY <1>1, SourceTypes DEF LeftIs
<1>3. n \in Nat /\ TokensUpTo(cut) <= n /\ TokensUpTo(cut) \in Nat
  BY <1>1, <1>2, OneLexemeMore, LenProperties DEF TokensAre
<1>4. /\ more \in Seq(Token) /\ Len(more) = n + 1 /\ more[n + 1] = token
      /\ \A m \in 1 .. n : more[m] = tokens[m]
  BY <1>1, AppendProperties DEF TokensAre
<1> HIDE DEF n, more
<1>5. ASSUME NEW i \in 1 .. cut, BecomesToken(i)
      PROVE  /\ more[TokensUpTo(i)] = tokens[TokensUpTo(i)]
             /\ StartOf(more, i) = StartOf(tokens, i)
             /\ IsAsWide(tokens, i) => IsAsWide(more, i)
  <2>1. TokensUpTo(i) \in 1 .. n
    BY <1>1, <1>2, <1>5, StartsAre DEF n
  <2> QED BY <1>4, <2>1 DEF StartOf, IsAsWide
<1>6. TokensAre(cut, <<>>, more)
  <2>1. ASSUME NEW m \in 1 .. Len(more)
        PROVE  m > TokensUpTo(cut) <=> more[m].type = "END_OF_FILE"
    <3>1. CASE m \in 1 .. n
      BY <1>1, <1>4, <3>1 DEF TokensAre, n
    <3>2. CASE m = n + 1
      BY <1>3, <1>4, <3>2
    <3> QED BY <1>3, <1>4, <3>1, <3>2
  <2>2. TokensUpTo(cut) <= Len(more)
    BY <1>3, <1>4
  <2> QED BY <1>1, <1>4, <1>5, <2>1, <2>2 DEF TokensAre
<1>7. AreasAre(cut, position, more)
  <2> SUFFICES ASSUME NEW i \in 1 .. cut, BecomesToken(i)
               PROVE  /\ IsAsWide(more, i)
                      /\ OnLine(i - 1, StartOf(more, i), cut, position)
                      /\ \A j \in i + 1 .. cut : BecomesToken(j) =>
                             OnLine(i - 1, StartOf(more, i), j - 1, StartOf(more, j))
    BY DEF AreasAre
  <2>1. \A j \in i + 1 .. cut : j \in 1 .. cut
    BY <1>2
  <2> QED BY <1>1, <1>5, <2>1 DEF AreasAre
<1> QED BY <1>1, <1>6, <1>7 DEF SourceAt, more

-----------------------------------------------------------------------------
LEMMA SpaceKeepsSource ==
    ASSUME TypeOK, SourceInv
    PROVE  /\ SourceAt(ContentAfterSpace, Start, produced)
           /\ ContentAfterSpace # <<>> => Head(ContentAfterSpace).type # "WHITESPACE"
<1>1. position_ \in Int
  BY PositionsAssumption DEF TypeOK
<1>2. CASE ~AtWhitespace
  BY <1>2 DEF AtWhitespace, ContentAfterSpace, Start, SourceInv
<1>3. CASE AtWhitespace
  <2>1. /\ content_ # <<>> /\ Head(content_).type = "WHITESPACE"
        /\ ContentAfterSpace = Tail(content_)
        /\ Start = (position_ + Head(content_).size) % Word
    BY <1>3 DEF AtWhitespace, ContentAfterSpace, Start
  <2>2. SourceAt(Tail(content_), (position_ + Head(content_).size) % Word, produced)
    BY <1>1, <2>1, SkippingKeepsSource DEF SourceInv
  <2>3. ASSUME Tail(content_) # <<>> PROVE Head(Tail(content_)).type # "WHITESPACE"
    <3>1. PICK cut : LeftIs(cut, content_)
      BY DEF SourceInv, SourceAt
    <3>2. /\ cut \in Nat /\ Head(content_) = origin.content[cut + 1]
          /\ cut + 1 \in 1 .. Len(origin.content) /\ LeftIs(cut + 1, Tail(content_))
      BY <2>1, <3>1, LeftFront DEF SourceInv
    <3>3. /\ (cut + 1) + 1 \in 1 .. Len(origin.content)
          /\ Head(Tail(content_)) = origin.content[(cut + 1) + 1]
      BY <2>3, <3>2, LeftFront DEF SourceInv
    <3>4. ~BecomesToken(cut + 1)
      BY <2>1, <3>2 DEF BecomesToken
    <3>5. cut + 1 < Len(origin.content)
      BY <3>2, <3>3, SourceTypes DEF SourceInv
    <3>6. BecomesToken((cut + 1) + 1)
      BY <3>2, <3>4, <3>5, SourceTypes DEF SourceInv
    <3> QED BY <3>3, <3>6 DEF BecomesToken
  <2> QED BY <2>1, <2>2, <2>3
<1> QED BY <1>2, <1>3

(* lexNext, whether it finds a token or not *)
LEMMA LexIntoKeepsSource ==
    ASSUME TypeOK, SourceInv, NEW buffer, LexInto(buffer)
    PROVE  SourceAt(content_', position_', produced')
<1>1. /\ SourceAt(ContentAfterSpace, Start, produced) /\ SourceOK
      /\ ContentAfterSpace # <<>> => Head(ContentAfterSpace).type # "WHITESPACE"
  BY SpaceKeepsSource DEF SourceInv
<1>2. Start \in Int /\ ContentAfterSpace \in Seq(Lexeme)
  BY SpaceTypes, PositionsAssumption
<1>3. CASE ContentAfterSpace = <<>>
  <2>1. /\ content_' = <<>> /\ position_' = Start
        /\ produced' = Append(produced, TokenAt("END_OF_FILE", 0))
    BY <1>3 DEF LexInto
  <2>2. TokenAt("END_OF_FILE", 0) \in Token /\ TokenAt("END_OF_FILE", 0).type = "END_OF_FILE"
    BY TokenAtType DEF TokenTypes, TokenAt
  <2> QED BY <1>1, <1>2, <1>3, <2>1, <2>2, EndingKeepsSource
<1>4. CASE ContentAfterSpace # <<>>
  <2> DEFINE lexeme == Head(ContentAfterSpace)
             token == TokenAt(lexeme.type, lexeme.size)
  <2>1. /\ content_' = Tail(ContentAfterSpace)
        /\ position_' = (Start + Advance(lexeme)) % Word
        /\ produced' = Append(produced, token)
    BY <1>4 DEF LexInto
  <2>2. lexeme \in Lexeme /\ lexeme.type \notin {"WHITESPACE", "UNLEXABLE"}
    BY <1>1, <1>2, <1>4 DEF LexInto, Stuck
  <2>3. lexeme.type \in TokenTypes /\ lexeme.size \in Nat
    BY <2>2 DEF Lexeme
  <2>4. token \in Token
    BY <2>3, TokenAtType
  <2>5. /\ token.type = lexeme.type /\ token.area.start = Start
        /\ token.area.end = (Start + lexeme.size) % Word
    BY DEF TokenAt
  <2>6. lexeme.type # "NEWLINE" => position_' = (Start + lexeme.size) % Word
    BY <2>1 DEF Advance
  <2> HIDE DEF token
  <2> QED BY <1>1, <1>2, <1>4, <2>1, <2>2, <2>4, <2>5, <2>6, LexingKeepsSource
<1> QED BY <1>3, <1>4

LEMMA SourceSame ==
    ASSUME origin' = origin
    PROVE  /\ SourceOK' <=> SourceOK
           /\ \A c, p, t : SourceAt(c, p, t)' <=> SourceAt(c, p, t)
<1>1. \A i : TokensUpTo(i)' = TokensUpTo(i) /\ BecomesToken(i)' = BecomesToken(i)
  BY DEF TokensUpTo, BecomesToken
<1>2. Offsets' = Offsets
  BY DEF Offsets
<1>3. \A cut, c : LeftIs(cut, c)' <=> LeftIs(cut, c)
  BY DEF LeftIs
<1>4. \A cut, c, t : TokensAre(cut, c, t)' <=> TokensAre(cut, c, t)
  BY <1>1 DEF TokensAre
<1>5. \A t, i : StartOf(t, i)' = StartOf(t, i) /\ (IsAsWide(t, i)' <=> IsAsWide(t, i))
  BY <1>1 DEF StartOf, IsAsWide
<1>6. \A k, v, l, w : OnLine(k, v, l, w)' <=> OnLine(k, v, l, w)
  BY <1>2 DEF OnLine
<1>7. \A cut, p, t : AreasAre(cut, p, t)' <=> AreasAre(cut, p, t)
  BY <1>1, <1>5, <1>6 DEF AreasAre
<1>8. \A c, p, t : SourceAt(c, p, t)' <=> SourceAt(c, p, t)
  BY <1>3, <1>4, <1>7 DEF SourceAt
<1> QED BY <1>8 DEF SourceOK

LEMMA SourceHolds == Spec => []SourceInv
<1>1. Init => SourceInv
  <2> SUFFICES ASSUME Init PROVE SourceInv
    OBVIOUS
  <2>1. SourceOK /\ content_ = origin.content /\ produced = <<>>
    BY DEF Init, SourceOK
  <2>2. Len(content_) \in Nat /\ content_ \in Seq(Lexeme)
    BY <2>1, SourceTypes
  <2>3. LeftIs(0, content_)
    BY <2>1, <2>2 DEF LeftIs
  <2>4. TokensUpTo(0) = 0 /\ Len(<<>>) = 0
    BY OneLexemeMore
  <2>5. TokensAre(0, content_, <<>>)
    BY <2>4 DEF TokensAre
  <2>6. AreasAre(0, position_, <<>>)
    BY DEF AreasAre
  <2> QED BY <2>1, <2>3, <2>5, <2>6 DEF SourceInv, SourceAt
<1>2. TypeOK /\ SourceInv /\ [Next]_vars => SourceInv'
  <2> SUFFICES ASSUME TypeOK, SourceInv, [Next]_vars PROVE SourceInv'
    OBVIOUS
  <2>1. origin' = origin
    BY DEF Next, Call, Pop, LexForPeek, PeekFails, PeekAndPopFails, PeekEnds, PopNextIsEnds,
           PeekAndPopEnds, PopTokenTurn, PopTokenEnds, vars
  <2> SUFFICES SourceAt(content_', position_', produced')
    BY <2>1, SourceSame DEF SourceInv
  <2>2. UNCHANGED <<content_, position_, produced>>
            => SourceAt(content_', position_', produced')
    BY DEF SourceInv
  <2>3. \A buffer : LexInto(buffer) => SourceAt(content_', position_', produced')
    BY LexIntoKeepsSource
  <2>4. \A buffer : LexFails(buffer) => SourceAt(content_', position_', produced')
    BY SpaceKeepsSource DEF LexFails
  <2>5. CASE Call BY <2>2, <2>5 DEF Call
  <2>6. CASE Pop BY <2>2, <2>6 DEF Pop
  <2>7. CASE LexForPeek BY <2>3, <2>7 DEF LexForPeek
  <2>8. CASE PeekFails BY <2>4, <2>8 DEF PeekFails
  <2>9. CASE PeekAndPopFails BY <2>4, <2>9 DEF PeekAndPopFails
  <2>10. CASE PeekEnds BY <2>2, <2>10 DEF PeekEnds
  <2>11. CASE PopNextIsEnds BY <2>2, <2>11 DEF PopNextIsEnds
  <2>12. CASE PeekAndPopEnds BY <2>2, <2>12 DEF PeekAndPopEnds
  <2>13. CASE PopTokenTurn BY <2>2, <2>3, <2>4, <2>13 DEF PopTokenTurn
  <2>14. CASE PopTokenEnds BY <2>2, <2>14 DEF PopTokenEnds
  <2>15. CASE UNCHANGED vars BY <2>2, <2>15 DEF vars
  <2> QED BY <2>5, <2>6, <2>7, <2>8, <2>9, <2>10, <2>11, <2>12, <2>13, <2>14, <2>15
          DEF Next
<1> QED BY <1>1, <1>2, TypeCorrect, PTL DEF Spec

(* Whatever the width of a position, and wherever it starts: inside a line *)
(* two areas lie as the texts do in the source, from the start of one to   *)
(* the start and to the end of the other (lexNext, moveForward).           *)
THEOREM AreasKeepTheirDistance == Spec => []AreasOnALine
<1>1. SourceInv => AreasOnALine
  <2> SUFFICES ASSUME SourceInv,
                      NEW i \in DOMAIN origin.content, NEW j \in DOMAIN origin.content,
                      i <= j, BecomesToken(i), BecomesToken(j),
                      TokensUpTo(j) <= Len(produced),
                      \A k \in i .. j - 1 : origin.content[k].type # "NEWLINE"
               PROVE  /\ (StartOf(produced, j) - StartOf(produced, i)) % Word
                             = (Offsets[j - 1] - Offsets[i - 1]) % Word
                      /\ (produced[TokensUpTo(j)].area.end - StartOf(produced, i)) % Word
                             = (Offsets[j] - Offsets[i - 1]) % Word
    BY DEF AreasOnALine, StartOf
  <2> DEFINE v    == StartOf(produced, i)
             w    == StartOf(produced, j)
             size == origin.content[j].size
             end  == produced[TokensUpTo(j)].area.end
  <2>1. /\ SourceOK /\ Len(origin.content) \in Nat
        /\ i \in 1 .. Len(origin.content) /\ j \in 1 .. Len(origin.content)
    BY SourceTypes DEF SourceInv
  <2>2. PICK cut : /\ LeftIs(cut, content_) /\ TokensAre(cut, content_, produced)
                   /\ AreasAre(cut, position_, produced)
    BY DEF SourceInv, SourceAt
  <2>3. cut \in Nat /\ cut <= Len(origin.content)
    BY <2>1, <2>2 DEF LeftIs
  <2>4. j <= cut
    <3> SUFFICES ASSUME cut < j PROVE FALSE
      BY <2>1, <2>3
    <3>1. TokensUpTo(cut) < TokensUpTo(j) /\ TokensUpTo(cut) \in Nat /\ TokensUpTo(j) \in Nat
      <4>1. j \in Nat /\ cut <= j
        BY <2>1, <2>3
      <4> QED BY <2>3, <4>1, NumbersGrow, OneLexemeMore
    <3>2. Len(produced) \in Nat
      BY <2>2, LenProperties DEF TokensAre
    <3>3. TokensUpTo(cut) < Len(produced)
      BY <3>1, <3>2
    <3>4. content_ = <<>>
      BY <2>2, <3>3 DEF TokensAre
    <3>5. Len(content_) = 0 /\ Len(content_) = Len(origin.content) - cut
      BY <2>2, <3>4 DEF LeftIs
    <3> QED BY <2>1, <2>3, <3>5
  <2>5. i \in 1 .. cut /\ j \in 1 .. cut /\ (i = j \/ j \in i + 1 .. cut)
    BY <2>1, <2>3, <2>4
  <2>6. v \in Int /\ w \in Int
    BY <2>1, <2>2, <2>3, <2>5, StartsAre
  <2>7. /\ Offsets[i - 1] \in Int /\ Offsets[j - 1] \in Int /\ Offsets[j] \in Int
        /\ Offsets[j] = Offsets[j - 1] + size /\ size \in Int
    <3>1. i - 1 \in 0 .. Len(origin.content) /\ j - 1 \in 0 .. Len(origin.content)
          /\ j \in 0 .. Len(origin.content)
      BY <2>1
    <3> QED BY <2>1, <3>1, OffsetsAre, SourceTypes
  <2>8. Same(w - v, Offsets[j - 1] - Offsets[i - 1])
    <3>1. CASE i = j
      <4>1. w - v = 0 /\ Offsets[j - 1] - Offsets[i - 1] = 0
        BY <2>6, <2>7, <3>1
      <4> QED BY <4>1, SameMoves
    <3>2. CASE j \in i + 1 .. cut
      <4>1. OnLine(i - 1, v, j - 1, w)
        BY <2>2, <2>5, <3>2 DEF AreasAre
      <4>2. (i - 1) + 1 = i
        BY <2>1
      <4> QED BY <4>1, <4>2 DEF OnLine
    <3> QED BY <2>5, <3>1, <3>2
  <2>9. end = (w + size) % Word
    BY <2>2, <2>5 DEF AreasAre, IsAsWide
  <2> HIDE DEF v, w, size, end
  <2>10. end \in Int /\ Same(end, w + size)
    <3>1. Word \in Nat /\ Word > 0 /\ w + size \in Int
      BY <2>6, <2>7, PositionsAssumption
    <3> QED BY <2>9, <3>1, Division, SameMoves
  <2>11. Same(end - v, (w - v) + size)
    <3>1. Same(end + (-v), (w + size) + (-v))
      <4>1. w + size \in Int /\ -v \in Int
        BY <2>6, <2>7
      <4> QED BY <2>10, <4>1, SameMoves
    <3>2. end + (-v) = end - v /\ (w + size) + (-v) = (w - v) + size
      BY <2>6, <2>7, <2>10
    <3> QED BY <3>1, <3>2
  <2>12. Same((w - v) + size, Offsets[j] - Offsets[i - 1])
    <3>1. w - v \in Int /\ Offsets[j - 1] - Offsets[i - 1] \in Int
      BY <2>6, <2>7
    <3>2. Same((w - v) + size, (Offsets[j - 1] - Offsets[i - 1]) + size)
      BY <2>7, <2>8, <3>1, SameMoves
    <3>3. (Offsets[j - 1] - Offsets[i - 1]) + size = Offsets[j] - Offsets[i - 1]
      BY <2>7
    <3> QED BY <3>2, <3>3
  <2>13. /\ w - v \in Int /\ end - v \in Int /\ (w - v) + size \in Int
         /\ Offsets[j - 1] - Offsets[i - 1] \in Int /\ Offsets[j] - Offsets[i - 1] \in Int
    BY <2>6, <2>7, <2>10
  <2>14. Same(end - v, Offsets[j] - Offsets[i - 1])
    BY <2>11, <2>12, <2>13, SameMoves
  <2>15. (w - v) % Word = (Offsets[j - 1] - Offsets[i - 1]) % Word
    BY <2>8, <2>13, SameModulo
  <2>16. (end - v) % Word = (Offsets[j] - Offsets[i - 1]) % Word
    BY <2>13, <2>14, SameModulo
  <2> QED BY <2>15, <2>16 DEF v, w, end
<1> QED BY <1>1, SourceHolds, PTL

-----------------------------------------------------------------------------
(* A client that peeks one token at a time, as the parser does. *)

(* Its vector never holds more than one token. *)
OrderInv == TypeOK /\ InSourceOrder /\ Len(lexed_) <= 1

LEMMA EmptyVector ==
    ASSUME OrderInv, lexed_ = <<>>
    PROVE  delivered = produced
<1>1. delivered \o <<>> = delivered
  BY DEF OrderInv, TypeOK
<1> QED BY <1>1 DEF OrderInv, InSourceOrder

(* A sequence of at most one element is nothing but that element. *)
LEMMA OneElement ==
    ASSUME NEW S, NEW s \in Seq(S), s # <<>>, Len(s) <= 1
    PROVE  Len(s) = 1 /\ s = <<s[1]>> /\ s[1] \in S
<1>1. Len(s) = 1
  <2>1. Len(s) \in Nat \ {0}
    BY EmptySeq
  <2> QED BY <2>1
<1>2. s[1] \in S
  BY <1>1, ElementOfSeq
<1>3. <<s[1]>> \in Seq(S) /\ Len(<<s[1]>>) = 1
  BY <1>2
<1>4. \A i \in 1 .. 1 : s[i] = <<s[1]>>[i]
  <2> TAKE i \in 1 .. 1
  <2>1. i = 1 OBVIOUS
  <2> QED BY <2>1
<1>5. s = <<s[1]>>
  BY <1>1, <1>3, <1>4, SeqEqual
<1> QED BY <1>1, <1>2, <1>5

LEMMA EmptyOrOne ==
    ASSUME OrderInv, lexed_ # <<>>
    PROVE  Len(lexed_) = 1 /\ lexed_ = <<lexed_[1]>> /\ lexed_[1] \in Token
<1>1. lexed_ \in Seq(Token) /\ Len(lexed_) <= 1
  BY DEF OrderInv, TypeOK
<1> QED BY <1>1, OneElement

LEMMA OneAtATime ==
    ASSUME MaxPeek = 1, OrderInv
    PROVE  call.n = 1 /\ Len(lexed_) \in 0 .. 1 /\ (Len(lexed_) < 1 <=> lexed_ = <<>>)
<1>1. call.n \in 1 .. 1
  BY CallFields DEF OrderInv
<1>2. Len(lexed_) \in Nat /\ Len(lexed_) <= 1
  BY DEF OrderInv, TypeOK
<1> QED BY <1>1, <1>2, EmptyOrOne

(* What one pop does to a vector that holds a token. *)
LEMMA PopsTheOne ==
    ASSUME OrderInv, lexed_ # <<>>
    PROVE  /\ Popped(1) = lexed_ /\ Rest(1) = <<>>
           /\ delivered \o Popped(1) = produced
<1>1. Len(lexed_) = 1 /\ lexed_ \in Seq(Token)
  BY EmptyOrOne DEF OrderInv, TypeOK
<1>2. SubSeq(lexed_, 1, 1) = lexed_ /\ SubSeq(lexed_, 1, 0) = <<>>
  BY <1>1
<1>3. Popped(1) = lexed_ /\ Rest(1) = <<>>
  BY <1>1, <1>2 DEF Popped, Rest
<1> QED BY <1>3 DEF OrderInv, InSourceOrder

(* lexNext with nothing buffered: the token it finds is the only one that  *)
(* is not handed over.                                                     *)
LEMMA LexesTheNext ==
    ASSUME TypeOK, LexInto(<<>>)
    PROVE  \E token \in Token : /\ lexed_' = <<token>>
                                /\ produced' = Append(produced, token)
                                /\ produced \o lexed_' = produced'
<1>1. <<>> \in Seq(Token) OBVIOUS
<1>2. PICK token \in Token : /\ lexed_' = Append(<<>>, token)
                             /\ produced' = Append(produced, token)
  BY <1>1, LexIntoTypes
<1>3. lexed_' = <<token>>
  BY <1>2
<1>4. produced \o <<token>> = Append(produced, token)
  BY DEF TypeOK
<1> QED BY <1>2, <1>3, <1>4

(* A lexNext that finds a token is never a step that finds none. *)
LEMMA LongerVector ==
    ASSUME TypeOK, LexInto(<<>>)
    PROVE  produced' # produced
<1>1. PICK token \in Token : produced' = Append(produced, token)
  BY LexesTheNext
<1>2. Len(Append(produced, token)) = Len(produced) + 1 /\ Len(produced) \in Nat
  BY DEF TypeOK
<1> QED BY <1>1, <1>2

(* The vector after the operation, by what the operation did: every step   *)
(* of the Lexer leaves it alone, fills it, hands its token over, or does   *)
(* the last two in turn.                                                   *)
Untouched == UNCHANGED <<lexed_, produced, delivered>>
Filled == lexed_ = <<>> /\ LexInto(<<>>) /\ UNCHANGED delivered
Emptied == /\ lexed_ # <<>> /\ lexed_' = <<>>
           /\ delivered' = produced /\ UNCHANGED produced
Refilled == lexed_ # <<>> /\ LexInto(<<>>) /\ delivered' = produced

LEMMA MovesOfTheVector ==
    ASSUME MaxPeek = 1, OrderInv, [Next]_vars
    PROVE  Untouched \/ Filled \/ Emptied \/ Refilled
<1> USE DEF Untouched, Filled, Emptied, Refilled
<1>1. call.n = 1 /\ Len(lexed_) \in 0 .. 1
  BY OneAtATime
<1>2. Len(lexed_) < 1 <=> lexed_ = <<>>
  BY OneAtATime
<1>3. CASE Call BY <1>3 DEF Call
<1>4. CASE Pop
  <2>1. PICK n \in 1 .. 1 : PopTokens(n)
    BY <1>4 DEF Pop
  <2>2. n = 1 /\ lexed_ # <<>>
    BY <1>1, <1>2, <2>1 DEF PopTokens
  <2> QED BY <1>4, <2>1, <2>2, PopsTheOne DEF Pop, PopTokens
<1>5. CASE LexForPeek
  BY <1>1, <1>2, <1>5 DEF LexForPeek
<1>6. CASE PeekFails
  BY <1>6 DEF PeekFails, LexFails
<1>7. CASE PeekAndPopFails
  <2>1. lexed_ = <<>> /\ lexed_' = <<>> /\ produced' = produced
    BY <1>1, <1>2, <1>7 DEF PeekAndPopFails, LexFails
  <2>2. Popped(0) = <<>> /\ delivered \o <<>> = delivered
    <3>1. SubSeq(lexed_, 1, 0) = <<>>
      BY <2>1
    <3> QED BY <2>1, <3>1 DEF Popped, OrderInv, TypeOK
  <2> QED BY <1>7, <2>1, <2>2 DEF PeekAndPopFails
<1>8. CASE PeekEnds BY <1>8 DEF PeekEnds
<1>9. CASE PopNextIsEnds
  <2>1. lexed_ # <<>>
    BY <1>1, <1>9 DEF PopNextIsEnds
  <2> QED BY <1>9, <2>1, PopsTheOne DEF PopNextIsEnds, PopTokens
<1>10. CASE PeekAndPopEnds
  <2>1. lexed_ # <<>>
    BY <1>1, <1>10 DEF PeekAndPopEnds
  <2> QED BY <1>1, <1>10, <2>1, PopsTheOne DEF PeekAndPopEnds, PopTokens
<1>11. CASE PopTokenTurn
  BY <1>1, <1>11, PopsTheOne DEF PopTokenTurn, LexFails
<1>12. CASE PopTokenEnds BY <1>12 DEF PopTokenEnds
<1>13. CASE UNCHANGED vars BY <1>13 DEF vars
<1> QED BY <1>3, <1>4, <1>5, <1>6, <1>7, <1>8, <1>9, <1>10, <1>11, <1>12, <1>13
        DEF Next

LEMMA OrderHolds ==
    ASSUME MaxPeek = 1
    PROVE  Spec => []OrderInv
<1>1. Init => OrderInv
  <2> SUFFICES ASSUME Init, TypeOK PROVE OrderInv
    BY InitTypes
  <2>1. <<>> \o <<>> = <<>> /\ Len(<<>>) = 0
    OBVIOUS
  <2> QED BY <2>1 DEF Init, OrderInv, InSourceOrder
<1>2. TypeOK' /\ OrderInv /\ [Next]_vars => OrderInv'
  <2> SUFFICES ASSUME TypeOK', OrderInv, [Next]_vars PROVE InSourceOrder' /\ Len(lexed_') <= 1
    BY DEF OrderInv
  <2>1. CASE Untouched
    BY <2>1 DEF Untouched, OrderInv, InSourceOrder
  <2>2. CASE Filled \/ Refilled
    <3>1. delivered' = produced
      BY <2>2, EmptyVector DEF Filled, Refilled
    <3>2. PICK token \in Token : lexed_' = <<token>> /\ produced \o lexed_' = produced'
      BY <2>2, LexesTheNext DEF Filled, Refilled, OrderInv
    <3> QED BY <3>1, <3>2 DEF InSourceOrder
  <2>3. CASE Emptied
    <3>1. produced \o <<>> = produced
      BY DEF OrderInv, TypeOK
    <3> QED BY <2>3, <3>1 DEF Emptied, InSourceOrder
  <2> QED BY <2>1, <2>2, <2>3, MovesOfTheVector
<1> QED BY <1>1, <1>2, TypeCorrect, PTL DEF Spec

(* A client that peeks one token at a time pops the tokens of the source   *)
(* in source order, none twice and none lost (Lexer::peek, Lexer::pop).    *)
THEOREM SourceOrder ==
    ASSUME MaxPeek = 1
    PROVE  Spec => []InSourceOrder
<1>1. OrderInv => InSourceOrder
  BY DEF OrderInv
<1> QED BY <1>1, OrderHolds, PTL

-----------------------------------------------------------------------------
(* The Lexer implements the stream. *)

LEMMA OneMore ==
    ASSUME TypeOK, NEW token \in Token, produced' = Append(produced, token)
    PROVE  Stream!Yield
<1>1. SubSeq(Append(produced, token), 1, Len(produced)) = produced
  BY AppendProperties, SubSeqProperties DEF TypeOK
<1>2. /\ Append(produced, token) \in Seq(Token)
      /\ Len(Append(produced, token)) = Len(produced) + 1
  BY DEF TypeOK
<1> QED BY <1>1, <1>2 DEF Stream!Yield

(* The token in the vector is the first that was not handed over. *)
LEMMA TheBufferedToken ==
    ASSUME OrderInv, lexed_ # <<>>
    PROVE  /\ Len(delivered) < Len(produced)
           /\ produced[Len(delivered) + 1] = lexed_[1]
           /\ produced = Append(delivered, produced[Len(delivered) + 1])
<1>1. /\ lexed_ = <<lexed_[1]>> /\ lexed_[1] \in Token /\ delivered \in Seq(Token)
      /\ produced = delivered \o lexed_
  BY EmptyOrOne DEF OrderInv, InSourceOrder, TypeOK
<1>2. produced = Append(delivered, lexed_[1])
  BY <1>1, AppendIsConcat
<1>3. /\ Len(Append(delivered, lexed_[1])) = Len(delivered) + 1
      /\ Append(delivered, lexed_[1])[Len(delivered) + 1] = lexed_[1]
      /\ Len(delivered) \in Nat
  BY <1>1
<1> QED BY <1>2, <1>3

(* An answer is either nothing or the token in the vector. *)
LEMMA SeenMoves ==
    ASSUME MaxPeek = 1, OrderInv, [Next]_vars
    PROVE  \/ seen' = seen
           \/ seen' = <<>> /\ Untouched
           \/ seen' = <<lexed_[1]>> /\ lexed_ # <<>> /\ (Untouched \/ Emptied)
<1>1. call.n = 1 /\ Len(lexed_) \in 0 .. 1
  BY OneAtATime
<1>2. Len(lexed_) < 1 <=> lexed_ = <<>>
  BY OneAtATime
<1>3. lexed_ # <<>> => Answer(1) = <<lexed_[1]>>
  BY EmptyOrOne DEF Answer, Back
<1>4. CASE PeekFails
  BY <1>4 DEF PeekFails, LexFails, Untouched
<1>5. CASE PeekAndPopFails
  <2>1. lexed_ = <<>> /\ lexed_' = <<>> /\ produced' = produced
    BY <1>1, <1>2, <1>5 DEF PeekAndPopFails, LexFails
  <2>2. Untouched
    BY <2>1, MovesOfTheVector, LongerVector DEF Untouched, Filled, Emptied, Refilled, OrderInv
  <2> QED BY <1>5, <2>2 DEF PeekAndPopFails
<1>6. CASE PeekEnds
  BY <1>1, <1>2, <1>3, <1>6 DEF PeekEnds, Untouched
<1>7. CASE PopNextIsEnds
  <2>1. lexed_ # <<>> /\ seen' = Answer(1)
    BY <1>1, <1>7 DEF PopNextIsEnds
  <2>2. CASE PopTokens(1)
    BY <1>3, <1>7, <2>1, <2>2, PopsTheOne DEF PopNextIsEnds, PopTokens, Emptied
  <2>3. CASE UNCHANGED <<lexed_, delivered>>
    BY <1>3, <1>7, <2>1, <2>3 DEF PopNextIsEnds, Untouched
  <2> QED BY <1>7, <2>2, <2>3 DEF PopNextIsEnds
<1>8. CASE PeekAndPopEnds
  BY <1>1, <1>2, <1>3, <1>8, PopsTheOne DEF PeekAndPopEnds, PopTokens, Emptied
<1>9. CASE Call \/ Pop \/ LexForPeek \/ PopTokenTurn \/ PopTokenEnds \/ UNCHANGED vars
  BY <1>9 DEF Call, Pop, LexForPeek, PopTokenTurn, PopTokenEnds, vars
<1> QED BY <1>4, <1>5, <1>6, <1>7, <1>8, <1>9 DEF Next

(* To a client that peeks one token at a time the Lexer, its buffer and    *)
(* its failures included, is a stream that shows and hands over the next   *)
(* token of the source (Lexer's public operations).                        *)
THEOREM StreamRefinement ==
    ASSUME MaxPeek = 1
    PROVE  Spec => StreamSpec
<1>1. Init => Stream!Init
  BY DEF Init, Stream!Init
<1>2. OrderInv /\ [Next]_vars => [Stream!Next]_(Stream!vars)
  <2> SUFFICES ASSUME OrderInv, [Next]_vars PROVE [Stream!Next]_(Stream!vars)
    OBVIOUS
  <2> USE DEF Stream!Next, Stream!vars
  <2>1. CASE Untouched
    BY <2>1, SeenMoves, TheBufferedToken DEF Untouched, Emptied, Stream!Look
  <2>2. CASE Filled
    <3>1. Stream!Yield
      BY <2>2, LexesTheNext, OneMore DEF Filled, OrderInv
    <3>2. seen' = seen
      BY <2>2, SeenMoves, LongerVector DEF Filled, Untouched, Emptied, OrderInv
    <3> QED BY <2>2, <3>1, <3>2 DEF Filled, Stream!Produce
  <2>3. CASE Emptied
    <3>1. seen' \in {seen, <<lexed_[1]>>}
      BY <2>3, SeenMoves DEF Untouched, Emptied
    <3> QED BY <2>3, <3>1, TheBufferedToken DEF Emptied, Stream!Take
  <2>4. CASE Refilled
    <3>1. Stream!Yield
      BY <2>4, LexesTheNext, OneMore DEF Refilled, OrderInv
    <3>2. seen' = seen
      BY <2>4, SeenMoves, LongerVector DEF Refilled, Untouched, Emptied, OrderInv
    <3> QED BY <2>4, <3>1, <3>2, TheBufferedToken DEF Refilled, Stream!Take
  <2> QED BY <2>1, <2>2, <2>3, <2>4, MovesOfTheVector
<1> QED BY <1>1, <1>2, OrderHolds, PTL DEF Spec, StreamSpec, Stream!Spec

(* To a client that peeks one token at a time next_is and pop_next_is      *)
(* answer from the next token of the source, as they promise (Lexer.hpp:79 *)
(* and :123); one that peeked two tokens gets the answer of another.       *)
THEOREM QueriesAskTheNext ==
    ASSUME MaxPeek = 1
    PROVE  Spec => AsksTheNextToken
<1> DEFINE Answered == call.op \in {"next_is", "pop_next_is"} /\ call' = Idle /\ lexed_ # <<>>
<1>1. ASSUME OrderInv, [Next]_vars, Answered
      PROVE  seen' = <<lexed_[1]>> \/ UNCHANGED vars
  <2>1. call.n = 1 /\ ~(Len(lexed_) < 1) /\ Answer(1) = <<lexed_[1]>>
    BY <1>1, OneAtATime, EmptyOrOne DEF Answer, Back
  <2>2. call # Idle
    BY <1>1 DEF Idle
  <2>3. CASE Call \/ Pop
    BY <2>2, <2>3 DEF Call, Pop
  <2>4. CASE LexForPeek \/ PeekFails \/ PeekAndPopFails
    BY <1>1, <2>1, <2>4 DEF LexForPeek, PeekFails, PeekAndPopFails
  <2>5. CASE PeekEnds \/ PopNextIsEnds
    BY <2>1, <2>5 DEF PeekEnds, PopNextIsEnds
  <2>6. CASE PeekAndPopEnds \/ PopTokenTurn \/ PopTokenEnds
    BY <1>1, <2>6 DEF PeekAndPopEnds, PopTokenTurn, PopTokenEnds
  <2> QED BY <1>1, <2>3, <2>4, <2>5, <2>6 DEF Next
<1>2. OrderInv /\ [Next]_vars => [Answered => seen' = <<lexed_[1]>>]_vars
  BY <1>1
<1> QED BY <1>2, OrderHolds, PTL DEF Spec, AsksTheNextToken

-----------------------------------------------------------------------------
(* A client that peeks as many tokens as it likes. *)

(* The tokens of a sequence, by their numbers *)
Numbers(s) == {s[i].nth : i \in 1 .. Len(s)}
Ascending(s) == \A i, j \in 1 .. Len(s) : i < j => s[i].nth < s[j].nth

(* EachTokenOnce, with the vector and what was popped side by side: the    *)
(* order in which tokens were popped does not matter to it.                *)
OnceInv ==
    /\ TypeOK
    /\ Len(delivered) + Len(lexed_) = Len(produced)
    /\ Numbers(delivered) \cup Numbers(lexed_) = 1 .. Len(produced)
    /\ Ascending(lexed_)

LEMMA JoinedTokens ==
    ASSUME NEW s \in Seq(Token), NEW t \in Seq(Token)
    PROVE  /\ Len(s) \in Nat /\ Len(t) \in Nat
           /\ s \o t \in Seq(Token) /\ Len(s \o t) = Len(s) + Len(t)
           /\ \A i \in 1 .. Len(s) : (s \o t)[i] = s[i]
           /\ \A j \in 1 .. Len(t) : (s \o t)[Len(s) + j] = t[j]
BY ConcatProperties, LenProperties

LEMMA NumbersOfBoth ==
    ASSUME NEW s \in Seq(Token), NEW t \in Seq(Token)
    PROVE  Numbers(s \o t) = Numbers(s) \cup Numbers(t)
<1>1. /\ Len(s) \in Nat /\ Len(t) \in Nat /\ Len(s \o t) = Len(s) + Len(t)
      /\ \A i \in 1 .. Len(s) : (s \o t)[i] = s[i]
      /\ \A j \in 1 .. Len(t) : (s \o t)[Len(s) + j] = t[j]
  BY JoinedTokens
<1>2. Numbers(s) \cup Numbers(t) \subseteq Numbers(s \o t)
  <2>1. \A i \in 1 .. Len(s) : i \in 1 .. Len(s \o t)
    BY <1>1
  <2>2. \A j \in 1 .. Len(t) : Len(s) + j \in 1 .. Len(s \o t)
    BY <1>1
  <2> QED BY <1>1, <2>1, <2>2 DEF Numbers
<1>3. Numbers(s \o t) \subseteq Numbers(s) \cup Numbers(t)
  <2> SUFFICES ASSUME NEW i \in 1 .. Len(s \o t)
               PROVE  (s \o t)[i].nth \in Numbers(s) \cup Numbers(t)
    BY DEF Numbers
  <2>1. CASE i \in 1 .. Len(s)
    BY <1>1, <2>1 DEF Numbers
  <2>2. CASE i \notin 1 .. Len(s)
    <3>1. i - Len(s) \in 1 .. Len(t) /\ Len(s) + (i - Len(s)) = i
      BY <1>1, <2>2
    <3>2. (s \o t)[i] = t[i - Len(s)]
      BY <1>1, <3>1
    <3> QED BY <3>1, <3>2 DEF Numbers
  <2> QED BY <2>1, <2>2
<1> QED BY <1>2, <1>3

(* pop<N> splits the vector: its numbers go one way or the other.          *)
LEMMA PopSplits ==
    ASSUME TypeOK, NEW n \in 0 .. Len(lexed_)
    PROVE  /\ Popped(n) \in Seq(Token) /\ Rest(n) \in Seq(Token)
           /\ Len(Popped(n)) = n /\ Len(Rest(n)) = Len(lexed_) - n
           /\ \A i \in 1 .. Len(Rest(n)) : Rest(n)[i] = lexed_[i]
           /\ Numbers(Popped(n)) \cup Numbers(Rest(n)) = Numbers(lexed_)
<1> DEFINE m == Len(lexed_)
<1>1. lexed_ \in Seq(Token) /\ m \in Nat /\ \A i \in 1 .. m : lexed_[i] \in Token
  BY LenProperties, ElementOfSeq DEF TypeOK
<1>2. /\ Rest(n) \in Seq(Token) /\ Len(Rest(n)) = m - n
      /\ \A i \in 1 .. m - n : Rest(n)[i] = lexed_[i]
  BY <1>1 DEF Rest
<1>3. /\ Popped(n) \in Seq(Token) /\ Len(Popped(n)) = n
      /\ \A i \in 1 .. n : Popped(n)[i] = lexed_[m - n + i]
  <2>1. /\ m - n + 1 \in Int /\ m \in Int
        /\ m - (m - n + 1) + 1 = n
        /\ \A i \in m - n + 1 .. m : lexed_[i] \in Token
    BY <1>1
  <2>2. /\ Popped(n) \in Seq(Token)
        /\ Len(Popped(n)) = IF m - n + 1 <= m THEN m - (m - n + 1) + 1 ELSE 0
        /\ \A i \in 1 .. m - (m - n + 1) + 1 :
                Popped(n)[i] = lexed_[(m - n + 1) + i - 1]
    BY <2>1, SubSeqProperties DEF Popped
  <2> QED BY <1>1, <2>1, <2>2
<1>4. lexed_ = Rest(n) \o Popped(n)
  <2> DEFINE both == Rest(n) \o Popped(n)
  <2>1. /\ both \in Seq(Token) /\ Len(both) = m
        /\ \A i \in 1 .. m - n : both[i] = Rest(n)[i]
        /\ \A j \in 1 .. n : both[(m - n) + j] = Popped(n)[j]
    <3> DEFINE left == Rest(n)
               right == Popped(n)
    <3>1. /\ left \in Seq(Token) /\ right \in Seq(Token)
          /\ Len(left) = m - n /\ Len(right) = n
      BY <1>2, <1>3
    <3> HIDE DEF left, right
    <3>2. /\ left \o right \in Seq(Token)
          /\ Len(left \o right) = Len(left) + Len(right)
          /\ \A i \in 1 .. Len(left) : (left \o right)[i] = left[i]
          /\ \A j \in 1 .. Len(right) : (left \o right)[Len(left) + j] = right[j]
      BY <3>1, JoinedTokens
    <3>3. (m - n) + n = m
      BY <1>1
    <3>4. /\ left \o right \in Seq(Token) /\ Len(left \o right) = m
          /\ \A i \in 1 .. m - n : (left \o right)[i] = left[i]
          /\ \A j \in 1 .. n : (left \o right)[(m - n) + j] = right[j]
      BY <3>1, <3>2, <3>3
    <3> QED BY <3>4 DEF left, right
  <2> HIDE DEF both
  <2>2. \A i \in 1 .. m : lexed_[i] = both[i]
    <3> TAKE i \in 1 .. m
    <3>1. CASE i <= m - n
      BY <1>1, <1>2, <2>1, <3>1
    <3>2. CASE i > m - n
      <4>1. i - (m - n) \in 1 .. n /\ (m - n) + (i - (m - n)) = i
        BY <1>1, <3>2
      <4> QED BY <1>3, <2>1, <4>1
    <3> QED BY <1>1, <3>1, <3>2
  <2>3. lexed_ = both
    BY <1>1, <2>1, <2>2, SeqEqual
  <2> QED BY <2>3 DEF both
<1> QED BY <1>2, <1>3, <1>4, NumbersOfBoth

(* Every step leaves the vector alone, adds to it the next token of the    *)
(* source, pops some of its tokens, or pops its only one and adds one.     *)
Lexed(buffer) ==
    \E token \in Token :
        /\ token.nth = Len(produced) + 1
        /\ lexed_' = Append(buffer, token) /\ produced' = Append(produced, token)
Pops(n) == delivered' = delivered \o Popped(n)
Added == Lexed(lexed_) /\ UNCHANGED delivered
Taken == \E n \in 0 .. Len(lexed_) : Pops(n) /\ lexed_' = Rest(n) /\ UNCHANGED produced
Exchanged == Len(lexed_) = 1 /\ Pops(1) /\ Lexed(<<>>)

LEMMA MovesOfAnyVector ==
    ASSUME OnceInv, [Next]_vars
    PROVE  Untouched \/ Added \/ Taken \/ Exchanged
<1>1. Len(lexed_) \in Nat /\ lexed_ \in Seq(Token) /\ <<>> \in Seq(Token)
  BY LenProperties DEF OnceInv, TypeOK
<1>2. \A buffer \in Seq(Token) : LexInto(buffer) => Lexed(buffer)
  BY LexIntoTypes DEF OnceInv, Lexed
<1>3. Rest(Len(lexed_)) = <<>>
  BY <1>1 DEF Rest
<1>4. ASSUME NEW n \in Nat, PopTokens(n), UNCHANGED produced
      PROVE  Taken
  <2>1. n \in 0 .. Len(lexed_)
    BY <1>1, <1>4 DEF PopTokens
  <2> QED BY <1>4, <2>1 DEF PopTokens, Taken, Pops
<1>5. CASE Call BY <1>5 DEF Call, Untouched
<1>6. CASE Pop
  BY <1>4, <1>6, MaxPeekAssumption DEF Pop
<1>7. CASE LexForPeek
  BY <1>1, <1>2, <1>7 DEF LexForPeek, Added
<1>8. CASE PeekFails BY <1>8 DEF PeekFails, LexFails, Untouched
<1>9. CASE PeekAndPopFails
  BY <1>1, <1>3, <1>9 DEF PeekAndPopFails, LexFails, Taken, Pops
<1>10. CASE PeekEnds BY <1>10 DEF PeekEnds, Untouched
<1>11. CASE PopNextIsEnds
  BY <1>4, <1>11 DEF PopNextIsEnds, Untouched
<1>12. CASE PeekAndPopEnds
  <2>1. call.n \in Nat
    BY CallFields, MaxPeekAssumption DEF OnceInv
  <2> QED BY <1>4, <1>12, <2>1 DEF PeekAndPopEnds
<1>13. CASE PopTokenTurn
  <2>1. CASE Len(lexed_) > 1
    <3>1. 1 \in 0 .. Len(lexed_) /\ Len(lexed_) # 1
      <4> DEFINE m == Len(lexed_)
      <4>1. m \in Nat /\ m > 1
        BY <1>1, <2>1
      <4> HIDE DEF m
      <4>2. 1 \in 0 .. m /\ m # 1
        BY <4>1
      <4> QED BY <4>2 DEF m
    <3>2. delivered' = delivered \o Popped(1)
      BY <1>13 DEF PopTokenTurn
    <3>3. lexed_' = Rest(1) /\ UNCHANGED produced
      BY <1>13, <3>1 DEF PopTokenTurn
    <3> QED BY <3>1, <3>2, <3>3 DEF Taken, Pops
  <2>2. CASE Len(lexed_) = 1 /\ LexInto(<<>>)
    BY <1>1, <1>2, <1>13, <2>2 DEF PopTokenTurn, Exchanged, Pops
  <2>3. CASE Len(lexed_) = 1 /\ LexFails(<<>>)
    BY <1>1, <1>3, <1>13, <2>3 DEF PopTokenTurn, Taken, Pops, LexFails
  <2> QED BY <1>13, <2>1, <2>2, <2>3 DEF PopTokenTurn
<1>14. CASE PopTokenEnds BY <1>14 DEF PopTokenEnds, Untouched
<1>15. CASE UNCHANGED vars BY <1>15 DEF vars, Untouched
<1> QED BY <1>5, <1>6, <1>7, <1>8, <1>9, <1>10, <1>11, <1>12, <1>13, <1>14, <1>15
        DEF Next

(* The token that is added is one more, and the last of the vector.        *)
LEMMA OneMoreNumber ==
    ASSUME TypeOK, NEW buffer \in Seq(Token), Lexed(buffer), Ascending(buffer),
           Numbers(buffer) \subseteq 1 .. Len(produced)
    PROVE  /\ Len(produced') = Len(produced) + 1 /\ Len(lexed_') = Len(buffer) + 1
           /\ Numbers(lexed_') = Numbers(buffer) \cup {Len(produced')}
           /\ Ascending(lexed_')
<1> DEFINE n == Len(buffer)
           m == Len(produced)
<1>1. PICK token \in Token :
          /\ token.nth = m + 1
          /\ lexed_' = Append(buffer, token) /\ produced' = Append(produced, token)
  BY DEF Lexed
<1>2. /\ n \in Nat /\ m \in Nat /\ Len(lexed_') = n + 1 /\ Len(produced') = m + 1
      /\ lexed_'[n + 1] = token /\ \A i \in 1 .. n : lexed_'[i] = buffer[i]
  BY <1>1, AppendProperties, LenProperties DEF TypeOK
<1>3. Numbers(lexed_') = Numbers(buffer) \cup {m + 1}
  <2>1. 1 .. n + 1 = (1 .. n) \cup {n + 1}
    BY <1>2
  <2> QED BY <1>1, <1>2, <2>1 DEF Numbers
<1>4. Ascending(lexed_')
  <2> SUFFICES ASSUME NEW i \in 1 .. n + 1, NEW j \in 1 .. n + 1, i < j
               PROVE  lexed_'[i].nth < lexed_'[j].nth
    BY <1>2 DEF Ascending
  <2>1. /\ i \in 1 .. n /\ lexed_'[i] = buffer[i]
        /\ j \in 1 .. n \/ j = n + 1
    <3>1. n \in Nat /\ i \in 1 .. n
      BY <1>2
    <3>2. j \in 1 .. n \/ j = n + 1
      BY <3>1
    <3> QED BY <1>2, <3>1, <3>2
  <2>2. CASE j \in 1 .. n
    BY <1>2, <2>1, <2>2 DEF Ascending
  <2>3. CASE j = n + 1
    <3>1. buffer[i].nth \in 1 .. m
      BY <2>1 DEF Numbers
    <3>2. lexed_'[j] = token /\ token.nth = m + 1
      BY <1>1, <1>2, <2>3
    <3> QED BY <1>2, <2>1, <3>1, <3>2
  <2> QED BY <2>1, <2>2, <2>3
<1> QED BY <1>2, <1>3, <1>4

LEMMA OnceHolds == Spec => []OnceInv
<1>1. Init => OnceInv
  <2> SUFFICES ASSUME Init, TypeOK PROVE OnceInv
    BY InitTypes
  <2> QED BY DEF Init, OnceInv, Numbers, Ascending
<1>2. TypeOK' /\ OnceInv /\ [Next]_vars => OnceInv'
  <2> SUFFICES ASSUME TypeOK', OnceInv, [Next]_vars PROVE OnceInv'
    OBVIOUS
  <2>1. /\ TypeOK /\ delivered \in Seq(Token) /\ lexed_ \in Seq(Token)
        /\ <<>> \in Seq(Token) /\ Len(<<>>) = 0
        /\ Len(delivered) \in Nat /\ Len(lexed_) \in Nat /\ Len(produced) \in Nat
        /\ Numbers(<<>>) = {} /\ Ascending(<<>>)
    BY LenProperties DEF OnceInv, TypeOK, Numbers, Ascending
  <2>2. \A n \in 0 .. Len(lexed_) :
            Pops(n) => /\ Len(delivered') = Len(delivered) + n
                       /\ Numbers(delivered') = Numbers(delivered) \cup Numbers(Popped(n))
    BY <2>1, PopSplits, NumbersOfBoth, ConcatProperties DEF Pops
  <2>3. CASE Untouched
    BY <2>3 DEF Untouched, OnceInv
  <2>4. CASE Added
    <3>1. /\ Len(produced') = Len(produced) + 1 /\ Len(lexed_') = Len(lexed_) + 1
          /\ Numbers(lexed_') = Numbers(lexed_) \cup {Len(produced')}
          /\ Ascending(lexed_')
      BY <2>1, <2>4, OneMoreNumber DEF Added, OnceInv
    <3>2. Numbers(delivered') \cup Numbers(lexed_') = 1 .. Len(produced')
      BY <2>1, <2>4, <3>1 DEF Added, OnceInv
    <3> QED BY <2>1, <2>4, <3>1, <3>2 DEF Added, OnceInv
  <2>5. CASE Taken
    <3>1. PICK n \in 0 .. Len(lexed_) : Pops(n) /\ lexed_' = Rest(n) /\ produced' = produced
      BY <2>5 DEF Taken
    <3>2. /\ Len(Rest(n)) = Len(lexed_) - n
          /\ \A i \in 1 .. Len(Rest(n)) : Rest(n)[i] = lexed_[i]
          /\ Numbers(Popped(n)) \cup Numbers(Rest(n)) = Numbers(lexed_)
      BY <2>1, PopSplits
    <3>3. Ascending(Rest(n))
      <4>1. \A i \in 1 .. Len(Rest(n)) : i \in 1 .. Len(lexed_)
        BY <2>1, <3>2
      <4> QED BY <3>2, <4>1 DEF Ascending, OnceInv
    <3>4. /\ Len(delivered') = Len(delivered) + n
          /\ Numbers(delivered') = Numbers(delivered) \cup Numbers(Popped(n))
      BY <2>2, <3>1
    <3>5. Len(delivered') + Len(lexed_') = Len(produced')
      <4>1. Len(lexed_') = Len(lexed_) - n /\ Len(produced') = Len(produced)
        BY <3>1, <3>2
      <4>2. Len(delivered) + Len(lexed_) = Len(produced)
        BY DEF OnceInv
      <4> QED BY <2>1, <3>4, <4>1, <4>2
    <3>6. Numbers(delivered') \cup Numbers(lexed_') = 1 .. Len(produced')
      BY <3>1, <3>2, <3>4 DEF OnceInv
    <3> QED BY <3>1, <3>3, <3>5, <3>6 DEF OnceInv
  <2>6. CASE Exchanged
    <3>1. /\ Len(produced') = Len(produced) + 1 /\ Len(lexed_') = 1
          /\ Numbers(lexed_') = {Len(produced')} /\ Ascending(lexed_')
      <4>1. Lexed(<<>>) /\ Numbers(<<>>) \subseteq 1 .. Len(produced)
        BY <2>1, <2>6 DEF Exchanged
      <4>2. /\ Len(produced') = Len(produced) + 1 /\ Len(lexed_') = Len(<<>>) + 1
            /\ Numbers(lexed_') = Numbers(<<>>) \cup {Len(produced')}
            /\ Ascending(lexed_')
        BY <2>1, <4>1, OneMoreNumber
      <4> QED BY <2>1, <4>2
    <3>2. /\ 1 \in 0 .. Len(lexed_) /\ Len(lexed_) = 1 /\ Pops(1)
      BY <2>6 DEF Exchanged
    <3>3. Numbers(Popped(1)) = Numbers(lexed_)
      <4>1. /\ Rest(1) \in Seq(Token) /\ Len(Rest(1)) = 0
            /\ Numbers(Popped(1)) \cup Numbers(Rest(1)) = Numbers(lexed_)
        BY <2>1, <3>2, PopSplits
      <4>2. Numbers(Rest(1)) = {}
        BY <4>1 DEF Numbers
      <4> QED BY <4>1, <4>2
    <3>4. /\ Len(delivered') = Len(delivered) + 1
          /\ Numbers(delivered') = Numbers(delivered) \cup Numbers(lexed_)
      BY <2>2, <3>2, <3>3
    <3> QED BY <2>1, <3>1, <3>2, <3>4 DEF OnceInv
  <2> QED BY <2>3, <2>4, <2>5, <2>6, MovesOfAnyVector
<1> QED BY <1>1, <1>2, TypeCorrect, PTL DEF Spec

(* However many tokens the client peeks or pops at a time, no token of the *)
(* source is lost, none comes twice, and the vector holds the oldest first *)
(* (Lexer::peek<N>, Lexer::pop<N>, Lexer::peek_and_pop<N>).                *)
THEOREM TokensComeOnce == Spec => []EachTokenOnce
<1>1. OnceInv => EachTokenOnce
  <2> SUFFICES ASSUME OnceInv PROVE EachTokenOnce
    OBVIOUS
  <2>1. delivered \in Seq(Token) /\ lexed_ \in Seq(Token)
    BY DEF OnceInv, TypeOK
  <2>2. /\ Len(delivered \o lexed_) = Len(delivered) + Len(lexed_)
        /\ Numbers(delivered \o lexed_) = Numbers(delivered) \cup Numbers(lexed_)
    BY <2>1, ConcatProperties, NumbersOfBoth
  <2> QED BY <2>2 DEF OnceInv, EachTokenOnce, Numbers, Ascending
<1> QED BY <1>1, OnceHolds, PTL
=============================================================================
