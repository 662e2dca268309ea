---------------------------- MODULE Main_proofs -----------------------------
(***************************************************************************)
(* Proofs about main: what the Lexer's operations do for this client,      *)
(* whatever the source, the start position and the widths.                 *)
(***************************************************************************)
EXTENDS Main, Lexer_proofs

(* main and the Lexer together.  When main tests the answer it is the only *)
(* token in the vector, and a token is printed just before it is popped:   *)
(* only then is anything printed that was not popped.                      *)
MainInv ==
    /\ OrderInv
    /\ at \in {"peek", "test", "pop", "done"}
    /\ call # Idle => at = "test" /\ call.op = "peek" /\ call.n = 1
    /\ at = "peek" => lexed_ = <<>>
    /\ at = "pop" => lexed_ # <<>>
    /\ at = "test" /\ call = Idle => seen \in {<<>>, lexed_}
    /\ printed = IF at = "pop" THEN produced ELSE delivered

(* Every step of main is one of the Lexer's or none: what is proved of the *)
(* Lexer for every client is true of it here (main).                       *)
THEOREM MainIsAClient == MainSpec => Spec
<1>1. MainInit => Init
  BY DEF MainInit
<1>2. [MainNext]_mainVars => [Next]_vars
  BY DEF MainNext, MainPeeks, LexerRuns, Test, MainPops, Next, mainVars, vars
<1> QED BY <1>1, <1>2, PTL DEF MainSpec, Spec

LEMMA MainInitHolds == MainInit => MainInv
<1> SUFFICES ASSUME MainInit PROVE MainInv
  OBVIOUS
<1>1. Init /\ TypeOK /\ at = "peek" /\ printed = <<>>
  BY InitTypes DEF MainInit
<1>2. <<>> \o <<>> = <<>> /\ Len(<<>>) = 0
  OBVIOUS
<1>3. OrderInv
  BY <1>1, <1>2 DEF Init, OrderInv, InSourceOrder
<1> QED BY <1>1, <1>3 DEF Init, MainInv

(* A peek ends with the next token in the vector, or with an empty answer. *)
LEMMA PeekKeeps ==
    ASSUME MainInv, TypeOK', LexerRuns
    PROVE  MainInv'
<1>1. OrderInv /\ call # Idle /\ at = "test" /\ call.op = "peek" /\ call.n = 1
  BY DEF MainInv, LexerRuns
<1>2. at' = "test" /\ printed' = printed /\ printed = delivered
  BY <1>1 DEF MainInv, LexerRuns
<1>3. Len(lexed_) < 1 => lexed_ = <<>>
  BY EmptyOrOne, <1>1
<1>4. CASE LexForPeek
  <2>1. /\ lexed_ = <<>> /\ LexInto(<<>>) /\ call' = call /\ seen' = seen
        /\ delivered' = delivered
    BY <1>1, <1>3, <1>4 DEF LexForPeek
  <2>2. PICK token \in Token : lexed_' = <<token>> /\ produced \o lexed_' = produced'
    BY <1>1, <2>1, LexesTheNext DEF OrderInv
  <2>3. OrderInv'
    <3>1. delivered = produced /\ Len(<<token>>) = 1
      BY <1>1, <2>1, EmptyVector
    <3> QED BY <2>1, <2>2, <3>1 DEF OrderInv, InSourceOrder
  <2> QED BY <1>1, <1>2, <2>1, <2>3 DEF MainInv
<1>5. CASE PeekFails
  <2>1. /\ lexed_' = lexed_ /\ produced' = produced /\ delivered' = delivered
        /\ seen' = <<>> /\ call' = Idle
    BY <1>5 DEF PeekFails, LexFails
  <2>2. OrderInv'
    BY <1>1, <2>1 DEF OrderInv, InSourceOrder
  <2> QED BY <1>1, <1>2, <2>1, <2>2 DEF MainInv
<1>6. CASE PeekEnds
  <2>1. /\ lexed_' = lexed_ /\ produced' = produced /\ delivered' = delivered
        /\ seen' = <<Back(lexed_)>> /\ call' = Idle /\ 1 <= Len(lexed_)
    BY <1>1, <1>6 DEF PeekEnds, Answer
  <2>2. OrderInv'
    BY <1>1, <2>1 DEF OrderInv, InSourceOrder
  <2>3. seen' = lexed_
    <3>1. lexed_ # <<>>
      BY <2>1
    <3> QED BY <1>1, <2>1, <3>1, EmptyOrOne DEF Back
  <2> QED BY <1>1, <1>2, <2>1, <2>2, <2>3 DEF MainInv
<1> QED BY <1>4, <1>5, <1>6 DEF LexerRuns

(* main appends to what it printed the token it saw, the last one lexed. *)
LEMMA TestKeeps ==
    ASSUME MainInv, Test
    PROVE  MainInv'
<1>1. /\ OrderInv /\ at = "test" /\ call = Idle /\ seen \in {<<>>, lexed_}
      /\ printed = delivered /\ UNCHANGED vars
  BY DEF MainInv, Test
<1>2. OrderInv' /\ call' = Idle /\ lexed_' = lexed_
  BY <1>1 DEF OrderInv, InSourceOrder, TypeOK, vars
<1>3. CASE seen = <<>> \/ seen[1].type = "END_OF_FILE"
  <2>1. at' = "done" /\ printed' = printed /\ delivered' = delivered
    BY <1>1, <1>3 DEF Test, vars
  <2> QED BY <1>1, <1>2, <2>1 DEF MainInv
<1>4. CASE ~(seen = <<>> \/ seen[1].type = "END_OF_FILE")
  <2>1. at' = "pop" /\ printed' = Append(printed, seen[1]) /\ produced' = produced
    BY <1>1, <1>4 DEF Test, vars
  <2>2. seen = lexed_ /\ lexed_ # <<>> /\ lexed_ = <<lexed_[1]>> /\ lexed_[1] \in Token
    BY <1>1, <1>4, EmptyOrOne
  <2>3. Append(delivered, lexed_[1]) = produced
    <3>1. Append(delivered, lexed_[1]) = delivered \o <<lexed_[1]>>
      BY <1>1, <2>2, AppendIsConcat DEF OrderInv, TypeOK
    <3> QED BY <1>1, <2>2, <3>1 DEF OrderInv, InSourceOrder
  <2>4. printed' = produced'
    BY <1>1, <2>1, <2>2, <2>3
  <2> QED BY <1>2, <2>1, <2>2, <2>4 DEF MainInv
<1> QED BY <1>3, <1>4

(* main pops the token it printed, the only one in the vector. *)
LEMMA PopKeeps ==
    ASSUME MainInv, TypeOK', MainPops
    PROVE  MainInv'
<1>1. OrderInv /\ lexed_ # <<>> /\ printed = produced /\ call = Idle
  BY DEF MainInv, MainPops, Pop
<1>2. /\ at' = "peek" /\ printed' = printed /\ call' = call /\ produced' = produced
  BY DEF MainPops, Pop
<1>3. PICK n \in 1 .. MaxPeek : PopTokens(n)
  BY DEF MainPops, Pop
<1>4. n = 1
  <2>1. Len(lexed_) = 1
    BY <1>1, EmptyOrOne
  <2>2. n <= Len(lexed_)
    BY <1>3 DEF PopTokens
  <2> QED BY <2>1, <2>2, MaxPeekAssumption
<1>5. lexed_' = <<>> /\ delivered' = produced
  BY <1>1, <1>3, <1>4, PopsTheOne DEF PopTokens
<1>6. OrderInv'
  <2>1. produced \o <<>> = produced /\ Len(<<>>) = 0
    BY <1>1 DEF OrderInv, TypeOK
  <2> QED BY <1>2, <1>5, <2>1 DEF OrderInv, InSourceOrder
<1> QED BY <1>1, <1>2, <1>5, <1>6 DEF MainInv

LEMMA MainInvHolds == MainSpec => []MainInv
<1>1. TypeOK' /\ MainInv /\ [MainNext]_mainVars => MainInv'
  <2> SUFFICES ASSUME TypeOK', MainInv, [MainNext]_mainVars PROVE MainInv'
    OBVIOUS
  <2>1. CASE MainPeeks
    <3>1. /\ OrderInv /\ at = "peek" /\ lexed_ = <<>> /\ printed = delivered
          /\ call'.op = "peek" /\ call'.n = 1 /\ at' = "test" /\ printed' = printed
          /\ UNCHANGED <<lexed_, produced, delivered>>
      BY <2>1 DEF MainInv, MainPeeks, Call
    <3>2. OrderInv'
      BY <3>1 DEF OrderInv, InSourceOrder
    <3>3. call' # Idle
      BY <3>1 DEF Idle
    <3> QED BY <3>1, <3>2, <3>3 DEF MainInv
  <2>2. CASE LexerRuns
    BY <2>2, PeekKeeps
  <2>3. CASE Test
    BY <2>3, TestKeeps
  <2>4. CASE MainPops
    BY <2>4, PopKeeps
  <2>5. CASE UNCHANGED mainVars
    BY <2>5 DEF mainVars, vars, MainInv, OrderInv, InSourceOrder
  <2> QED BY <2>1, <2>2, <2>3, <2>4, <2>5 DEF MainNext
<1> QED BY <1>1, MainInitHolds, MainIsAClient, TypeCorrect, PTL DEF MainSpec

(* main never pops an empty vector, and the token it pops is the one it    *)
(* printed last (main, Lexer::pop).                                        *)
THEOREM MainPopsWhatItSaw == MainSpec => []PopsWhatItSaw
<1>1. MainInv => PopsWhatItSaw
  <2> SUFFICES ASSUME MainInv, at = "pop"
               PROVE  lexed_ # <<>> /\ lexed_[Len(lexed_)] = printed[Len(printed)]
    BY DEF PopsWhatItSaw
  <2>1. OrderInv /\ lexed_ # <<>> /\ printed = produced
    BY DEF MainInv
  <2>2. /\ Len(lexed_) = 1 /\ lexed_[1] \in Token /\ delivered \in Seq(Token)
        /\ produced = Append(delivered, produced[Len(delivered) + 1])
        /\ produced[Len(delivered) + 1] = lexed_[1]
    BY <2>1, EmptyOrOne, TheBufferedToken DEF OrderInv, TypeOK
  <2>3. Len(produced) = Len(delivered) + 1
    BY <2>2, AppendProperties
  <2> QED BY <2>1, <2>2, <2>3
<1> QED BY <1>1, MainInvHolds, PTL

(* main prints the tokens of its line in the order the Lexer finds them,   *)
(* each once and none left out, and at no time is the Lexer more than one  *)
(* token ahead (main's loop).                                              *)
THEOREM MainPrintsInOrder == MainSpec => []PrintsInOrder
<1>1. MainInv => PrintsInOrder
  <2> SUFFICES ASSUME MainInv PROVE PrintsInOrder
    OBVIOUS
  <2>1. /\ OrderInv /\ delivered \in Seq(Token) /\ produced \in Seq(Token)
        /\ Len(delivered) \in Nat /\ Len(produced) \in Nat
    BY LenProperties DEF MainInv, OrderInv, TypeOK
  <2>2. CASE printed = produced
    BY <2>1, <2>2 DEF PrintsInOrder
  <2>3. CASE printed = delivered /\ lexed_ = <<>>
    BY <2>1, <2>2, <2>3, EmptyVector
  <2>4. CASE printed = delivered /\ lexed_ # <<>>
    <3>1. PICK token : produced = Append(delivered, token) /\ token \in Token
      BY <2>1, <2>4, TheBufferedToken, EmptyOrOne
    <3>2. /\ Len(produced) = Len(delivered) + 1
          /\ \A i \in 1 .. Len(delivered) : produced[i] = delivered[i]
      BY <2>1, <3>1, AppendProperties
    <3> QED BY <2>1, <2>4, <3>2 DEF PrintsInOrder
  <2> QED BY <2>2, <2>3, <2>4 DEF MainInv
<1> QED BY <1>1, MainInvHolds, PTL

-----------------------------------------------------------------------------
(* What main has printed when it is done.  It stops at an error or at the  *)
(* token for the end, which it does not print.                             *)
PrintInv ==
    /\ \A i \in 1 .. Len(printed) : printed[i].type # "END_OF_FILE"
    /\ at = "test" /\ call = Idle /\ seen = <<>> => Stuck /\ lexed_ = <<>>
    /\ at = "done" => \/ Stuck /\ lexed_ = <<>>
                      \/ lexed_ # <<>> /\ lexed_[1].type = "END_OF_FILE"

LEMMA PrintHolds == MainSpec => []PrintInv
<1>1. MainInit => PrintInv
  BY DEF MainInit, PrintInv
<1>2. MainInv /\ PrintInv /\ [MainNext]_mainVars => PrintInv'
  <2> SUFFICES ASSUME MainInv, PrintInv, [MainNext]_mainVars PROVE PrintInv'
    OBVIOUS
  <2>1. CASE MainPeeks
    <3>1. at' = "test" /\ printed' = printed /\ call'.op = "peek"
      BY <2>1 DEF MainPeeks
    <3> QED BY <3>1 DEF PrintInv, Idle
  <2>2. CASE LexerRuns
    <3>1. /\ OrderInv /\ call # Idle /\ at = "test" /\ call.op = "peek" /\ call.n = 1
          /\ at' = "test" /\ printed' = printed
      BY <2>2 DEF MainInv, LexerRuns
    <3>2. CASE LexForPeek
      BY <3>1, <3>2 DEF LexForPeek, PrintInv
    <3>3. CASE PeekFails
      <4>1. lexed_ = <<>>
        BY <3>1, <3>3, EmptyOrOne DEF PeekFails
      <4>2. Stuck' /\ lexed_' = <<>>
        BY <3>3, <4>1, StuckStays DEF PeekFails
      <4> QED BY <3>1, <4>2 DEF PrintInv
    <3>4. CASE PeekEnds
      <4>1. seen' # <<>>
        <5>1. seen' = <<Back(lexed_)>>
          BY <3>1, <3>4 DEF PeekEnds, Answer
        <5> QED BY <5>1
      <4> QED BY <3>1, <4>1 DEF PrintInv
    <3> QED BY <2>2, <3>2, <3>3, <3>4 DEF LexerRuns
  <2>3. CASE Test
    <3>1. /\ at = "test" /\ call = Idle /\ seen \in {<<>>, lexed_} /\ lexed_' = lexed_
          /\ OrderInv /\ printed = delivered /\ Stuck' = Stuck
      BY <2>3, SourceUnchanged DEF MainInv, Test, vars
    <3>2. CASE seen = <<>>
      <4>1. Stuck /\ lexed_ = <<>> /\ at' = "done" /\ printed' = printed
        BY <2>3, <3>1, <3>2 DEF PrintInv, Test
      <4> QED BY <3>1, <4>1 DEF PrintInv
    <3>3. CASE seen # <<>> /\ seen[1].type = "END_OF_FILE"
      <4>1. at' = "done" /\ printed' = printed /\ lexed_ = seen
        BY <2>3, <3>1, <3>3 DEF Test
      <4> QED BY <3>1, <3>3, <4>1 DEF PrintInv
    <3>4. CASE seen # <<>> /\ seen[1].type # "END_OF_FILE"
      <4>1. at' = "pop" /\ printed' = Append(printed, seen[1]) /\ lexed_ = seen
        BY <2>3, <3>1, <3>4 DEF Test
      <4>2. seen[1] \in Token /\ printed \in Seq(Token)
        BY <3>1, <3>4, <4>1, EmptyOrOne DEF OrderInv, TypeOK
      <4>3. ASSUME NEW i \in 1 .. Len(printed') PROVE printed'[i].type # "END_OF_FILE"
        <5>1. /\ Len(printed) \in Nat /\ Len(printed') = Len(printed) + 1
              /\ printed'[Len(printed) + 1] = seen[1]
              /\ \A k \in 1 .. Len(printed) : printed'[k] = printed[k]
          BY <4>1, <4>2, AppendProperties, LenProperties
        <5>2. i \in 1 .. Len(printed) \/ i = Len(printed) + 1
          BY <5>1
        <5> QED BY <3>4, <5>1, <5>2 DEF PrintInv
      <4> QED BY <4>1, <4>3 DEF PrintInv
    <3> QED BY <3>2, <3>3, <3>4
  <2>4. CASE MainPops
    BY <2>4 DEF MainPops, PrintInv
  <2>5. CASE UNCHANGED mainVars
    <3>1. Stuck' = Stuck
      BY <2>5, SourceUnchanged DEF mainVars, vars
    <3> QED BY <2>5, <3>1 DEF mainVars, vars, PrintInv
  <2> QED BY <2>1, <2>2, <2>3, <2>4, <2>5 DEF MainNext
<1> QED BY <1>1, <1>2, MainInvHolds, PTL DEF MainSpec

(* What main has printed when it is done is its whole line: every token up *)
(* to the end or the first stretch that is none, each once, in order, and  *)
(* with its type (main, Lexer::lexNext).                                   *)
THEOREM MainPrintsTheSource == MainSpec => []PrintsTheSource
<1> DEFINE before == {i \in DOMAIN origin.content :
                         BecomesToken(i)
                             /\ \A k \in 1 .. i : origin.content[k].type # "UNLEXABLE"}
<1>1. MainInv /\ PrintInv /\ SourceInv => PrintsTheSource
  <2> SUFFICES ASSUME MainInv, PrintInv, SourceInv, at = "done"
               PROVE  /\ Len(printed) = Cardinality(before)
                      /\ \A i \in before :
                             printed[TokensUpTo(i)].type = origin.content[i].type
    BY DEF PrintsTheSource
  <2>1. /\ OrderInv /\ TypeOK /\ printed = delivered /\ produced \in Seq(Token)
        /\ delivered \in Seq(Token) /\ SourceOK
    BY DEF MainInv, OrderInv, TypeOK, SourceInv
  <2>2. PICK cut : LeftIs(cut, content_) /\ TokensAre(cut, content_, produced)
    BY DEF SourceInv, SourceAt
  <2>3. /\ cut \in Nat /\ cut <= Len(origin.content) /\ Len(origin.content) \in Nat
        /\ DOMAIN origin.content = 1 .. Len(origin.content)
        /\ TokensUpTo(cut) \in Nat /\ Len(produced) \in Nat /\ Len(delivered) \in Nat
    <3>1. Len(produced) \in Nat /\ Len(delivered) \in Nat
      BY <2>1, LenProperties
    <3>2. /\ Len(origin.content) \in Nat
          /\ DOMAIN origin.content = 1 .. Len(origin.content)
      BY <2>1, SourceTypes
    <3>3. cut \in 0 .. Len(origin.content)
      BY <2>2 DEF LeftIs
    <3>4. cut \in Nat
      BY <3>2, <3>3
    <3>5. TokensUpTo(cut) \in Nat
      BY <3>4, OneLexemeMore
    <3> QED BY <3>1, <3>2, <3>3, <3>4, <3>5
  <2>4. /\ Len(printed) = TokensUpTo(cut)
        /\ \A m \in 1 .. Len(printed) : printed[m] = produced[m]
        /\ \A i \in cut + 1 .. Len(origin.content) :
               BecomesToken(i) => \E k \in 1 .. i : origin.content[k].type = "UNLEXABLE"
    <3>1. CASE Stuck /\ lexed_ = <<>>
      <4>1. printed = produced
        BY <2>1, <3>1, EmptyVector DEF OrderInv
      <4>2. content_ # <<>>
        BY <3>1, EmptySeq DEF Stuck, ContentAfterSpace, AtWhitespace
      <4>3. ~(TokensUpTo(cut) < Len(produced)) /\ TokensUpTo(cut) <= Len(produced)
        BY <2>2, <4>2 DEF TokensAre
      <4>4. ASSUME NEW i \in cut + 1 .. Len(origin.content), BecomesToken(i)
            PROVE  \E k \in 1 .. i : origin.content[k].type = "UNLEXABLE"
        <5>1. /\ cut + 1 \in 1 .. Len(origin.content)
              /\ Head(content_) = origin.content[cut + 1]
              /\ Head(content_).type # "UNLEXABLE" => LeftIs(cut + 1, Tail(content_))
          BY <2>1, <2>2, <4>2, LeftFront
        <5>2. CASE AtWhitespace
          <6>1. Head(content_).type = "WHITESPACE" /\ ContentAfterSpace = Tail(content_)
            BY <5>2 DEF AtWhitespace, ContentAfterSpace
          <6>2. LeftIs(cut + 1, Tail(content_)) /\ Tail(content_) # <<>>
            BY <3>1, <5>1, <6>1 DEF Stuck
          <6>3. Head(Tail(content_)) = origin.content[(cut + 1) + 1]
            BY <2>1, <6>2, LeftFront
          <6>4. origin.content[(cut + 1) + 1].type = "UNLEXABLE"
            BY <3>1, <6>1, <6>3 DEF Stuck
          <6>5. i # cut + 1
            BY <4>4, <5>1, <6>1 DEF BecomesToken
          <6>6. (cut + 1) + 1 \in 1 .. i
            BY <2>3, <6>5
          <6> QED BY <6>4, <6>6
        <5>3. CASE ~AtWhitespace
          <6>1. origin.content[cut + 1].type = "UNLEXABLE"
            BY <3>1, <5>1, <5>3 DEF Stuck, ContentAfterSpace
          <6>2. cut + 1 \in 1 .. i
            BY <2>3
          <6> QED BY <6>1, <6>2
        <5> QED BY <5>2, <5>3
      <4> QED BY <2>1, <2>3, <4>1, <4>3, <4>4
    <3>2. CASE lexed_ # <<>> /\ lexed_[1].type = "END_OF_FILE"
      <4>1. /\ lexed_[1] \in Token /\ produced = Append(delivered, lexed_[1])
        <5>1. lexed_[1] \in Token
          BY <2>1, <3>2, EmptyOrOne
        <5>2. /\ produced = Append(delivered, produced[Len(delivered) + 1])
              /\ produced[Len(delivered) + 1] = lexed_[1]
          BY <2>1, <3>2, TheBufferedToken
        <5> QED BY <5>1, <5>2
      <4>2. /\ Len(produced) = Len(delivered) + 1
            /\ produced[Len(delivered) + 1] = lexed_[1]
            /\ \A m \in 1 .. Len(delivered) : produced[m] = delivered[m]
        BY <2>1, <4>1, AppendProperties
      <4>3. Len(delivered) + 1 > TokensUpTo(cut)
        <5>1. Len(delivered) + 1 \in 1 .. Len(produced)
          BY <2>3, <4>2
        <5> QED BY <2>2, <3>2, <4>2, <5>1 DEF TokensAre
      <4>4. ~(Len(delivered) > TokensUpTo(cut))
        <5> SUFFICES ASSUME Len(delivered) > TokensUpTo(cut) PROVE FALSE
          OBVIOUS
        <5>1. Len(delivered) \in 1 .. Len(produced) /\ Len(delivered) \in 1 .. Len(delivered)
          BY <2>3, <4>2
        <5>2. produced[Len(delivered)].type = "END_OF_FILE"
          BY <2>2, <5>1 DEF TokensAre
        <5> QED BY <2>1, <4>2, <5>1, <5>2 DEF PrintInv
      <4>5. content_ = <<>>
        <5>1. TokensUpTo(cut) < Len(produced)
          BY <2>3, <4>2, <4>3
        <5> QED BY <2>2, <5>1 DEF TokensAre
      <4>6. cut = Len(origin.content)
        <5>1. Len(content_) = 0 /\ Len(content_) = Len(origin.content) - cut
          BY <2>2, <4>5 DEF LeftIs
        <5> QED BY <2>3, <5>1
      <4>7. Len(printed) = TokensUpTo(cut)
        BY <2>1, <2>3, <4>3, <4>4
      <4>8. cut + 1 .. Len(origin.content) = {}
        BY <2>3, <4>6
      <4> QED BY <2>1, <4>2, <4>7, <4>8
    <3> QED BY <3>1, <3>2 DEF PrintInv
  <2>5. before = {i \in 1 .. cut : BecomesToken(i)}
    <3>1. ASSUME NEW i \in before PROVE i \in 1 .. cut /\ BecomesToken(i)
      <4>1. i \in 1 .. Len(origin.content) /\ BecomesToken(i)
            /\ \A k \in 1 .. i : origin.content[k].type # "UNLEXABLE"
        BY <2>3
      <4>2. ~(i \in cut + 1 .. Len(origin.content))
        BY <2>4, <4>1
      <4> QED BY <2>3, <4>1, <4>2
    <3>2. ASSUME NEW i \in 1 .. cut, BecomesToken(i) PROVE i \in before
      <4>1. i \in 1 .. Len(origin.content) /\ \A k \in 1 .. i : k \in 1 .. cut
        BY <2>3
      <4>2. \A k \in 1 .. cut : origin.content[k].type # "UNLEXABLE"
        BY <2>2 DEF LeftIs
      <4> QED BY <2>3, <3>2, <4>1, <4>2
    <3> HIDE DEF before
    <3> QED BY <3>1, <3>2
  <2> HIDE DEF before
  <2>6. Cardinality(before) = TokensUpTo(cut)
    BY <2>5 DEF TokensUpTo
  <2>7. ASSUME NEW i \in before
        PROVE  printed[TokensUpTo(i)].type = origin.content[i].type
    <3>1. i \in 1 .. cut /\ BecomesToken(i)
      BY <2>5
    <3>2. TokensUpTo(i) \in 1 .. TokensUpTo(cut)
      <4>1. i \in Nat /\ i <= cut /\ i # 0
        BY <2>3, <3>1
      <4> QED BY <2>3, <3>1, <4>1, NumbersGrow
    <3>3. printed[TokensUpTo(i)] = produced[TokensUpTo(i)]
      BY <2>4, <3>2
    <3>4. produced[TokensUpTo(i)].type = origin.content[i].type
      BY <2>2, <3>1 DEF TokensAre
    <3> QED BY <3>3, <3>4
  <2> QED BY <2>4, <2>6, <2>7
<1>2. MainSpec => []SourceInv
  BY MainIsAClient, SourceHolds, PTL
<1> QED BY <1>1, <1>2, MainInvHolds, PrintHolds, PTL
=============================================================================
