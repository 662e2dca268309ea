------------------------------- MODULE Lexer --------------------------------
(***************************************************************************)
(* lexing::Lexer: the source that is left, the position in it, and the     *)
(* buffer of tokens that were lexed and not yet popped.                    *)
(*                                                                         *)
(* The source is cut into lexemes, the stretches lexNext's ladder of       *)
(* patterns recognises; "UNLEXABLE" is a stretch no pattern matches (an    *)
(* unknown character, an unclosed string).  A public operation runs in     *)
(* steps: Call starts it, each LexForPeek lexes one token it lacks, and a  *)
(* step of its own ends it.  Private lexNext only runs inside these.       *)
(***************************************************************************)
EXTENDS Tokens, TextArea, Integers, Sequences, FiniteSets

CONSTANTS
    Contents,    (* the sources to start from: sequences of lexemes        *)
    Positions,   (* the values position_, which no constructor sets, may   *)
                 (* start with                                             *)
    Word,        (* 2^w, w the width of position_ and of an area's ends    *)
    MaxPeek,     (* the largest N the client instantiates peek<N> with     *)
    Types,       (* the types the client asks for                          *)
    MaxTokens    (* bound: tokens lexed in a behaviour                     *)

(* No pattern makes an END_OF_FILE. *)
Lexeme ==
    [type : (TokenTypes \ {"END_OF_FILE"}) \cup {"UNLEXABLE"}, size : Nat \ {0}]

ASSUME ContentsAssumption ==
    /\ Contents \subseteq Seq(Lexeme)
    /\ \A c \in Contents : \A i \in 1 .. Len(c) - 1 :
           (* ws_re and nl_re match as far as they can *)
           c[i].type \in {"WHITESPACE", "NEWLINE"} => c[i].type # c[i + 1].type
ASSUME PositionsAssumption == Word \in Nat \ {0} /\ Positions \subseteq 0 .. Word - 1
ASSUME MaxPeekAssumption == MaxPeek \in Nat \ {0}
ASSUME TypesAssumption == Types \subseteq TokenTypes
ASSUME MaxTokensAssumption == MaxTokens \in Nat

VARIABLES
    content_,    (* the lexemes that are left                              *)
    position_,   (* the position of the first of them                      *)
    lexed_,      (* the vector of tokens lexed and not yet popped          *)
    call,        (* the operation in progress                              *)
    undefined,   (* pop_back was called on an empty vector                 *)
    produced,    (* history: every token lexed, in source order            *)
    delivered,   (* history: every token popped, in the order of the       *)
                 (* calls, those of one pop<N> as in the vector            *)
    seen,        (* history: the tokens the last peek answered with        *)
    unwrapped,   (* history: where position_ would be if it had no width   *)
    origin       (* history: the content and position_ at the start        *)

vars == <<content_, position_, lexed_, call, undefined,
          produced, delivered, seen, unwrapped, origin>>

(* nth counts the tokens of the source: it only tells equal ones apart. *)
Token == [type : TokenTypes, area : Area, nth : Nat \ {0}]

Idle == [op |-> "none", n |-> 1, type |-> "END_OF_FILE"]

Calls ==
    [op : {"peek", "peek_and_pop"}, n : 1 .. MaxPeek, type : {"END_OF_FILE"}]
        \cup [op : {"next_is", "pop_next_is", "pop_token"}, n : {1}, type : Types]

Init ==
    /\ content_ \in Contents
    /\ position_ \in Positions
    /\ lexed_ = <<>>
    /\ call = Idle
    /\ undefined = FALSE
    /\ produced = <<>> /\ delivered = <<>> /\ seen = <<>>
    /\ unwrapped = position_
    /\ origin = [content |-> content_, position |-> position_]

-----------------------------------------------------------------------------
(* lexNext *)

(* Whitespace is skipped first, also on the way to an error. *)
AtWhitespace == content_ # <<>> /\ Head(content_).type = "WHITESPACE"

ContentAfterSpace == IF AtWhitespace THEN Tail(content_) ELSE content_

StartBeforeSpace == position_
StartNeverWraps == IF AtWhitespace THEN position_ + Head(content_).size ELSE position_
Start == IF AtWhitespace THEN (position_ + Head(content_).size) % Word ELSE position_

UnwrappedStart ==
    IF AtWhitespace THEN unwrapped + Head(content_).size ELSE unwrapped

Stuck == ContentAfterSpace # <<>> /\ Head(ContentAfterSpace).type = "UNLEXABLE"

(* The branch for newlines moves position_ itself and then calls           *)
(* moveForward, which moves it again.                                      *)
AdvanceNotAtNewline(lexeme) == IF lexeme.type = "NEWLINE" THEN 0 ELSE lexeme.size
Advance(lexeme) == IF lexeme.type = "NEWLINE" THEN 2 * lexeme.size ELSE lexeme.size

TokenAt(type, size) ==
    [type |-> type,
     area |-> [start |-> Start, end |-> (Start + size) % Word],
     nth |-> Len(produced) + 1]

Prepended(buffer, token) == <<token>> \o buffer
Appended(buffer, token) == Append(buffer, token)

(* lexNext finds a token and the caller appends it to the vector, which    *)
(* holds buffer.  At the end of the source it finds END_OF_FILE for ever.  *)
LexInto(buffer) ==
    /\ ~Stuck
    /\ Len(produced) < MaxTokens
    /\ IF ContentAfterSpace = <<>>
       THEN /\ lexed_' = Appended(buffer, TokenAt("END_OF_FILE", 0))
            /\ content_' = ContentAfterSpace
            /\ position_' = Start /\ unwrapped' = UnwrappedStart
            /\ produced' = Append(produced, TokenAt("END_OF_FILE", 0))
       ELSE LET lexeme == Head(ContentAfterSpace)
                token  == TokenAt(lexeme.type, lexeme.size)
            IN  /\ lexed_' = Appended(buffer, token)
                /\ content_' = Tail(ContentAfterSpace)
                /\ position_' = (Start + Advance(lexeme)) % Word
                /\ unwrapped' = UnwrappedStart + Advance(lexeme)
                /\ produced' = Append(produced, token)

LexFailsAtTheEnd(buffer) ==
    /\ Stuck \/ ContentAfterSpace = <<>>
    /\ lexed_' = buffer
    /\ content_' = ContentAfterSpace
    /\ position_' = Start /\ unwrapped' = UnwrappedStart
    /\ UNCHANGED <<produced>>

LexFailsAndSkips(buffer) ==
    /\ Stuck
    /\ lexed_' = buffer
    /\ content_' = Tail(ContentAfterSpace)
    /\ position_' = Start /\ unwrapped' = UnwrappedStart
    /\ UNCHANGED <<produced>>

(* lexNext finds an error: the vector and what is not whitespace stay. *)
LexFails(buffer) ==
    /\ Stuck
    /\ lexed_' = buffer
    /\ content_' = ContentAfterSpace
    /\ position_' = Start /\ unwrapped' = UnwrappedStart
    /\ UNCHANGED <<produced>>

-----------------------------------------------------------------------------
(* The public operations *)

(* vector::back *)
Back(s) == s[Len(s)]

(* What peek<1> and peek<N> answer with when the vector holds enough:      *)
(* peek<1> the last token of the vector, peek<N> its first N.              *)
Answer(n) == IF n = 1 THEN <<Back(lexed_)>> ELSE SubSeq(lexed_, 1, n)

(* A client starts an operation. *)
Call ==
    /\ call = Idle /\ ~undefined
    /\ call' \in Calls
    /\ UNCHANGED <<content_, position_, unwrapped, lexed_, undefined,
                   produced, delivered, seen, origin>>

(* pop<N>, of a client that pops no more than the vector holds             *)
(* (peek_and_pop does not heed this: see PeekAndPopFails).                 *)
Popped(n) == SubSeq(lexed_, Len(lexed_) - n + 1, Len(lexed_))

NothingRemoved(n) == lexed_
Rest(n) == SubSeq(lexed_, 1, Len(lexed_) - n)

PopTokens(n) ==
    /\ n <= Len(lexed_)
    /\ delivered' = delivered \o Popped(n)
    /\ lexed_' = Rest(n)

Pop ==
    /\ call = Idle /\ ~undefined
    /\ \E n \in 1 .. MaxPeek : PopTokens(n)
    /\ UNCHANGED <<content_, position_, unwrapped, call, undefined, produced, seen, origin>>

(* Every operation but pop_token begins with a peek<n>, which lexes        *)
(* the tokens the vector lacks, one after the other.                       *)
Peeks == call # Idle /\ call.op # "pop_token"

LexForPeek ==
    /\ Peeks /\ Len(lexed_) < call.n
    /\ LexInto(lexed_)
    /\ UNCHANGED <<call, undefined, delivered, seen, origin>>

(* The tokens lexed before the error stay in the vector. *)
PeekFails ==
    /\ Peeks /\ call.op # "peek_and_pop" /\ Len(lexed_) < call.n
    /\ LexFails(lexed_)
    /\ seen' = <<>>
    /\ call' = Idle
    /\ UNCHANGED <<undefined, delivered, origin>>

(* peek_and_pop<n> pops whether or not the peek succeeded, and pop_back    *)
(* on an empty vector is undefined behaviour.                              *)
PeekAndPopFails ==
    /\ call.op = "peek_and_pop" /\ Len(lexed_) < call.n
    /\ LexFails(<<>>)
    /\ delivered' = delivered \o Popped(Len(lexed_))
    /\ undefined' = TRUE
    /\ seen' = <<>>
    /\ call' = Idle
    /\ UNCHANGED origin

(* peek<n>, and the queries that answer from peek<1>: next_is,             *)
(* next_is_operator and the other three, next_area.                        *)
PeekEnds ==
    /\ call.op \in {"peek", "next_is"} /\ call.n <= Len(lexed_)
    /\ seen' = Answer(call.n)
    /\ call' = Idle
    /\ UNCHANGED <<content_, position_, unwrapped, lexed_, undefined,
                   produced, delivered, origin>>

PopNextIsEnds ==
    /\ call.op = "pop_next_is" /\ call.n <= Len(lexed_)
    /\ seen' = Answer(1)
    /\ IF Back(lexed_).type = call.type
       THEN PopTokens(1)
       ELSE UNCHANGED <<lexed_, delivered>>
    /\ call' = Idle
    /\ UNCHANGED <<content_, position_, unwrapped, undefined, produced, origin>>

PeekAndPopEnds ==
    /\ call.op = "peek_and_pop" /\ call.n <= Len(lexed_)
    /\ seen' = Answer(call.n)
    /\ PopTokens(call.n)
    /\ call' = Idle
    /\ UNCHANGED <<content_, position_, unwrapped, undefined, produced, origin>>

(* One turn of pop_token's loop pops the last token and peeks. *)
PopTokenTurn ==
    /\ call.op = "pop_token" /\ lexed_ # <<>> /\ Back(lexed_).type = call.type
    /\ delivered' = delivered \o Popped(1)
    /\ \/ /\ Len(lexed_) > 1
          /\ lexed_' = Rest(1)
          /\ UNCHANGED <<content_, position_, unwrapped, produced>>
       \/ /\ Len(lexed_) = 1
          /\ LexInto(<<>>) \/ LexFails(<<>>)
    /\ UNCHANGED <<call, undefined, seen, origin>>

PopTokenEnds ==
    /\ call.op = "pop_token"
    /\ lexed_ # <<>> => Back(lexed_).type # call.type
    /\ call' = Idle
    /\ UNCHANGED <<content_, position_, unwrapped, lexed_, undefined,
                   produced, delivered, seen, origin>>

Next ==
    \/ Call \/ Pop
    \/ LexForPeek \/ PeekFails \/ PeekAndPopFails
    \/ PeekEnds \/ PopNextIsEnds \/ PeekAndPopEnds
    \/ PopTokenTurn \/ PopTokenEnds

Spec == Init /\ [][Next]_vars

-----------------------------------------------------------------------------
(* Properties *)

TypeOK ==
    /\ content_ \in Seq(Lexeme)
    /\ position_ \in 0 .. Word - 1
    /\ lexed_ \in Seq(Token)
    /\ call \in Calls \cup {Idle}
    /\ undefined \in BOOLEAN
    /\ produced \in Seq(Token)
    /\ delivered \in Seq(Token)
    /\ seen \in Seq(Token)
    /\ unwrapped \in Nat

(* The tokens popped so far, followed by those in the vector, are the      *)
(* tokens of the source in source order: a pop hands out the oldest token  *)
(* that was not handed out.  True of a client that peeks one token at a    *)
(* time, as the parser does (Lexer::peek, Lexer::pop).                     *)
InSourceOrder == delivered \o lexed_ = produced

(* Whatever the client peeks, popped and buffered tokens together are the  *)
(* tokens of the source, each once, and the vector holds the oldest first: *)
(* an error in the middle of peek<N> loses none.                           *)
EachTokenOnce ==
    LET held == delivered \o lexed_ IN
    /\ Len(held) = Len(produced)
    /\ {held[i].nth : i \in 1 .. Len(held)} = 1 .. Len(produced)
    /\ \A i, j \in 1 .. Len(lexed_) : i < j => lexed_[i].nth < lexed_[j].nth

(* next_is and pop_next_is answer from the next token of the source, the   *)
(* oldest one that was not popped (Lexer.hpp:79: "checks if the next token *)
(* is of the given type").  False of a client that peeked two tokens.      *)
AsksTheNextToken ==
    [][call.op \in {"next_is", "pop_next_is"} /\ call' = Idle /\ lexed_ # <<>>
           => seen' = <<lexed_[1]>>]_vars

(* pop_back runs on an empty vector only after lexNext failed, that is in  *)
(* a peek_and_pop at an unlexable stretch of the source.                   *)
UndefinedOnlyIfStuck == undefined => Stuck /\ lexed_ = <<>>

(* Once lexNext fails it fails for ever, at the same place: no operation   *)
(* skips what it could not lex, and no token is lexed behind it.           *)
ErrorIsFinal ==
    [][Stuck => Stuck' /\ produced' = produced
                /\ ContentAfterSpace' = ContentAfterSpace /\ Start' = Start]_vars

(* As long as position_ has not wrapped, areas lie in source order and do  *)
(* not overlap, the double move at newlines included: TextArea::combine,   *)
(* which takes the least start and the greatest end, then is the stretch   *)
(* from the first of two nodes to the end of the second.                   *)
AreasOrdered ==
    unwrapped < Word =>
        \A i \in 1 .. Len(produced) :
            /\ produced[i].area.start <= produced[i].area.end
            /\ i < Len(produced) => produced[i].area.end <= produced[i + 1].area.start

(* The i-th lexeme of the source becomes a token: its number, if it is     *)
(* reached, is that of the lexemes up to it that do.                       *)
BecomesToken(i) == origin.content[i].type # "WHITESPACE"
TokensUpTo(i) == Cardinality({k \in 1 .. i : BecomesToken(k)})

(* How much of the source lies before each lexeme, and before its end. *)
Offsets ==
    LET before[i \in 0 .. Len(origin.content)] ==
            IF i = 0 THEN 0 ELSE before[i - 1] + origin.content[i].size
    IN  before

(* Inside a line the areas of two tokens lie as their texts do in the      *)
(* source: from the start of one to the start and to the end of the other  *)
(* it is as far, whitespace between them included and each token as wide   *)
(* as its text, even where positions wrap (lexNext, moveForward).  Behind  *)
(* a newline they do not: position_ moves twice there.                     *)
AreasOnALine ==
    \A i, j \in DOMAIN origin.content :
        /\ i <= j /\ BecomesToken(i) /\ BecomesToken(j)
        /\ TokensUpTo(j) <= Len(produced)
        /\ \A k \in i .. j - 1 : origin.content[k].type # "NEWLINE"
        => LET from == produced[TokensUpTo(i)].area
               to   == produced[TokensUpTo(j)].area
           IN  /\ (to.start - from.start) % Word = (Offsets[j - 1] - Offsets[i - 1]) % Word
               /\ (to.end - from.start) % Word = (Offsets[j] - Offsets[i - 1]) % Word

(* The Lexer of a client that peeks one token at a time is a stream: every *)
(* step looks at, takes or lexes the next token of the source.             *)
Stream == INSTANCE TokenStream

StreamSpec == Stream!Spec
=============================================================================
