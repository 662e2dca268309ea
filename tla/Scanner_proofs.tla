--------------------------- MODULE Scanner_proofs ---------------------------
(***************************************************************************)
(* Proofs about the Scanner, for every text: the first pattern that        *)
(* matches takes the longest lexeme there is, the integer literal it       *)
(* takes keeps its value, for every width of an integer, and each token    *)
(* stands alone: written apart from the others, it is the same token.      *)
(***************************************************************************)
EXTENDS Literals, Induction, SequenceTheorems

-----------------------------------------------------------------------------
(* Texts *)

LEMMA Prefix ==
    ASSUME NEW S, NEW text \in Seq(S), NEW n \in 0 .. Len(text)
    PROVE  /\ SubSeq(text, 1, n) \in Seq(S) /\ Len(SubSeq(text, 1, n)) = n
           /\ \A i \in 1 .. n : SubSeq(text, 1, n)[i] = text[i]
<1>1. \A i \in 1 .. n : text[i] \in S
  BY ElementOfSeq
<1> QED BY <1>1, SubSeqProperties

LEMMA Behind ==
    ASSUME NEW S, NEW text \in Seq(S), NEW n \in 0 .. Len(text)
    PROVE  /\ Drop(text, n) \in Seq(S) /\ Len(Drop(text, n)) = Len(text) - n
           /\ \A i \in 1 .. Len(text) - n : Drop(text, n)[i] = text[n + i]
<1>1. \A i \in n + 1 .. Len(text) : text[i] \in S
  BY ElementOfSeq
<1> QED BY <1>1, SubSeqProperties DEF Drop

(* The grammar's texts are the patterns' texts. *)
LEMMA SameTexts ==
    /\ Grammar!WordPieces = WordPieces /\ Grammar!Digits = Digits
    /\ Grammar!Pieces = Pieces /\ Grammar!Symbols = Symbols
    /\ Grammar!Keywords = Keywords
    /\ Grammar!Blank = Blank /\ Grammar!LineEnd = LineEnd
    /\ Grammar!Quote = Quote /\ Grammar!Backslash = Backslash
    /\ Grammar!Exponent = Exponent
    /\ \A text, i : Grammar!At(text, i) = At(text, i)
    /\ \A text, n : Grammar!Drop(text, n) = Drop(text, n)
    /\ \A text, word : Grammar!StartsWith(text, word) = StartsWith(text, word)
    /\ \A keyword : Grammar!KeywordText(keyword) = KeywordText(keyword)
<1>1. Grammar!Digits = Digits /\ Grammar!Symbols = Symbols /\ Grammar!Keywords = Keywords
      /\ Grammar!Blank = Blank /\ Grammar!LineEnd = LineEnd /\ Grammar!Quote = Quote
      /\ Grammar!Backslash = Backslash /\ Grammar!Exponent = Exponent
      /\ Grammar!Stray = Stray
  BY DEF Grammar!Digits, Digits, Grammar!Symbols, Symbols, Grammar!Keywords, Keywords,
         Grammar!Blank, Blank, Grammar!LineEnd, LineEnd, Grammar!Quote, Quote,
         Grammar!Backslash, Backslash, Grammar!Exponent, Exponent, Grammar!Stray, Stray
<1>2. Grammar!WordPieces = WordPieces
  BY <1>1 DEF Grammar!WordPieces, WordPieces, Grammar!Letters, Letters
<1>3. Grammar!Pieces = Pieces
  BY <1>1, <1>2 DEF Grammar!Pieces, Pieces
<1>4. /\ \A text, i : Grammar!At(text, i) = At(text, i)
      /\ \A text, n : Grammar!Drop(text, n) = Drop(text, n)
      /\ \A text, word : Grammar!StartsWith(text, word) = StartsWith(text, word)
  BY DEF Grammar!At, At, Grammar!Drop, Drop, Grammar!StartsWith, StartsWith
<1>5. \A keyword : Grammar!KeywordText(keyword) = KeywordText(keyword)
  BY DEF Grammar!KeywordText, KeywordText
<1> QED BY <1>1, <1>2, <1>3, <1>4, <1>5

-----------------------------------------------------------------------------
(* The patterns, piece by piece *)

(* A run is as long as it can be. *)
LEMMA SpanIs ==
    ASSUME NEW text \in Seq(Pieces), NEW set
    PROVE  /\ Span(text, set) \in 0 .. Len(text)
           /\ \A i \in 1 .. Span(text, set) : text[i] \in set
           /\ Span(text, set) < Len(text) => text[Span(text, set) + 1] \notin set
<1> DEFINE Ends == {n \in 0 .. Len(text) : n < Len(text) => text[n + 1] \notin set}
<1>1. Len(text) \in Nat
  BY LenProperties
<1>2. Ends \subseteq Nat /\ Len(text) \in Ends
  BY <1>1
<1>3. PICK n \in Ends : \A m \in Ends : n <= m
  BY <1>2, LeastNumber
<1>4. \A i \in 1 .. n : text[i] \in set
  <2> SUFFICES ASSUME NEW i \in 1 .. n, text[i] \notin set PROVE FALSE
    OBVIOUS
  <2>1. i - 1 \in 0 .. Len(text) /\ (i - 1) + 1 = i
    BY <1>1, <1>3
  <2>2. i - 1 \in Ends
    BY <2>1
  <2>3. n \in Nat /\ i \in Nat /\ i <= n
    BY <1>1, <1>2
  <2>4. n <= i - 1
    BY <1>3, <2>2
  <2> QED BY <2>3, <2>4
<1> QED BY <1>1, <1>3, <1>4 DEF Span

(* Nothing at the front of a text that is in the set is longer. *)
LEMMA SpanLongest ==
    ASSUME NEW text \in Seq(Pieces), NEW set, NEW n \in 0 .. Len(text),
           \A i \in 1 .. n : text[i] \in set
    PROVE  n <= Span(text, set)
<1>1. Len(text) \in Nat
  BY LenProperties
<1>2. SUFFICES ASSUME Span(text, set) < n PROVE FALSE
  BY <1>1, SpanIs
<1>3. Span(text, set) + 1 \in 1 .. n /\ Span(text, set) < Len(text)
  BY <1>1, <1>2, SpanIs
<1> QED BY <1>3, SpanIs

(* The first pieces of a text are of a set. *)
LEMMA PrefixAllIn ==
    ASSUME NEW text \in Seq(Pieces), NEW set, NEW n \in 0 .. Len(text)
    PROVE  Grammar!AllIn(SubSeq(text, 1, n), set) <=> \A i \in 1 .. n : text[i] \in set
BY Prefix DEF Grammar!AllIn

LEMMA AtIs ==
    ASSUME NEW text, NEW i
    PROVE  /\ i \in 1 .. Len(text) => At(text, i) = text[i]
           /\ i \notin 1 .. Len(text) => At(text, i) = "end of text"
BY DEF At

(* A word fits where its pieces stand. *)
LEMMA Starts ==
    ASSUME NEW text \in Seq(Pieces), NEW S, NEW word \in Seq(S)
    PROVE  StartsWith(text, word) <=>
               /\ Len(word) <= Len(text)
               /\ \A i \in 1 .. Len(word) : text[i] = word[i]
<1>1. Len(word) \in Nat /\ Len(text) \in Nat
  BY LenProperties
<1>2. CASE Len(word) <= Len(text)
  <2>1. /\ SubSeq(text, 1, Len(word)) \in Seq(Pieces)
        /\ Len(SubSeq(text, 1, Len(word))) = Len(word)
        /\ \A i \in 1 .. Len(word) : SubSeq(text, 1, Len(word))[i] = text[i]
    BY <1>1, <1>2, Prefix
  <2>2. SubSeq(text, 1, Len(word)) = word <=>
            \A i \in 1 .. Len(word) : SubSeq(text, 1, Len(word))[i] = word[i]
    BY <2>1, SeqEqual
  <2> QED BY <1>2, <2>1, <2>2 DEF StartsWith
<1>3. CASE ~(Len(word) <= Len(text))
  BY <1>3 DEF StartsWith
<1> QED BY <1>2, <1>3

(* The first pieces of a text are a word just where the text starts with   *)
(* it.                                                                     *)
LEMMA PrefixIsWord ==
    ASSUME NEW text \in Seq(Pieces), NEW S, NEW word \in Seq(S), NEW n \in 0 .. Len(text)
    PROVE  SubSeq(text, 1, n) = word <=> n = Len(word) /\ StartsWith(text, word)
<1>1. Len(SubSeq(text, 1, n)) = n
  BY Prefix
<1> QED BY <1>1 DEF StartsWith

-----------------------------------------------------------------------------
(* Types of tokens *)

OtherTypes ==
    {"WHITESPACE", "NEWLINE", "IDENTIFIER", "INTEGER", "DOUBLE", "STANDARD_STRING",
     "LINE_COMMENT_START"}

SymbolTypes ==
    {"COLON_COLON", "COLON", "DOT", "COMMA", "QUESTIONMARK", "R_ARROW", "L_ARROW",
     "LE", "GE", "EQ", "NEQ", "LAMBDA_ARROW", "DIVISION", "LT", "GT", "ASSIGN",
     "PLUS", "MINUS", "LOGICAL_NOT", "ASTERIX", "PERCENT", "L_PARANTHESIS",
     "R_PARANTHESIS", "L_BRACKET", "R_BRACKET", "LOGICAL_OR", "LOGICAL_AND",
     "BITWISE_OR", "BITWISE_AND", "SEMICOLON"}

LEMMA TypesApart ==
    /\ DOMAIN Symbols = SymbolTypes
    /\ SymbolTypes \cap Keywords = {}
    /\ OtherTypes \cap (SymbolTypes \cup Keywords) = {}
<1>1. DOMAIN Symbols = SymbolTypes
  BY DEF Symbols, SymbolTypes
<1>2. SymbolTypes \cap Keywords = {}
  BY DEF SymbolTypes, Keywords
<1>3. OtherTypes \cap SymbolTypes = {}
  BY DEF SymbolTypes, OtherTypes
<1>4. OtherTypes \cap Keywords = {}
  BY DEF Keywords, OtherTypes
<1> QED BY <1>1, <1>2, <1>3, <1>4

(* What a rule takes *)
LEMMA SizeOf ==
    ASSUME NEW text
    PROVE  /\ Size(text, "WHITESPACE") = Span(text, {Blank})
           /\ Size(text, "NEWLINE") = Span(text, {LineEnd})
           /\ Size(text, "IDENTIFIER") = Identifier(text)
           /\ Size(text, "DOUBLE") = Double(text)
           /\ Size(text, "INTEGER") = Integer(text)
           /\ Size(text, "STANDARD_STRING") = StandardString(text)
           /\ Size(text, "LINE_COMMENT_START") = Comment(text)
           /\ \A type \in Keywords : Size(text, type) = WholeWord(text, KeywordText(type))
           /\ \A type \in SymbolTypes : Size(text, type) = StartOfWord(text, Symbols[type])
<1>1. /\ Size(text, "WHITESPACE") = Span(text, {Blank})
      /\ Size(text, "NEWLINE") = Span(text, {LineEnd})
      /\ Size(text, "IDENTIFIER") = Identifier(text)
      /\ Size(text, "DOUBLE") = Double(text)
      /\ Size(text, "INTEGER") = Integer(text)
      /\ Size(text, "STANDARD_STRING") = StandardString(text)
      /\ Size(text, "LINE_COMMENT_START") = Comment(text)
  BY TypesApart DEF Size, OtherTypes
<1>2. \A type \in Keywords : Size(text, type) = WholeWord(text, KeywordText(type))
  BY TypesApart DEF Size, OtherTypes
<1>3. \A type \in SymbolTypes : Size(text, type) = StartOfWord(text, Symbols[type])
  BY TypesApart DEF Size, OtherTypes
<1> QED BY <1>1, <1>2, <1>3

(* What the lexemes of a type are *)
LEMMA LexemeOf ==
    ASSUME NEW text
    PROVE  /\ Grammar!IsLexeme(text, "WHITESPACE") <=>
                  text # <<>> /\ Grammar!AllIn(text, {Blank})
           /\ Grammar!IsLexeme(text, "NEWLINE") <=>
                  text # <<>> /\ Grammar!AllIn(text, {LineEnd})
           /\ Grammar!IsLexeme(text, "IDENTIFIER") <=>
                  Grammar!IsWord(text) /\ ~Grammar!IsReserved(text)
           /\ Grammar!IsLexeme(text, "DOUBLE") <=> Grammar!IsDouble(text)
           /\ Grammar!IsLexeme(text, "INTEGER") <=> Grammar!IsInteger(text)
           /\ Grammar!IsLexeme(text, "STANDARD_STRING") <=> Grammar!IsString(text)
           /\ Grammar!IsLexeme(text, "LINE_COMMENT_START") <=> Grammar!IsComment(text)
           /\ \A type \in Keywords : Grammar!IsLexeme(text, type) <=> text = KeywordText(type)
           /\ \A type \in SymbolTypes : Grammar!IsLexeme(text, type) <=> text = Symbols[type]
<1>1. /\ Grammar!IsLexeme(text, "WHITESPACE") <=>
             text # <<>> /\ Grammar!AllIn(text, {Blank})
      /\ Grammar!IsLexeme(text, "NEWLINE") <=>
             text # <<>> /\ Grammar!AllIn(text, {LineEnd})
      /\ Grammar!IsLexeme(text, "IDENTIFIER") <=>
             Grammar!IsWord(text) /\ ~Grammar!IsReserved(text)
      /\ Grammar!IsLexeme(text, "DOUBLE") <=> Grammar!IsDouble(text)
      /\ Grammar!IsLexeme(text, "INTEGER") <=> Grammar!IsInteger(text)
      /\ Grammar!IsLexeme(text, "STANDARD_STRING") <=> Grammar!IsString(text)
      /\ Grammar!IsLexeme(text, "LINE_COMMENT_START") <=> Grammar!IsComment(text)
  BY TypesApart, SameTexts
     DEF Grammar!IsLexeme, Grammar!IsKeyword, Grammar!IsSymbol, OtherTypes
<1>2. \A type \in Keywords : Grammar!IsLexeme(text, type) <=> text = KeywordText(type)
  BY TypesApart, SameTexts
     DEF Grammar!IsLexeme, Grammar!IsKeyword, Grammar!IsSymbol, OtherTypes
<1>3. \A type \in SymbolTypes : Grammar!IsLexeme(text, type) <=> text = Symbols[type]
  BY TypesApart, SameTexts
     DEF Grammar!IsLexeme, Grammar!IsKeyword, Grammar!IsSymbol, OtherTypes
<1> QED BY <1>1, <1>2, <1>3

LEMMA ShortTexts ==
    ASSUME NEW S, NEW x \in S, NEW y \in S
    PROVE  /\ <<x>> \in Seq(S) /\ Len(<<x>>) = 1 /\ <<x>>[1] = x
           /\ <<x, y>> \in Seq(S) /\ Len(<<x, y>>) = 2
           /\ <<x, y>>[1] = x /\ <<x, y>>[2] = y
OBVIOUS

(* What the words are *)
LEMMA WordsAre ==
    \A type \in Keywords :
        /\ KeywordText(type) \in Seq(WordPieces) /\ KeywordText(type) # <<>>
        /\ KeywordText(type)[1] \in WordPieces \ Digits
<1>1. \A piece \in Letters \cup {"_"} :
          /\ <<piece>> \in Seq(WordPieces) /\ <<piece>> # <<>>
          /\ <<piece>>[1] \in WordPieces \ Digits
  <2> TAKE piece \in Letters \cup {"_"}
  <2>1. piece \in WordPieces \ Digits
    BY DEF WordPieces, Letters, Digits, Exponent
  <2>2. <<piece>> \in Seq(WordPieces) /\ Len(<<piece>>) = 1 /\ <<piece>>[1] = piece
    BY <2>1, ShortTexts
  <2>3. <<piece>> # <<>>
    OBVIOUS
  <2> QED BY <2>1, <2>2, <2>3
<1>2. /\ KeywordText("TYPECLASS") \in Seq(WordPieces) /\ KeywordText("TYPECLASS") # <<>>
      /\ KeywordText("TYPECLASS")[1] \in WordPieces \ Digits
  <2>1. KeywordText("TYPECLASS") = <<"type", "class">>
    BY DEF KeywordText
  <2>2. "type" \in WordPieces \ Digits /\ "class" \in WordPieces
    BY DEF WordPieces, Letters, Digits, Exponent
  <2> DEFINE word == <<"type", "class">>
  <2>3. word \in Seq(WordPieces) /\ Len(word) = 2 /\ word[1] = "type"
    BY <2>2, ShortTexts
  <2>4. word # <<>>
    OBVIOUS
  <2> QED BY <2>1, <2>2, <2>3, <2>4
<1>3. \A type \in Keywords \ {"TYPECLASS"} :
          \E piece \in Letters \cup {"_"} : KeywordText(type) = <<piece>>
  BY DEF Keywords, KeywordText, Letters
<1> QED BY <1>1, <1>2, <1>3

-----------------------------------------------------------------------------
(* Words *)

(* identifier_re takes all of a word. *)
LEMMA IdentifierTaken ==
    ASSUME NEW text \in Seq(Pieces)
    PROVE  /\ Identifier(text) \in 0 .. Len(text)
           /\ Identifier(text) > 0 =>
                  /\ Grammar!IsWord(SubSeq(text, 1, Identifier(text)))
                  /\ Identifier(text) = Span(text, WordPieces)
           /\ \A m \in 1 .. Len(text) :
                  Grammar!IsWord(SubSeq(text, 1, m)) => m <= Identifier(text)
<1> DEFINE n == Span(text, WordPieces)
<1>1. Len(text) \in Nat
  BY LenProperties
<1>2. n \in 0 .. Len(text) /\ \A i \in 1 .. n : text[i] \in WordPieces
  BY SpanIs
<1>3. \A m \in 1 .. Len(text) :
          Grammar!IsWord(SubSeq(text, 1, m)) <=>
              /\ \A i \in 1 .. m : text[i] \in WordPieces
              /\ text[1] \notin Digits
  <2> TAKE m \in 1 .. Len(text)
  <2>1. /\ m \in 0 .. Len(text) /\ 1 \in 1 .. m
        /\ Len(SubSeq(text, 1, m)) = m /\ SubSeq(text, 1, m)[1] = text[1]
    BY <1>1, Prefix
  <2>2. SubSeq(text, 1, m) # <<>>
    BY <2>1
  <2>3. Grammar!AllIn(SubSeq(text, 1, m), WordPieces) <=>
            \A i \in 1 .. m : text[i] \in WordPieces
    BY <2>1, PrefixAllIn
  <2> QED BY <2>1, <2>2, <2>3, SameTexts DEF Grammar!IsWord
<1>4. Identifier(text) \in {0, n}
  BY DEF Identifier
<1>5. Identifier(text) > 0 => text[1] \notin Digits /\ Identifier(text) = n
  <2> SUFFICES ASSUME Identifier(text) > 0
               PROVE  text[1] \notin Digits /\ Identifier(text) = n
    OBVIOUS
  <2>1. At(text, 1) \in WordPieces \ Digits /\ Identifier(text) = n
    BY DEF Identifier
  <2>2. n > 0
    BY <2>1
  <2> HIDE DEF n
  <2>3. 1 \in 1 .. Len(text)
    BY <1>1, <1>2, <2>2
  <2> QED BY <2>1, <2>3, AtIs
<1>6. ASSUME NEW m \in 1 .. Len(text), Grammar!IsWord(SubSeq(text, 1, m))
      PROVE  m <= Identifier(text)
  <2>1. 1 \in 1 .. m /\ 1 \in 1 .. Len(text) /\ m \in 0 .. Len(text)
    BY <1>1
  <2>2. At(text, 1) \in WordPieces \ Digits
    BY <1>3, <1>6, <2>1 DEF At
  <2>3. m <= n
    BY <1>3, <1>6, <2>1, SpanLongest
  <2> QED BY <2>2, <2>3 DEF Identifier
<1> HIDE DEF n
<1>7. Identifier(text) \in 0 .. Len(text)
  BY <1>1, <1>2, <1>4
<1>8. Identifier(text) > 0 => Grammar!IsWord(SubSeq(text, 1, Identifier(text)))
  BY <1>1, <1>2, <1>3, <1>5, <1>7
<1> QED BY <1>5, <1>6, <1>7, <1>8 DEF n

(* A keyword is taken where it is all of a word, and no shorter. *)
LEMMA KeywordTaken ==
    ASSUME NEW text \in Seq(Pieces), NEW type \in Keywords
    PROVE  LET n == WholeWord(text, KeywordText(type)) IN
           /\ n \in 0 .. Len(text)
           /\ n > 0 => SubSeq(text, 1, n) = KeywordText(type) /\ n = Identifier(text)
           /\ \A m \in 1 .. Len(text) :
                  SubSeq(text, 1, m) = KeywordText(type) =>
                      m <= Identifier(text) /\ (m = Identifier(text) => n = m)
<1> DEFINE word == KeywordText(type)
           n    == WholeWord(text, word)
<1>1. /\ word \in Seq(WordPieces) /\ Len(word) \in Nat \ {0}
      /\ word[1] \in WordPieces \ Digits
      /\ \A i \in 1 .. Len(word) : word[i] \in WordPieces
  BY WordsAre, EmptySeq, ElementOfSeq
<1>2. Len(text) \in Nat
  BY LenProperties
<1> HIDE DEF word
<1>3. /\ StartsWith(text, word) <=> Len(word) <= Len(text)
                                    /\ \A i \in 1 .. Len(word) : text[i] = word[i]
      /\ \A m \in 0 .. Len(text) :
             SubSeq(text, 1, m) = word <=> m = Len(word) /\ StartsWith(text, word)
  BY <1>1, Starts, PrefixIsWord
<1>4. /\ Span(text, WordPieces) \in 0 .. Len(text)
      /\ \A i \in 1 .. Span(text, WordPieces) : text[i] \in WordPieces
      /\ Span(text, WordPieces) < Len(text) => text[Span(text, WordPieces) + 1] \notin WordPieces
  BY SpanIs
<1>5. ASSUME StartsWith(text, word)
      PROVE  Len(word) <= Identifier(text) /\ Identifier(text) = Span(text, WordPieces)
  <2>1. 1 \in 1 .. Len(word) /\ Len(word) <= Len(text) /\ Len(word) \in 0 .. Len(text)
        /\ \A i \in 1 .. Len(word) : text[i] \in WordPieces
    BY <1>1, <1>2, <1>3, <1>5
  <2>2. At(text, 1) = text[1] /\ text[1] = word[1]
    <3>1. 1 \in 1 .. Len(text)
      BY <1>1, <1>2, <2>1
    <3> QED BY <1>3, <1>5, <2>1, <3>1, AtIs
  <2>3. Len(word) <= Span(text, WordPieces)
    BY <2>1, SpanLongest
  <2> QED BY <1>1, <2>2, <2>3 DEF Identifier
<1> DEFINE k == Len(word)
           span == Span(text, WordPieces)
<1>6. StartsWith(text, word) =>
          (At(text, k + 1) \notin WordPieces <=> k = Identifier(text))
  <2> SUFFICES ASSUME StartsWith(text, word)
               PROVE  At(text, k + 1) \notin WordPieces <=> k = span
    BY <1>5
  <2>1. "end of text" \notin WordPieces
    BY DEF WordPieces, Letters, Digits, Exponent
  <2>2. /\ k \in Nat /\ span \in Nat /\ k <= span /\ span <= Len(text)
    BY <1>1, <1>2, <1>4, <1>5
  <2>6. /\ \A i \in 1 .. span : text[i] \in WordPieces
        /\ span < Len(text) => text[span + 1] \notin WordPieces
    BY <1>4
  <2> HIDE DEF k, span
  <2>3. CASE k = span /\ k < Len(text)
    <3>1. k + 1 \in 1 .. Len(text)
      BY <1>2, <2>2, <2>3
    <3> QED BY <2>6, <2>3, <3>1, AtIs
  <2>4. CASE k = span /\ ~(k < Len(text))
    <3>1. k + 1 \notin 1 .. Len(text)
      BY <1>2, <2>2, <2>4
    <3> QED BY <2>1, <2>4, <3>1, AtIs
  <2>5. CASE k < span
    <3>1. k + 1 \in 1 .. Len(text) /\ k + 1 \in 1 .. span
      BY <1>2, <2>2, <2>5
    <3>2. At(text, k + 1) \in WordPieces
      BY <2>6, <3>1, AtIs
    <3> QED BY <2>2, <2>5, <3>2
  <2> QED BY <2>2, <2>3, <2>4, <2>5
<1>7. n = IF StartsWith(text, word) /\ Len(word) = Identifier(text) THEN Len(word) ELSE 0
  BY <1>6 DEF WholeWord
<1> HIDE DEF n
<1>8. n \in 0 .. Len(text) /\ (n > 0 => SubSeq(text, 1, n) = word /\ n = Identifier(text))
  BY <1>1, <1>2, <1>3, <1>7
<1>9. ASSUME NEW m \in 1 .. Len(text), SubSeq(text, 1, m) = word
      PROVE  m <= Identifier(text) /\ (m = Identifier(text) => n = m)
  BY <1>2, <1>3, <1>5, <1>7, <1>9
<1> QED BY <1>8, <1>9 DEF n, word

-----------------------------------------------------------------------------
(* Runs and numbers *)

(* A run of pieces of a set is taken whole. *)
LEMMA RunTaken ==
    ASSUME NEW text \in Seq(Pieces), NEW set
    PROVE  /\ Span(text, set) \in 0 .. Len(text)
           /\ Grammar!AllIn(SubSeq(text, 1, Span(text, set)), set)
           /\ \A m \in 0 .. Len(text) :
                  Grammar!AllIn(SubSeq(text, 1, m), set) => m <= Span(text, set)
<1>1. \A m \in 0 .. Len(text) :
          Grammar!AllIn(SubSeq(text, 1, m), set) <=> \A i \in 1 .. m : text[i] \in set
  BY PrefixAllIn
<1>2. \A m \in 0 .. Len(text) :
          (\A i \in 1 .. m : text[i] \in set) => m <= Span(text, set)
  BY SpanLongest
<1> QED BY <1>1, <1>2, SpanIs

LEMMA Cuts ==
    ASSUME NEW S, NEW text \in Seq(S), NEW m \in 0 .. Len(text), NEW n \in 0 .. m
    PROVE  /\ SubSeq(SubSeq(text, 1, m), 1, n) = SubSeq(text, 1, n)
           /\ Drop(SubSeq(text, 1, m), n) = SubSeq(Drop(text, n), 1, m - n)
<1> DEFINE front == SubSeq(text, 1, m)
           rest  == Drop(text, n)
<1>1. Len(text) \in Nat /\ n \in 0 .. Len(text) /\ m - n \in 0 .. Len(text) - n
  BY LenProperties
<1>2. /\ front \in Seq(S) /\ Len(front) = m
      /\ \A i \in 1 .. m : front[i] = text[i]
  BY Prefix
<1>3. /\ rest \in Seq(S) /\ Len(rest) = Len(text) - n
      /\ \A i \in 1 .. Len(text) - n : rest[i] = text[n + i]
  BY <1>1, Behind
<1> HIDE DEF front, rest
<1>4. SubSeq(front, 1, n) = SubSeq(text, 1, n)
  <2>1. /\ SubSeq(front, 1, n) \in Seq(S) /\ Len(SubSeq(front, 1, n)) = n
        /\ \A i \in 1 .. n : SubSeq(front, 1, n)[i] = front[i]
    BY <1>2, Prefix
  <2>2. /\ SubSeq(text, 1, n) \in Seq(S) /\ Len(SubSeq(text, 1, n)) = n
        /\ \A i \in 1 .. n : SubSeq(text, 1, n)[i] = text[i]
    BY <1>1, Prefix
  <2>3. \A i \in 1 .. n : SubSeq(front, 1, n)[i] = SubSeq(text, 1, n)[i]
    BY <1>1, <1>2, <2>1, <2>2
  <2> QED BY <2>1, <2>2, <2>3, SeqEqual
<1>5. Drop(front, n) = SubSeq(rest, 1, m - n)
  <2>1. /\ Drop(front, n) \in Seq(S) /\ Len(Drop(front, n)) = m - n
        /\ \A i \in 1 .. m - n : Drop(front, n)[i] = front[n + i]
    BY <1>2, Behind
  <2>2. /\ SubSeq(rest, 1, m - n) \in Seq(S) /\ Len(SubSeq(rest, 1, m - n)) = m - n
        /\ \A i \in 1 .. m - n : SubSeq(rest, 1, m - n)[i] = rest[i]
    BY <1>1, <1>3, Prefix
  <2>3. \A i \in 1 .. m - n : Drop(front, n)[i] = SubSeq(rest, 1, m - n)[i]
    <3> TAKE i \in 1 .. m - n
    <3>1. n + i \in 1 .. m /\ i \in 1 .. Len(text) - n
      BY <1>1
    <3> QED BY <1>2, <1>3, <2>1, <2>2, <3>1
  <2> QED BY <2>1, <2>2, <2>3, SeqEqual
<1> QED BY <1>4, <1>5 DEF front, rest

(* Cutting twice is cutting once. *)
LEMMA CutsAdd ==
    ASSUME NEW S, NEW text \in Seq(S), NEW n \in 0 .. Len(text), NEW m \in 0 .. Len(text) - n
    PROVE  Drop(Drop(text, n), m) = Drop(text, n + m)
<1> DEFINE rest == Drop(text, n)
<1>1. Len(text) \in Nat /\ n + m \in 0 .. Len(text)
  BY LenProperties
<1>2. /\ rest \in Seq(S) /\ Len(rest) = Len(text) - n
      /\ \A i \in 1 .. Len(text) - n : rest[i] = text[n + i]
  BY Behind
<1> HIDE DEF rest
<1>3. /\ Drop(rest, m) \in Seq(S) /\ Len(Drop(rest, m)) = (Len(text) - n) - m
      /\ \A i \in 1 .. (Len(text) - n) - m : Drop(rest, m)[i] = rest[m + i]
  <2>1. m \in 0 .. Len(rest)
    BY <1>2
  <2>2. /\ Drop(rest, m) \in Seq(S) /\ Len(Drop(rest, m)) = Len(rest) - m
        /\ \A i \in 1 .. Len(rest) - m : Drop(rest, m)[i] = rest[m + i]
    BY <1>2, <2>1, Behind
  <2> QED BY <1>2, <2>2
<1>4. /\ Drop(text, n + m) \in Seq(S) /\ Len(Drop(text, n + m)) = Len(text) - (n + m)
      /\ \A i \in 1 .. Len(text) - (n + m) : Drop(text, n + m)[i] = text[(n + m) + i]
  BY <1>1, Behind
<1>5. Len(Drop(rest, m)) = Len(Drop(text, n + m))
  <2>1. (Len(text) - n) - m = Len(text) - (n + m)
    BY <1>1
  <2> QED BY <1>3, <1>4, <2>1
<1>6. \A i \in 1 .. Len(Drop(rest, m)) : Drop(rest, m)[i] = Drop(text, n + m)[i]
  <2> TAKE i \in 1 .. Len(Drop(rest, m))
  <2>1. /\ i \in 1 .. (Len(text) - n) - m /\ i \in 1 .. Len(text) - (n + m)
        /\ m + i \in 1 .. Len(text) - n /\ n + (m + i) = (n + m) + i
    BY <1>1, <1>3
  <2> QED BY <1>2, <1>3, <1>4, <2>1
<1> QED BY <1>3, <1>4, <1>5, <1>6, SeqEqual DEF rest

LEMMA NumberIs ==
    ASSUME NEW text \in Seq(Pieces), NEW m \in 0 .. Len(text)
    PROVE  Grammar!IsNumber(SubSeq(text, 1, m)) <=>
               m > 0 /\ \A i \in 1 .. m : text[i] \in Digits
<1>1. SubSeq(text, 1, m) # <<>> <=> m > 0
  BY Prefix, EmptySeq
<1> QED BY <1>1, PrefixAllIn, SameTexts DEF Grammar!IsNumber

(* integer_re takes a number without leading zeros. *)
LEMMA IntegerTaken ==
    ASSUME NEW text \in Seq(Pieces)
    PROVE  /\ Integer(text) \in 0 .. Len(text)
           /\ Integer(text) > 0 => Grammar!IsInteger(SubSeq(text, 1, Integer(text)))
           /\ \A m \in 1 .. Len(text) :
                  Grammar!IsInteger(SubSeq(text, 1, m)) => m <= Integer(text)
<1> DEFINE n == Span(text, Digits)
<1>1. Len(text) \in Nat /\ "end of text" # "0" /\ "0" \in Digits
  BY LenProperties DEF Digits
<1>2. n \in 0 .. Len(text) /\ \A i \in 1 .. n : text[i] \in Digits
  BY SpanIs
<1>3. \A m \in 1 .. Len(text) :
          (\A i \in 1 .. m : text[i] \in Digits) => m <= n
  BY SpanLongest
<1> HIDE DEF n
<1>4. \A m \in 1 .. Len(text) :
          Grammar!IsInteger(SubSeq(text, 1, m)) <=>
              /\ \A i \in 1 .. m : text[i] \in Digits
              /\ text[1] = "0" => m = 1
  <2> TAKE m \in 1 .. Len(text)
  <2>1. /\ m \in 0 .. Len(text) /\ m > 0 /\ 1 \in 1 .. m
        /\ Len(SubSeq(text, 1, m)) = m /\ SubSeq(text, 1, m)[1] = text[1]
    BY <1>1, Prefix
  <2> QED BY <2>1, NumberIs DEF Grammar!IsInteger
<1>5. CASE At(text, 1) = "0"
  <2>1. 1 \in 1 .. Len(text) /\ text[1] = "0" /\ Integer(text) = 1
    BY <1>1, <1>5, AtIs DEF Integer
  <2>2. Grammar!IsInteger(SubSeq(text, 1, 1))
    BY <1>1, <1>4, <2>1
  <2> QED BY <1>1, <1>4, <2>1, <2>2
<1>6. CASE At(text, 1) # "0"
  <2>1. Integer(text) = n
    BY <1>6 DEF Integer, n
  <2>2. 1 \in 1 .. Len(text) => text[1] # "0"
    BY <1>6, AtIs
  <2>3. n > 0 => Grammar!IsInteger(SubSeq(text, 1, n))
    <3> SUFFICES ASSUME n > 0 PROVE Grammar!IsInteger(SubSeq(text, 1, n))
      OBVIOUS
    <3>1. n \in 1 .. Len(text) /\ 1 \in 1 .. Len(text)
      BY <1>1, <1>2
    <3> QED BY <1>2, <1>4, <2>2, <3>1
  <2> QED BY <1>2, <1>3, <1>4, <2>1, <2>3
<1> QED BY <1>5, <1>6

(* A prefix of a text begins as the text does. *)
LEMMA PrefixAt ==
    ASSUME NEW text \in Seq(Pieces), NEW m \in 0 .. Len(text), NEW i \in 1 .. m
    PROVE  At(SubSeq(text, 1, m), i) = text[i] /\ At(text, i) = text[i]
<1>1. Len(text) \in Nat
  BY LenProperties
<1>2. i \in 1 .. Len(text)
  BY <1>1
<1>3. Len(SubSeq(text, 1, m)) = m /\ SubSeq(text, 1, m)[i] = text[i]
  BY Prefix
<1> QED BY <1>2, <1>3, AtIs

(* Behind the letter of an exponent *)
Sign(text) == IF At(text, 2) \in {"+", "-"} THEN 1 ELSE 0

LEMMA ExponentIs ==
    ASSUME NEW text \in Seq(Pieces), NEW m \in 0 .. Len(text)
    PROVE  Grammar!IsExponent(SubSeq(text, 1, m)) <=>
               /\ m > 0 /\ At(text, 1) = Exponent
               /\ \/ Grammar!IsNumber(SubSeq(Drop(text, 1), 1, m - 1))
                  \/ /\ m > 1 /\ At(text, 2) \in {"+", "-"}
                     /\ Grammar!IsNumber(SubSeq(Drop(text, 2), 1, m - 2))
<1> DEFINE front == SubSeq(text, 1, m)
<1>1. /\ Len(text) \in Nat /\ m \in Nat
      /\ Len(front) = m /\ (front # <<>> <=> m > 0)
  BY LenProperties, Prefix, EmptySeq
<1>2. m > 0 => /\ front[1] = At(text, 1)
               /\ Drop(front, 1) = SubSeq(Drop(text, 1), 1, m - 1)
  <2> SUFFICES ASSUME m > 0
               PROVE  /\ front[1] = At(text, 1)
                      /\ Drop(front, 1) = SubSeq(Drop(text, 1), 1, m - 1)
    OBVIOUS
  <2>1. 1 \in 1 .. m /\ 1 \in 0 .. m
    BY <1>1
  <2> QED BY <2>1, PrefixAt, Prefix, Cuts
<1>3. m > 1 => /\ At(front, 2) = At(text, 2)
               /\ Drop(front, 2) = SubSeq(Drop(text, 2), 1, m - 2)
  <2> SUFFICES ASSUME m > 1
               PROVE  /\ At(front, 2) = At(text, 2)
                      /\ Drop(front, 2) = SubSeq(Drop(text, 2), 1, m - 2)
    OBVIOUS
  <2>1. 2 \in 1 .. m /\ 2 \in 0 .. m
    BY <1>1
  <2> QED BY <2>1, PrefixAt, Cuts
<1>4. ~(m > 1) => At(front, 2) \notin {"+", "-"}
  <2> SUFFICES ASSUME ~(m > 1) PROVE At(front, 2) \notin {"+", "-"}
    OBVIOUS
  <2>1. 2 \notin 1 .. Len(front)
    BY <1>1
  <2> QED BY <2>1, AtIs
<1> HIDE DEF front
<1>5. Grammar!IsExponent(front) <=>
          /\ front # <<>> /\ front[1] = Exponent
          /\ \/ Grammar!IsNumber(Drop(front, 1))
             \/ At(front, 2) \in {"+", "-"} /\ Grammar!IsNumber(Drop(front, 2))
  BY SameTexts DEF Grammar!IsExponent
<1>6. CASE m > 1
  BY <1>1, <1>2, <1>3, <1>5, <1>6 DEF front
<1>7. CASE ~(m > 1)
  BY <1>1, <1>2, <1>4, <1>5, <1>7 DEF front
<1> QED BY <1>6, <1>7

(* An exponent is taken whole, or not at all if it has no digits. *)
LEMMA ExponentTaken ==
    ASSUME NEW text \in Seq(Pieces)
    PROVE  /\ OptionalExponent(text) \in 0 .. Len(text)
           /\ OptionalExponent(text) > 0 =>
                  Grammar!IsExponent(SubSeq(text, 1, OptionalExponent(text)))
           /\ \A m \in 0 .. Len(text) :
                  Grammar!IsExponent(SubSeq(text, 1, m)) => m <= OptionalExponent(text)
<1> DEFINE s == Sign(text)
           tail == Drop(text, 1 + s)
           d == Span(tail, Digits)
           e == OptionalExponent(text)
<1>1. Len(text) \in Nat /\ s \in {0, 1}
  BY LenProperties DEF Sign
<1>2. e = IF At(text, 1) = Exponent /\ d > 0 THEN 1 + s + d ELSE 0
  BY DEF OptionalExponent, Sign
<1>3. CASE At(text, 1) # Exponent
  <2>1. \A m \in 0 .. Len(text) : ~Grammar!IsExponent(SubSeq(text, 1, m))
    BY <1>3, ExponentIs
  <2> QED BY <1>1, <1>2, <1>3, <2>1
<1>4. CASE At(text, 1) = Exponent
  <2>1. "end of text" # Exponent /\ "end of text" \notin {"+", "-"}
    BY DEF Exponent
  <2>2. 1 \in 1 .. Len(text) /\ (s = 1 => 2 \in 1 .. Len(text))
    BY <1>4, <2>1, AtIs DEF Sign
  <2>3. 1 + s \in 0 .. Len(text)
    BY <1>1, <2>2
  <2>4. tail \in Seq(Pieces) /\ Len(tail) = Len(text) - (1 + s)
    BY <2>3, Behind
  <2>5. /\ d \in 0 .. Len(tail)
        /\ \A i \in 1 .. d : tail[i] \in Digits
    BY <2>4, SpanIs
  <2>6. \A m \in 0 .. Len(tail) :
            Grammar!IsNumber(SubSeq(tail, 1, m)) <=>
                m > 0 /\ \A i \in 1 .. m : tail[i] \in Digits
    BY <2>4, NumberIs
  <2>7. \A m \in 0 .. Len(tail) : (\A i \in 1 .. m : tail[i] \in Digits) => m <= d
    BY <2>4, SpanLongest
  <2> HIDE DEF d, tail
  <2>8. e \in 0 .. Len(text) /\ (e > 0 => e - (1 + s) = d /\ d > 0)
    BY <1>1, <1>2, <2>3, <2>4, <2>5
  <2> HIDE DEF e
  <2>9. e > 0 => Grammar!IsNumber(SubSeq(tail, 1, e - (1 + s)))
    BY <2>5, <2>6, <2>8
  <2>10. s = 0 \/ s = 1
    BY <1>1
  <2>11. CASE s = 0
    <3>1. tail = Drop(text, 1) /\ At(text, 2) \notin {"+", "-"}
      BY <2>11 DEF tail, Sign
    <3>2. \A m \in 0 .. Len(text) :
              Grammar!IsExponent(SubSeq(text, 1, m)) <=>
                  m > 0 /\ Grammar!IsNumber(SubSeq(tail, 1, m - 1))
      BY <1>4, <3>1, ExponentIs
    <3>3. e > 0 => Grammar!IsExponent(SubSeq(text, 1, e))
      BY <2>8, <2>9, <2>11, <3>2
    <3>4. ASSUME NEW m \in 0 .. Len(text), Grammar!IsExponent(SubSeq(text, 1, m))
          PROVE  m <= e
      <4>1. m > 0 /\ Grammar!IsNumber(SubSeq(tail, 1, m - 1)) /\ m - 1 \in 0 .. Len(tail)
        BY <1>1, <2>4, <2>11, <3>2, <3>4
      <4>2. m - 1 > 0 /\ m - 1 <= d
        BY <2>6, <2>7, <4>1
      <4> QED BY <1>2, <1>4, <2>5, <2>11, <4>2 DEF e
    <3> QED BY <2>8, <3>3, <3>4 DEF e
  <2>12. CASE s = 1
    <3>1. tail = Drop(text, 2) /\ At(text, 2) \in {"+", "-"}
      BY <2>12 DEF tail, Sign
    <3>2. \A m \in 0 .. Len(text) :
              m > 0 => ~Grammar!IsNumber(SubSeq(Drop(text, 1), 1, m - 1))
      <4> SUFFICES ASSUME NEW m \in 0 .. Len(text), m > 0,
                          Grammar!IsNumber(SubSeq(Drop(text, 1), 1, m - 1))
                   PROVE  FALSE
        OBVIOUS
      <4>1. /\ 1 \in 0 .. Len(text) /\ 2 \in 1 .. Len(text)
            /\ 1 \in 1 .. Len(text) - 1 /\ m - 1 \in 0 .. Len(text) - 1
        BY <1>1, <2>2, <2>12
      <4>2. /\ Drop(text, 1) \in Seq(Pieces) /\ Len(Drop(text, 1)) = Len(text) - 1
            /\ Drop(text, 1)[1] = text[2]
        BY <4>1, Behind
      <4>3. m - 1 > 0 /\ \A i \in 1 .. m - 1 : Drop(text, 1)[i] \in Digits
        BY <4>1, <4>2, NumberIs
      <4>4. Drop(text, 1)[1] \in Digits
        BY <1>1, <4>3
      <4>5. text[2] \in {"+", "-"}
        BY <3>1, <4>1, AtIs
      <4> QED BY <4>2, <4>4, <4>5 DEF Digits
    <3>3. \A m \in 0 .. Len(text) :
              Grammar!IsExponent(SubSeq(text, 1, m)) <=>
                  m > 1 /\ Grammar!IsNumber(SubSeq(tail, 1, m - 2))
      BY <1>4, <3>1, <3>2, ExponentIs
    <3>4. e > 0 => Grammar!IsExponent(SubSeq(text, 1, e))
      <4>1. e > 0 => e > 1 /\ e - (1 + s) = e - 2
        BY <2>5, <2>8, <2>12
      <4> QED BY <2>8, <2>9, <3>3, <4>1
    <3>5. ASSUME NEW m \in 0 .. Len(text), Grammar!IsExponent(SubSeq(text, 1, m))
          PROVE  m <= e
      <4>1. m > 1 /\ Grammar!IsNumber(SubSeq(tail, 1, m - 2)) /\ m - 2 \in 0 .. Len(tail)
        BY <1>1, <2>4, <2>12, <3>3, <3>5
      <4>2. m - 2 > 0 /\ m - 2 <= d
        BY <2>6, <2>7, <4>1
      <4> QED BY <1>2, <1>4, <2>5, <2>12, <4>2 DEF e
    <3> QED BY <2>8, <3>4, <3>5 DEF e
  <2> QED BY <2>10, <2>11, <2>12
<1> QED BY <1>3, <1>4

LEMMA FractionIs ==
    ASSUME NEW text \in Seq(Pieces), NEW m \in 0 .. Len(text)
    PROVE  Grammar!IsFraction(SubSeq(text, 1, m)) <=>
               \E n \in 0 .. m :
                   /\ \A i \in 1 .. n : text[i] \in Digits
                   /\ n = m \/ Grammar!IsExponent(SubSeq(Drop(text, n), 1, m - n))
<1> DEFINE front == SubSeq(text, 1, m)
<1>1. Len(text) \in Nat /\ Len(front) = m
  BY LenProperties, Prefix
<1>2. \A n \in 0 .. m :
          /\ SubSeq(front, 1, n) = SubSeq(text, 1, n)
          /\ Drop(front, n) = SubSeq(Drop(text, n), 1, m - n)
  BY Cuts
<1>3. \A n \in 0 .. m :
          Grammar!AllIn(SubSeq(text, 1, n), Digits) <=> \A i \in 1 .. n : text[i] \in Digits
  <2> TAKE n \in 0 .. m
  <2>1. n \in 0 .. Len(text)
    BY <1>1
  <2> QED BY <2>1, PrefixAllIn
<1> HIDE DEF front
<1>4. Grammar!IsFraction(front) <=>
          \E n \in 0 .. m :
              /\ Grammar!AllIn(SubSeq(front, 1, n), Digits)
              /\ n = m \/ Grammar!IsExponent(Drop(front, n))
  BY <1>1, SameTexts DEF Grammar!IsFraction
<1> QED BY <1>2, <1>3, <1>4 DEF front

(* What a double has behind its dot *)
Fraction(text) ==
    Span(text, Digits) + OptionalExponent(Drop(text, Span(text, Digits)))

LEMMA FractionTaken ==
    ASSUME NEW text \in Seq(Pieces)
    PROVE  /\ Fraction(text) \in 0 .. Len(text)
           /\ Grammar!IsFraction(SubSeq(text, 1, Fraction(text)))
           /\ \A m \in 0 .. Len(text) :
                  Grammar!IsFraction(SubSeq(text, 1, m)) => m <= Fraction(text)
<1> DEFINE k == Span(text, Digits)
           rest == Drop(text, k)
           x == OptionalExponent(rest)
<1>1. Len(text) \in Nat
  BY LenProperties
<1>2. /\ k \in 0 .. Len(text)
      /\ \A i \in 1 .. k : text[i] \in Digits
  BY SpanIs
<1>3. \A n \in 0 .. Len(text) : (\A i \in 1 .. n : text[i] \in Digits) => n <= k
  BY SpanLongest
<1> HIDE DEF k
<1>4. rest \in Seq(Pieces) /\ Len(rest) = Len(text) - k
  BY <1>2, Behind
<1> HIDE DEF rest
<1>5. /\ x \in 0 .. Len(rest)
      /\ x > 0 => Grammar!IsExponent(SubSeq(rest, 1, x))
      /\ \A m \in 0 .. Len(rest) : Grammar!IsExponent(SubSeq(rest, 1, m)) => m <= x
  BY <1>4, ExponentTaken
<1> HIDE DEF x
<1>6. Fraction(text) = k + x
  BY DEF Fraction, x, rest, k
<1>7. k + x \in 0 .. Len(text) /\ k \in 0 .. k + x /\ (k + x) - k = x
  BY <1>1, <1>2, <1>4, <1>5
<1>8. Grammar!IsFraction(SubSeq(text, 1, k + x))
  <2>1. k = k + x \/ Grammar!IsExponent(SubSeq(Drop(text, k), 1, (k + x) - k))
    <3>1. CASE x = 0
      BY <1>2, <3>1
    <3>2. CASE x > 0
      BY <1>5, <1>7, <3>2 DEF rest
    <3> QED BY <1>1, <1>4, <1>5, <3>1, <3>2
  <2> QED BY <1>2, <1>7, <2>1, FractionIs
<1>9. ASSUME NEW m \in 0 .. Len(text), Grammar!IsFraction(SubSeq(text, 1, m))
      PROVE  m <= k + x
  <2>1. PICK n \in 0 .. m :
            /\ \A i \in 1 .. n : text[i] \in Digits
            /\ n = m \/ Grammar!IsExponent(SubSeq(Drop(text, n), 1, m - n))
    BY <1>9, FractionIs
  <2>2. n \in 0 .. Len(text) /\ n <= k
    BY <1>1, <1>3, <2>1
  <2>3. CASE n = m
    BY <1>1, <1>2, <1>4, <1>5, <2>2, <2>3
  <2>4. CASE n # m
    <3>1. /\ Drop(text, n) \in Seq(Pieces) /\ Len(Drop(text, n)) = Len(text) - n
          /\ \A i \in 1 .. Len(text) - n : Drop(text, n)[i] = text[n + i]
      BY <2>2, Behind
    <3>2. m - n \in 0 .. Len(text) - n /\ 1 \in 1 .. Len(text) - n
      BY <1>1, <2>1, <2>2, <2>4
    <3>3. At(Drop(text, n), 1) = Exponent
      BY <2>1, <2>4, <3>1, <3>2, ExponentIs
    <3>4. text[n + 1] = Exponent
      BY <3>1, <3>2, <3>3, AtIs
    <3>5. Exponent \notin Digits
      BY DEF Exponent, Digits
    <3>6. ~(n < k)
      BY <1>1, <1>2, <2>2, <3>4, <3>5
    <3>7. n = k
      BY <1>1, <1>2, <2>2, <3>6
    <3>8. m - k <= x
      BY <1>4, <1>5, <2>1, <2>4, <3>2, <3>7 DEF rest
    <3> QED BY <1>1, <1>2, <1>4, <1>5, <3>8
  <2> QED BY <2>3, <2>4
<1> QED BY <1>6, <1>7, <1>8, <1>9

LEMMA DoubleIs ==
    ASSUME NEW text \in Seq(Pieces), NEW m \in 0 .. Len(text)
    PROVE  Grammar!IsDouble(SubSeq(text, 1, m)) <=>
               \E dot \in 1 .. m :
                   /\ text[dot] = "." /\ dot > 1
                   /\ \A i \in 1 .. dot - 1 : text[i] \in Digits
                   /\ Grammar!IsFraction(SubSeq(Drop(text, dot), 1, m - dot))
<1> DEFINE front == SubSeq(text, 1, m)
<1>1. /\ Len(text) \in Nat /\ Len(front) = m
      /\ \A i \in 1 .. m : front[i] = text[i]
  BY LenProperties, Prefix
<1>2. \A n \in 0 .. m :
          /\ SubSeq(front, 1, n) = SubSeq(text, 1, n)
          /\ Drop(front, n) = SubSeq(Drop(text, n), 1, m - n)
  BY Cuts
<1>3. \A n \in 0 .. m :
          Grammar!IsNumber(SubSeq(text, 1, n)) <=>
              n > 0 /\ \A i \in 1 .. n : text[i] \in Digits
  <2> TAKE n \in 0 .. m
  <2>1. n \in 0 .. Len(text)
    BY <1>1
  <2> QED BY <2>1, NumberIs
<1> HIDE DEF front
<1>4. Grammar!IsDouble(front) <=>
          \E dot \in 1 .. m :
              /\ front[dot] = "."
              /\ Grammar!IsNumber(SubSeq(front, 1, dot - 1))
              /\ Grammar!IsFraction(Drop(front, dot))
  BY <1>1, SameTexts DEF Grammar!IsDouble
<1>5. \A dot \in 1 .. m : dot \in 0 .. m /\ dot - 1 \in 0 .. m /\ (dot - 1 > 0 <=> dot > 1)
  BY <1>1
<1> QED BY <1>1, <1>2, <1>3, <1>4, <1>5 DEF front

(* double_re takes the longest double. *)
LEMMA DoubleTaken ==
    ASSUME NEW text \in Seq(Pieces)
    PROVE  /\ Double(text) \in 0 .. Len(text)
           /\ Double(text) > 0 => Grammar!IsDouble(SubSeq(text, 1, Double(text)))
           /\ \A m \in 0 .. Len(text) :
                  Grammar!IsDouble(SubSeq(text, 1, m)) => m <= Double(text)
<1> DEFINE w == Span(text, Digits)
           rest == Drop(text, w + 1)
           f == Fraction(rest)
<1>1. Len(text) \in Nat /\ "." \notin Digits /\ "end of text" # "."
  BY LenProperties DEF Digits
<1>2. /\ w \in 0 .. Len(text)
      /\ \A i \in 1 .. w : text[i] \in Digits
  BY SpanIs
<1>3. \A n \in 0 .. Len(text) : (\A i \in 1 .. n : text[i] \in Digits) => n <= w
  BY SpanLongest
<1>4. ASSUME NEW m \in 0 .. Len(text), NEW dot \in 1 .. m, text[dot] = ".", dot > 1,
             \A i \in 1 .. dot - 1 : text[i] \in Digits
      PROVE  dot = w + 1 /\ w > 0
  <2> HIDE DEF w
  <2>1. dot - 1 \in 0 .. Len(text) /\ dot \in 1 .. Len(text)
    BY <1>1
  <2>2. dot - 1 <= w
    BY <1>3, <1>4, <2>1
  <2>3. ~(dot <= w)
    BY <1>1, <1>2, <1>4, <2>1
  <2> QED BY <1>1, <1>2, <1>4, <2>1, <2>2, <2>3
<1>5. CASE w > 0 /\ At(text, w + 1) = "."
  <2> HIDE DEF w
  <2>1. w + 1 \in 1 .. Len(text)
    BY <1>1, <1>5, AtIs
  <2>2. rest \in Seq(Pieces) /\ Len(rest) = Len(text) - (w + 1)
    BY <2>1, Behind
  <2> HIDE DEF rest
  <2>3. /\ f \in 0 .. Len(rest)
        /\ Grammar!IsFraction(SubSeq(rest, 1, f))
        /\ \A m \in 0 .. Len(rest) : Grammar!IsFraction(SubSeq(rest, 1, m)) => m <= f
    BY <2>2, FractionTaken
  <2>4. Double(text) = (w + 1) + f
    <3> DEFINE digits == Span(rest, Digits)
    <3>1. digits \in 0 .. Len(rest)
      BY <2>2, SpanIs
    <3>2. Drop(text, (w + 1) + digits) = Drop(rest, digits)
      BY <2>1, <2>2, <3>1, CutsAdd DEF rest
    <3>3. Double(text) = (w + 1 + digits) + OptionalExponent(Drop(text, w + 1 + digits))
      BY <1>5 DEF Double, w, rest
    <3>4. OptionalExponent(Drop(rest, digits)) \in Nat
      <4>1. Drop(rest, digits) \in Seq(Pieces)
        BY <2>2, <3>1, Behind
      <4>2. OptionalExponent(Drop(rest, digits)) \in 0 .. Len(Drop(rest, digits))
        BY <4>1, ExponentTaken
      <4>3. Len(Drop(rest, digits)) \in Nat
        BY <4>1, LenProperties
      <4> QED BY <4>2, <4>3
    <3> HIDE DEF digits
    <3>5. f = digits + OptionalExponent(Drop(rest, digits))
      BY DEF Fraction, digits
    <3> QED BY <1>2, <2>1, <2>2, <3>1, <3>2, <3>3, <3>4, <3>5
  <2> HIDE DEF f
  <2>5. /\ (w + 1) + f \in 0 .. Len(text) /\ w + 1 \in 1 .. (w + 1) + f
        /\ ((w + 1) + f) - (w + 1) = f /\ (w + 1) - 1 = w /\ w + 1 > 1
    BY <1>1, <1>2, <1>5, <2>1, <2>2, <2>3
  <2>6. Grammar!IsDouble(SubSeq(text, 1, (w + 1) + f))
    <3>1. text[w + 1] = "."
      BY <1>5, <2>1, AtIs
    <3> QED BY <1>2, <2>3, <2>5, <3>1, DoubleIs DEF rest
  <2>7. ASSUME NEW m \in 0 .. Len(text), Grammar!IsDouble(SubSeq(text, 1, m))
        PROVE  m <= (w + 1) + f
    <3>1. PICK dot \in 1 .. m :
              /\ text[dot] = "." /\ dot > 1
              /\ \A i \in 1 .. dot - 1 : text[i] \in Digits
              /\ Grammar!IsFraction(SubSeq(Drop(text, dot), 1, m - dot))
      BY <2>7, DoubleIs
    <3>2. dot = w + 1
      BY <1>4, <3>1
    <3>3. m - (w + 1) \in 0 .. Len(rest) /\ m - (w + 1) <= f
      <4>1. m - (w + 1) \in 0 .. Len(rest)
        BY <1>1, <2>1, <2>2, <3>1, <3>2
      <4> QED BY <2>3, <3>1, <3>2, <4>1 DEF rest
    <3> QED BY <1>1, <2>1, <2>2, <2>3, <3>3
  <2> QED BY <2>4, <2>5, <2>6, <2>7
<1>6. CASE ~(w > 0 /\ At(text, w + 1) = ".")
  <2>1. Double(text) = 0
    BY <1>6 DEF Double
  <2>2. ASSUME NEW m \in 0 .. Len(text), Grammar!IsDouble(SubSeq(text, 1, m))
        PROVE  FALSE
    <3>1. PICK dot \in 1 .. m :
              /\ text[dot] = "." /\ dot > 1
              /\ \A i \in 1 .. dot - 1 : text[i] \in Digits
      BY <2>2, DoubleIs
    <3>2. dot = w + 1 /\ w > 0
      BY <1>4, <3>1
    <3>3. dot \in 1 .. Len(text)
      BY <1>1, <3>1
    <3>4. At(text, dot) = "."
      BY <3>1, <3>3, AtIs
    <3> QED BY <1>6, <3>2, <3>4
  <2> QED BY <1>1, <2>1, <2>2
<1> QED BY <1>5, <1>6

-----------------------------------------------------------------------------
(* Comments and symbols *)

(* skipToNewLine takes all up to the end of the line. *)
LEMMA CommentTaken ==
    ASSUME NEW text \in Seq(Pieces)
    PROVE  /\ Comment(text) \in 0 .. Len(text)
           /\ Comment(text) > 0 => Grammar!IsComment(SubSeq(text, 1, Comment(text)))
           /\ \A m \in 1 .. Len(text) :
                  Grammar!IsComment(SubSeq(text, 1, m)) => m <= Comment(text)
<1> DEFINE set == Pieces \ {LineEnd}
           n == Span(text, set)
           slashes == <<"/", "/">>
<1>1. /\ Len(text) \in Nat /\ slashes \in Seq({"/"}) /\ Len(slashes) = 2
      /\ slashes[1] = "/" /\ slashes[2] = "/"
  BY LenProperties
<1>2. n \in 0 .. Len(text) /\ \A i \in 1 .. n : text[i] \in set
  BY SpanIs
<1>3. \A m \in 0 .. Len(text) : (\A i \in 1 .. m : text[i] \in set) => m <= n
  BY SpanLongest
<1>4. Comment(text) = IF StartsWith(text, slashes) THEN n ELSE 0
  BY DEF Comment
<1> HIDE DEF slashes, set
<1>5. StartsWith(text, slashes) <=> 2 <= Len(text) /\ text[1] = "/" /\ text[2] = "/"
  BY <1>1, Starts
<1>6. ASSUME NEW m \in 0 .. Len(text)
      PROVE  Grammar!IsComment(SubSeq(text, 1, m)) <=>
                 /\ 2 <= m /\ text[1] = "/" /\ text[2] = "/"
                 /\ \A i \in 1 .. m : text[i] \in set
  <2> DEFINE front == SubSeq(text, 1, m)
  <2>1. /\ front \in Seq(Pieces) /\ Len(front) = m
        /\ \A i \in 1 .. m : front[i] = text[i]
    BY Prefix
  <2>2. Grammar!AllIn(front, set) <=> \A i \in 1 .. m : text[i] \in set
    BY PrefixAllIn
  <2> HIDE DEF front
  <2>3. StartsWith(front, slashes) <=> 2 <= m /\ front[1] = "/" /\ front[2] = "/"
    <3>1. StartsWith(front, slashes) <=>
              2 <= m /\ \A i \in 1 .. 2 : front[i] = slashes[i]
      BY <1>1, <2>1, Starts
    <3> QED BY <1>1, <3>1
  <2>4. 2 <= m => front[1] = text[1] /\ front[2] = text[2]
    BY <1>1, <2>1
  <2>5. Grammar!IsComment(front) <=> StartsWith(front, slashes) /\ Grammar!AllIn(front, set)
    BY SameTexts DEF Grammar!IsComment, slashes, set
  <2> QED BY <2>2, <2>3, <2>4, <2>5 DEF front
<1> HIDE DEF n
<1>7. CASE StartsWith(text, slashes)
  <2>1. 2 <= n
    <3>1. \A i \in 1 .. 2 : text[i] \in set
      <4>1. "/" \in set
        <5>1. "/" \in Pieces
          <6>1. "DIVISION" \in DOMAIN Symbols /\ Symbols["DIVISION"] = <<"/">>
            BY DEF Symbols
          <6> QED BY <6>1, ShortTexts DEF Pieces
        <5> QED BY <5>1 DEF set, LineEnd
      <4> QED BY <1>5, <1>7, <4>1
    <3> QED BY <1>1, <1>3, <1>5, <1>7, <3>1
  <2> QED BY <1>2, <1>3, <1>4, <1>5, <1>6, <1>7, <2>1
<1>8. CASE ~StartsWith(text, slashes)
  <2>1. Comment(text) = 0
    BY <1>4, <1>8
  <2>2. \A m \in 1 .. Len(text) : ~Grammar!IsComment(SubSeq(text, 1, m))
    BY <1>1, <1>5, <1>6, <1>8
  <2> QED BY <1>1, <2>1, <2>2
<1> QED BY <1>7, <1>8

PairTypes ==
    {"COLON_COLON", "R_ARROW", "L_ARROW", "LE", "GE", "EQ", "NEQ",
     "LAMBDA_ARROW", "LOGICAL_OR", "LOGICAL_AND"}

SingleTypes ==
    {"COLON", "DOT", "COMMA", "QUESTIONMARK", "DIVISION", "LT", "GT", "ASSIGN",
     "PLUS", "MINUS", "LOGICAL_NOT", "ASTERIX", "PERCENT", "L_PARANTHESIS",
     "R_PARANTHESIS", "L_BRACKET", "R_BRACKET", "BITWISE_OR", "BITWISE_AND",
     "SEMICOLON"}

IsSingle(text, x) == text \in Seq({x}) /\ Len(text) = 1 /\ text[1] = x

IsPair(text, x, y) ==
    text \in Seq({x, y}) /\ Len(text) = 2 /\ text[1] = x /\ text[2] = y

LEMMA Tuples ==
    /\ \A x : IsSingle(<<x>>, x)
    /\ \A x, y : IsPair(<<x, y>>, x, y)
BY DEF IsSingle, IsPair

LEMMA PairTexts ==
    /\ IsPair(Symbols["COLON_COLON"], ":", ":")
    /\ IsPair(Symbols["R_ARROW"], "-", ">")
    /\ IsPair(Symbols["L_ARROW"], "<", "-")
    /\ IsPair(Symbols["LE"], "<", "=")
    /\ IsPair(Symbols["GE"], ">", "=")
    /\ IsPair(Symbols["EQ"], "=", "=")
    /\ IsPair(Symbols["NEQ"], "!", "=")
    /\ IsPair(Symbols["LAMBDA_ARROW"], "=", ">")
    /\ IsPair(Symbols["LOGICAL_OR"], "|", "|")
    /\ IsPair(Symbols["LOGICAL_AND"], "&", "&")
BY Tuples DEF Symbols

LEMMA SingleTexts ==
    /\ IsSingle(Symbols["COLON"], ":")
    /\ IsSingle(Symbols["DOT"], ".")
    /\ IsSingle(Symbols["COMMA"], ",")
    /\ IsSingle(Symbols["QUESTIONMARK"], "?")
    /\ IsSingle(Symbols["DIVISION"], "/")
    /\ IsSingle(Symbols["LT"], "<")
    /\ IsSingle(Symbols["GT"], ">")
    /\ IsSingle(Symbols["ASSIGN"], "=")
    /\ IsSingle(Symbols["PLUS"], "+")
    /\ IsSingle(Symbols["MINUS"], "-")
    /\ IsSingle(Symbols["LOGICAL_NOT"], "!")
    /\ IsSingle(Symbols["ASTERIX"], "*")
    /\ IsSingle(Symbols["PERCENT"], "%")
    /\ IsSingle(Symbols["L_PARANTHESIS"], "(")
    /\ IsSingle(Symbols["R_PARANTHESIS"], ")")
    /\ IsSingle(Symbols["L_BRACKET"], "{")
    /\ IsSingle(Symbols["R_BRACKET"], "}")
    /\ IsSingle(Symbols["BITWISE_OR"], "|")
    /\ IsSingle(Symbols["BITWISE_AND"], "&")
    /\ IsSingle(Symbols["SEMICOLON"], ";")
BY Tuples DEF Symbols

LEMMA SymbolsAre ==
    /\ SymbolTypes = PairTypes \cup SingleTypes
    /\ \A type \in PairTypes : \E x, y : IsPair(Symbols[type], x, y)
    /\ \A type \in SingleTypes : \E x : IsSingle(Symbols[type], x)
<1>1. SymbolTypes = PairTypes \cup SingleTypes
  BY DEF SymbolTypes, PairTypes, SingleTypes
<1>2. \A type \in PairTypes : \E x, y : IsPair(Symbols[type], x, y)
  BY PairTexts DEF PairTypes
<1>3. \A type \in SingleTypes : \E x : IsSingle(Symbols[type], x)
  BY SingleTexts DEF SingleTypes
<1> QED BY <1>1, <1>2, <1>3

(* A fixed text is taken where it stands. *)
LEMMA SymbolTaken ==
    ASSUME NEW text \in Seq(Pieces), NEW type \in SymbolTypes
    PROVE  LET n == StartOfWord(text, Symbols[type]) IN
           /\ n \in 0 .. Len(text)
           /\ n > 0 => SubSeq(text, 1, n) = Symbols[type]
           /\ \A m \in 1 .. Len(text) : SubSeq(text, 1, m) = Symbols[type] => n = m
<1>1. PICK S : Symbols[type] \in Seq(S) /\ Len(Symbols[type]) \in {1, 2}
  <2>1. CASE type \in PairTypes
    BY <2>1, SymbolsAre DEF IsPair
  <2>2. CASE type \in SingleTypes
    BY <2>2, SymbolsAre DEF IsSingle
  <2> QED BY <2>1, <2>2, SymbolsAre
<1>2. Len(text) \in Nat
  BY LenProperties
<1>3. \A m \in 0 .. Len(text) :
          SubSeq(text, 1, m) = Symbols[type] <=>
              m = Len(Symbols[type]) /\ StartsWith(text, Symbols[type])
  BY <1>1, PrefixIsWord
<1>4. StartsWith(text, Symbols[type]) => Len(Symbols[type]) <= Len(text)
  BY DEF StartsWith
<1> QED BY <1>1, <1>2, <1>3, <1>4 DEF StartOfWord

-----------------------------------------------------------------------------
(* Strings *)

(* The n pieces before i are backslashes, and no more than n. *)
Run(text, i, n) ==
    /\ n \in 1 .. i - 2
    /\ \A j \in i - n .. i - 1 : text[j] = Backslash
    /\ text[i - n - 1] # Backslash

LEMMA EscapedIs ==
    ASSUME NEW text \in Seq(Pieces), NEW i \in 1 .. Len(text)
    PROVE  Grammar!IsEscaped(text, i) <=> \E n \in 1 .. i - 2 : n % 2 = 1 /\ Run(text, i, n)
<1>1. Len(text) \in Nat
  BY LenProperties
<1>2. ASSUME NEW n \in 1 .. i - 2
      PROVE  Grammar!AllIn(SubSeq(text, i - n, i - 1), {Backslash}) <=>
                 \A j \in i - n .. i - 1 : text[j] = Backslash
  <2> DEFINE run == SubSeq(text, i - n, i - 1)
  <2>1. \A j \in i - n .. i - 1 : text[j] \in Pieces
    BY <1>1, <1>2, ElementOfSeq
  <2>2. (i - 1) - (i - n) + 1 = n /\ ~(i - n > i - 1) /\ i - n \in Int /\ i - 1 \in Int
    BY <1>1, <1>2
  <2>3. Len(run) = n /\ \A k \in 1 .. n : run[k] = text[(i - n) + k - 1]
    BY <2>1, <2>2, SubSeqProperties
  <2> HIDE DEF run
  <2>4. Grammar!AllIn(run, {Backslash}) <=>
            \A k \in 1 .. n : text[(i - n) + k - 1] = Backslash
    BY <2>3 DEF Grammar!AllIn
  <2>5. ASSUME \A k \in 1 .. n : text[(i - n) + k - 1] = Backslash,
               NEW j \in i - n .. i - 1
        PROVE  text[j] = Backslash
    <3>1. j - (i - n) + 1 \in 1 .. n /\ (i - n) + (j - (i - n) + 1) - 1 = j
      BY <1>1, <1>2
    <3> QED BY <2>5, <3>1
  <2>6. ASSUME \A j \in i - n .. i - 1 : text[j] = Backslash, NEW k \in 1 .. n
        PROVE  text[(i - n) + k - 1] = Backslash
    <3>1. (i - n) + k - 1 \in i - n .. i - 1
      BY <1>1, <1>2
    <3> QED BY <2>6, <3>1
  <2> QED BY <2>4, <2>5, <2>6 DEF run
<1> QED BY <1>2, SameTexts DEF Grammar!IsEscaped, Run

LEMMA RunExists ==
    ASSUME NEW text \in Seq(Pieces), NEW i \in 3 .. Len(text), text[1] = Quote,
           text[i - 1] = Backslash
    PROVE  \E n \in 1 .. i - 2 : Run(text, i, n)
<1> DEFINE Others == {n \in 1 .. i - 2 : text[i - n - 1] # Backslash}
<1>1. Len(text) \in Nat /\ Quote # Backslash
  BY LenProperties DEF Quote, Backslash
<1>2. i - 2 \in Others /\ Others \subseteq Nat
  <2>1. i - 2 \in 1 .. i - 2 /\ i - (i - 2) - 1 = 1
    BY <1>1
  <2> QED BY <1>1, <2>1
<1>3. PICK n \in Others : \A m \in Others : n <= m
  BY <1>2, LeastNumber
<1>4. ASSUME NEW j \in i - n .. i - 1 PROVE text[j] = Backslash
  <2>1. CASE j = i - 1
    BY <2>1
  <2>2. CASE j # i - 1
    <3>1. i - j - 1 \in 1 .. i - 2 /\ i - (i - j - 1) - 1 = j /\ ~(n <= i - j - 1)
      BY <1>1, <1>3, <2>2
    <3> QED BY <1>3, <3>1
  <2> QED BY <2>1, <2>2
<1> QED BY <1>3, <1>4 DEF Run

LEMMA RunUnique ==
    ASSUME NEW text \in Seq(Pieces), NEW i \in Nat, NEW n, NEW m,
           Run(text, i, n), Run(text, i, m)
    PROVE  n = m
<1>1. n \in 1 .. i - 2 /\ m \in 1 .. i - 2
  BY DEF Run
<1>2. ~(n < m)
  <2> SUFFICES ASSUME n < m PROVE FALSE
    OBVIOUS
  <2>1. i - n - 1 \in i - m .. i - 1
    BY <1>1
  <2> QED BY <2>1 DEF Run
<1>3. ~(m < n)
  <2> SUFFICES ASSUME m < n PROVE FALSE
    OBVIOUS
  <2>1. i - m - 1 \in i - n .. i - 1
    BY <1>1
  <2> QED BY <2>1 DEF Run
<1> QED BY <1>1, <1>2, <1>3

(* last_was_slash flips along a run of backslashes. *)
LEMMA EscapedStep ==
    ASSUME NEW text \in Seq(Pieces), text[1] = Quote, NEW i \in 1 .. Len(text)
    PROVE  Grammar!IsEscaped(text, i) <=>
               i > 2 /\ text[i - 1] = Backslash /\ ~Grammar!IsEscaped(text, i - 1)
<1>1. Len(text) \in Nat /\ Quote # Backslash
  BY LenProperties DEF Quote, Backslash
<1>2. Grammar!IsEscaped(text, i) <=> \E n \in 1 .. i - 2 : n % 2 = 1 /\ Run(text, i, n)
  BY EscapedIs
<1>3. CASE ~(i > 2)
  BY <1>1, <1>2, <1>3
<1>4. CASE i > 2 /\ text[i - 1] # Backslash
  <2>1. \A n \in 1 .. i - 2 : i - 1 \in i - n .. i - 1
    BY <1>1
  <2> QED BY <1>2, <1>4, <2>1 DEF Run
<1>5. CASE i > 2 /\ text[i - 1] = Backslash
  <2>1. PICK n \in 1 .. i - 2 : Run(text, i, n)
    BY <1>1, <1>5, RunExists
  <2>2. \A m \in 1 .. i - 2 : Run(text, i, m) => m = n
    BY <1>1, <2>1, RunUnique
  <2>3. Grammar!IsEscaped(text, i) <=> n % 2 = 1
    BY <1>2, <2>1, <2>2
  <2>4. i - 1 \in 1 .. Len(text)
    BY <1>1, <1>5
  <2>5. Grammar!IsEscaped(text, i - 1) <=>
            \E m \in 1 .. (i - 1) - 2 : m % 2 = 1 /\ Run(text, i - 1, m)
    BY <2>4, EscapedIs
  <2>6. CASE n = 1
    <3>1. text[i - 2] # Backslash
      BY <1>1, <2>1, <2>6 DEF Run
    <3>2. \A m \in 1 .. (i - 1) - 2 : i - 2 \in (i - 1) - m .. (i - 1) - 1
      BY <1>1
    <3>3. ~Grammar!IsEscaped(text, i - 1)
      BY <2>5, <3>1, <3>2 DEF Run
    <3> QED BY <1>5, <2>3, <2>6, <3>3
  <2>7. CASE n # 1
    <3>1. n - 1 \in 1 .. (i - 1) - 2 /\ (i - 1) - (n - 1) = i - n
          /\ (i - 1) - (n - 1) - 1 = i - n - 1
      BY <1>1, <2>1, <2>7
    <3>2. \A j \in (i - 1) - (n - 1) .. (i - 1) - 1 : j \in i - n .. i - 1
      BY <1>1, <2>1
    <3>3. Run(text, i - 1, n - 1)
      BY <2>1, <3>1, <3>2 DEF Run
    <3>4. \A m \in 1 .. (i - 1) - 2 : Run(text, i - 1, m) => m = n - 1
      BY <2>4, <3>3, RunUnique
    <3>5. Grammar!IsEscaped(text, i - 1) <=> (n - 1) % 2 = 1
      BY <2>5, <3>1, <3>3, <3>4
    <3>6. n % 2 = 1 <=> ~((n - 1) % 2 = 1)
      BY <2>1
    <3> QED BY <1>5, <2>3, <3>5, <3>6
  <2> QED BY <2>6, <2>7
<1> QED BY <1>3, <1>4, <1>5

(* last_was_slash says that a piece is escaped. *)
LEMMA LastWasSlashIs ==
    ASSUME NEW text \in Seq(Pieces), text[1] = Quote, NEW i \in 1 .. Len(text)
    PROVE  LastWasSlash(text)[i] <=> Grammar!IsEscaped(text, i)
<1> DEFINE D == 1 .. Len(text)
           last == LastWasSlash(text)
           Flips(f) == f = [k \in D |-> k > 2 /\ text[k - 1] = Backslash /\ ~f[k - 1]]
           escaped == [k \in D |-> Grammar!IsEscaped(text, k)]
<1>1. Len(text) \in Nat
  BY LenProperties
<1>2. \A k \in D : k > 2 => k - 1 \in D
  BY <1>1
<1>3. \A k \in D : Grammar!IsEscaped(text, k) <=>
          k > 2 /\ text[k - 1] = Backslash /\ ~Grammar!IsEscaped(text, k - 1)
  BY EscapedStep
<1>4. \A k \in D : Grammar!IsEscaped(text, k) \in BOOLEAN
  BY DEF Grammar!IsEscaped
<1>5. Flips(escaped)
  BY <1>2, <1>3, <1>4
<1>6. last = CHOOSE f : Flips(f)
  BY DEF LastWasSlash
<1> HIDE DEF Flips, escaped
<1>7. Flips(last)
  <2>1. \E f : Flips(f)
    BY <1>5
  <2> QED BY <1>6, <2>1
<1> HIDE DEF last
<1>8. \A k \in D : last[k] <=> k > 2 /\ text[k - 1] = Backslash /\ ~last[k - 1]
  BY <1>7 DEF Flips
<1> DEFINE Wrong == {k \in D : ~(last[k] <=> Grammar!IsEscaped(text, k))}
<1>9. \A k \in Wrong : \E l \in Wrong : l < k
  <2> TAKE k \in Wrong
  <2>1. k > 2
    BY <1>3, <1>8
  <2>2. k - 1 \in D /\ k - 1 < k
    BY <1>1, <2>1
  <2>3. k - 1 \in Wrong
    BY <1>3, <1>8, <2>1, <2>2
  <2> QED BY <2>2, <2>3
<1>10. Wrong \subseteq Nat
  BY <1>1
<1>11. Wrong = {}
  BY <1>9, <1>10, NoCounterexample
<1> QED BY <1>11 DEF last

(* The loop of lexStandardString closes a string at its first quote that   *)
(* is not escaped.                                                         *)
LEMMA StringIs ==
    ASSUME NEW text \in Seq(Pieces), NEW m \in 1 .. Len(text)
    PROVE  Grammar!IsString(SubSeq(text, 1, m)) <=>
               /\ text[1] = Quote /\ m \in Breaks(text)
               /\ \A i \in Breaks(text) : m <= i
<1> DEFINE front == SubSeq(text, 1, m)
<1>1. Len(text) \in Nat /\ m \in 0 .. Len(text) /\ 1 \in 1 .. m
  BY LenProperties
<1>2. /\ front \in Seq(Pieces) /\ Len(front) = m
      /\ \A i \in 1 .. m : front[i] = text[i]
  BY <1>1, Prefix
<1> HIDE DEF front
<1>3. ASSUME NEW i \in 1 .. m
      PROVE  Grammar!IsEscaped(front, i) <=> Grammar!IsEscaped(text, i)
  <2>1. i \in 1 .. Len(text) /\ i \in 1 .. Len(front)
    BY <1>1, <1>2
  <2>2. \A n \in 1 .. i - 2 : Run(front, i, n) <=> Run(text, i, n)
    <3> TAKE n \in 1 .. i - 2
    <3>1. i - n - 1 \in 1 .. m /\ \A j \in i - n .. i - 1 : j \in 1 .. m
      BY <1>1, <1>3
    <3> QED BY <1>2, <3>1 DEF Run
  <2> QED BY <1>2, <2>1, <2>2, EscapedIs
<1>4. Grammar!IsString(front) <=>
          /\ 2 <= m /\ text[1] = Quote
          /\ \A i \in 2 .. m : (text[i] = Quote /\ ~Grammar!IsEscaped(text, i)) <=> i = m
  <2>1. \A i \in 2 .. m : i \in 1 .. m
    BY <1>1
  <2>2. Grammar!IsString(front) <=>
            /\ 2 <= m /\ front[1] = Quote
            /\ \A i \in 2 .. m : (front[i] = Quote /\ ~Grammar!IsEscaped(front, i)) <=> i = m
    BY <1>1, <1>2, SameTexts DEF Grammar!IsString
  <2> QED BY <1>1, <1>2, <1>3, <2>1, <2>2
<1>5. CASE text[1] # Quote
  BY <1>4, <1>5 DEF front
<1>6. CASE text[1] = Quote
  <2>1. \A i \in 2 .. Len(text) :
            i \in Breaks(text) <=> text[i] = Quote /\ ~Grammar!IsEscaped(text, i)
    <3> TAKE i \in 2 .. Len(text)
    <3>1. i \in 1 .. Len(text)
      BY <1>1
    <3>2. LastWasSlash(text)[i] <=> Grammar!IsEscaped(text, i)
      BY <1>6, <3>1, LastWasSlashIs
    <3> QED BY <3>2 DEF Breaks
  <2>2. Breaks(text) \subseteq 2 .. Len(text)
    BY DEF Breaks
  <2>3. \A i \in 2 .. m : i \in 2 .. Len(text)
    BY <1>1
  <2>4. Grammar!IsString(front) <=> 2 <= m /\ \A i \in 2 .. m : i \in Breaks(text) <=> i = m
    BY <1>4, <1>6, <2>1, <2>3
  <2>5. ASSUME 2 <= m, \A i \in 2 .. m : i \in Breaks(text) <=> i = m
        PROVE  m \in Breaks(text) /\ \A i \in Breaks(text) : m <= i
    <3>1. m \in 2 .. m
      BY <1>1, <2>5
    <3>2. ASSUME NEW i \in Breaks(text), ~(m <= i) PROVE FALSE
      <4>1. i \in 2 .. m /\ i # m
        BY <1>1, <2>2, <3>2
      <4> QED BY <2>5, <4>1
    <3> QED BY <2>5, <3>1, <3>2
  <2>6. ASSUME m \in Breaks(text), \A i \in Breaks(text) : m <= i
        PROVE  2 <= m /\ \A i \in 2 .. m : i \in Breaks(text) <=> i = m
    BY <1>1, <2>2, <2>6
  <2> QED BY <1>6, <2>4, <2>5, <2>6 DEF front
<1> QED BY <1>5, <1>6

LEMMA StringTaken ==
    ASSUME NEW text \in Seq(Pieces)
    PROVE  /\ StandardString(text) \in 0 .. Len(text)
           /\ StandardString(text) > 0 =>
                  Grammar!IsString(SubSeq(text, 1, StandardString(text)))
           /\ \A m \in 1 .. Len(text) :
                  Grammar!IsString(SubSeq(text, 1, m)) => m = StandardString(text)
           /\ Unclosed(text) <=> Grammar!Unclosed(text)
<1> DEFINE n == CHOOSE i \in Breaks(text) : \A j \in Breaks(text) : i <= j
<1>0. "end of text" # Quote
  BY DEF Quote
<1>1. Len(text) \in Nat
  BY LenProperties
<1>2. Breaks(text) \subseteq 2 .. Len(text) /\ Breaks(text) \subseteq Nat
  BY <1>1 DEF Breaks
<1>3. StandardString(text) = IF At(text, 1) = Quote /\ Breaks(text) # {} THEN n ELSE 0
  BY DEF StandardString
<1>4. Breaks(text) # {} => n \in Breaks(text) /\ \A j \in Breaks(text) : n <= j
  BY <1>2, LeastNumber
<1> HIDE DEF n
<1>5. At(text, 1) = Quote <=> text # <<>> /\ text[1] = Quote
  <2>1. text # <<>> <=> 1 \in 1 .. Len(text)
    BY <1>1, EmptySeq
  <2> QED BY <1>0, <2>1, AtIs
<1>6. CASE ~(At(text, 1) = Quote /\ Breaks(text) # {})
  <2>1. \A m \in 1 .. Len(text) : ~Grammar!IsString(SubSeq(text, 1, m))
    <3> SUFFICES ASSUME NEW m \in 1 .. Len(text), Grammar!IsString(SubSeq(text, 1, m))
                 PROVE  FALSE
      OBVIOUS
    <3>1. text[1] = Quote /\ Breaks(text) # {}
      BY StringIs
    <3>2. text # <<>>
      BY <1>1
    <3> QED BY <1>5, <1>6, <3>1, <3>2
  <2>2. Unclosed(text) <=> Grammar!Unclosed(text)
    BY <1>5, <1>6, <2>1, SameTexts DEF Unclosed, Grammar!Unclosed
  <2> QED BY <1>1, <1>3, <1>6, <2>1, <2>2
<1>7. CASE At(text, 1) = Quote /\ Breaks(text) # {}
  <2>1. n \in 1 .. Len(text) /\ n \in Nat
    BY <1>1, <1>2, <1>4, <1>7
  <2>2. \A m \in 1 .. Len(text) : Grammar!IsString(SubSeq(text, 1, m)) <=> m = n
    <3> TAKE m \in 1 .. Len(text)
    <3>1. Grammar!IsString(SubSeq(text, 1, m)) <=>
              m \in Breaks(text) /\ \A i \in Breaks(text) : m <= i
      BY <1>5, <1>7, StringIs
    <3> QED BY <1>1, <1>4, <1>7, <2>1, <3>1
  <2>3. ~Unclosed(text) /\ ~Grammar!Unclosed(text)
    BY <1>7, <2>1, <2>2 DEF Unclosed, Grammar!Unclosed
  <2> QED BY <1>1, <1>3, <1>7, <2>1, <2>2, <2>3
<1> QED BY <1>6, <1>7

-----------------------------------------------------------------------------
(* The order of the ladder *)

Types == OtherTypes \cup Keywords \cup SymbolTypes

LEMMA LadderTypes ==
    /\ DOMAIN Ladder = 1 .. 51
    /\ \A r \in DOMAIN Ladder : Ladder[r] \in Types
    /\ \A type \in Types : \E r \in DOMAIN Ladder : Ladder[r] = type
    /\ Grammar!LexemeTypes = Types
<1>1. DOMAIN Ladder = 1 .. 51
  BY DEF Ladder
<1>2. \A r \in 1 .. 51 : Ladder[r] \in Types
  BY DEF Ladder, Types, OtherTypes, Keywords, SymbolTypes
<1>3. \A type \in Types : \E r \in 1 .. 51 : Ladder[r] = type
  BY DEF Ladder, Types, OtherTypes, Keywords, SymbolTypes
<1>4. Grammar!LexemeTypes = Types
  BY TypesApart, SameTexts DEF Grammar!LexemeTypes, Types, OtherTypes
<1> QED BY <1>1, <1>2, <1>3, <1>4

(* The rule of a is tried before that of b. *)
Earlier(a, b) ==
    \A r, s \in DOMAIN Ladder : Ladder[r] = a /\ Ladder[s] = b => r < s

LEMMA WordsAndNumbersInOrder ==
    /\ \A keyword \in Keywords : Earlier(keyword, "IDENTIFIER")
    /\ Earlier("DOUBLE", "INTEGER")
    /\ Earlier("LINE_COMMENT_START", "DIVISION")
<1>1. \A r, s \in 1 .. 51 : Ladder[r] \in Keywords /\ Ladder[s] = "IDENTIFIER" => r < s
  BY DEF Ladder, Keywords
<1>2. \A r, s \in 1 .. 51 : Ladder[r] = "DOUBLE" /\ Ladder[s] = "INTEGER" => r < s
  BY DEF Ladder
<1>3. \A r, s \in 1 .. 51 :
          Ladder[r] = "LINE_COMMENT_START" /\ Ladder[s] = "DIVISION" => r < s
  BY DEF Ladder
<1> QED BY <1>1, <1>2, <1>3, LadderTypes DEF Earlier

(* Symbols of one piece that begin others *)
LEMMA SingleStarts ==
    \A type \in SingleTypes :
        /\ Symbols[type][1] = ":" => type = "COLON"
        /\ Symbols[type][1] = "-" => type = "MINUS"
        /\ Symbols[type][1] = "<" => type = "LT"
        /\ Symbols[type][1] = ">" => type = "GT"
        /\ Symbols[type][1] = "=" => type = "ASSIGN"
        /\ Symbols[type][1] = "!" => type = "LOGICAL_NOT"
        /\ Symbols[type][1] = "|" => type = "BITWISE_OR"
        /\ Symbols[type][1] = "&" => type = "BITWISE_AND"
        /\ Symbols[type][1] = "/" => type = "DIVISION"
BY SingleTexts DEF SingleTypes, IsSingle

(* A symbol of two pieces is tried before the one its first piece is. *)
LEMMA PairsInOrder ==
    ASSUME NEW long \in PairTypes, NEW short \in SingleTypes,
           Symbols[long][1] = Symbols[short][1]
    PROVE  Earlier(long, short)
<1> DEFINE Before(a, b) == \A r, s \in 1 .. 51 : Ladder[r] = a /\ Ladder[s] = b => r < s
<1>1. Before("COLON_COLON", "COLON") /\ Before("R_ARROW", "MINUS")
  BY DEF Ladder
<1>2. Before("L_ARROW", "LT") /\ Before("LE", "LT") /\ Before("GE", "GT")
  BY DEF Ladder
<1>3. Before("EQ", "ASSIGN") /\ Before("LAMBDA_ARROW", "ASSIGN")
      /\ Before("NEQ", "LOGICAL_NOT")
  BY DEF Ladder
<1>4. Before("LOGICAL_OR", "BITWISE_OR") /\ Before("LOGICAL_AND", "BITWISE_AND")
  BY DEF Ladder
<1> HIDE DEF Before
<1>5. Before(long, short)
  BY <1>1, <1>2, <1>3, <1>4, SingleStarts, PairTexts DEF PairTypes, IsPair
<1> QED BY <1>5, LadderTypes DEF Before, Earlier

(* The pieces that the lexemes of a type begin with *)
Begin(type) ==
    CASE type = "WHITESPACE" -> {Blank}
      [] type = "NEWLINE" -> {LineEnd}
      [] type \in Keywords \cup {"IDENTIFIER"} -> WordPieces \ Digits
      [] type \in {"DOUBLE", "INTEGER"} -> Digits
      [] type = "STANDARD_STRING" -> {Quote}
      [] type = "LINE_COMMENT_START" -> {"/"}
      [] type \in SymbolTypes -> {Symbols[type][1]}

LEMMA BeginIs ==
    /\ Begin("WHITESPACE") = {Blank} /\ Begin("NEWLINE") = {LineEnd}
    /\ \A type \in Keywords \cup {"IDENTIFIER"} : Begin(type) = WordPieces \ Digits
    /\ \A type \in {"DOUBLE", "INTEGER"} : Begin(type) = Digits
    /\ Begin("STANDARD_STRING") = {Quote} /\ Begin("LINE_COMMENT_START") = {"/"}
    /\ \A type \in SymbolTypes : Begin(type) = {Symbols[type][1]}
<1>1. Begin("WHITESPACE") = {Blank} /\ Begin("NEWLINE") = {LineEnd}
  BY TypesApart DEF Begin, OtherTypes
<1>2. \A type \in Keywords \cup {"IDENTIFIER"} : Begin(type) = WordPieces \ Digits
  BY TypesApart DEF Begin, OtherTypes
<1>3. \A type \in {"DOUBLE", "INTEGER"} : Begin(type) = Digits
  BY TypesApart DEF Begin, OtherTypes
<1>4. Begin("STANDARD_STRING") = {Quote} /\ Begin("LINE_COMMENT_START") = {"/"}
  BY TypesApart DEF Begin, OtherTypes
<1>5. \A type \in SymbolTypes : Begin(type) = {Symbols[type][1]}
  BY TypesApart DEF Begin, OtherTypes
<1> QED BY <1>1, <1>2, <1>3, <1>4, <1>5

SymbolStarts ==
    {":", "-", "<", ">", "=", "!", "|", "&", ".", ",", "?", "/", "+", "*", "%",
     "(", ")", "{", "}", ";"}

(* Types of which lexemes begin with the same piece *)
LEMMA Rivals ==
    ASSUME NEW a \in Types, NEW b \in Types, a # b, NEW piece \in Begin(a),
           piece \in Begin(b)
    PROVE  \/ a \in Keywords \cup {"IDENTIFIER"} /\ b \in Keywords \cup {"IDENTIFIER"}
           \/ a \in {"DOUBLE", "INTEGER"} /\ b \in {"DOUBLE", "INTEGER"}
           \/ /\ a \in SymbolTypes \cup {"LINE_COMMENT_START"}
              /\ b \in SymbolTypes \cup {"LINE_COMMENT_START"}
<1> DEFINE Words == Keywords \cup {"IDENTIFIER"}
           Numbers == {"DOUBLE", "INTEGER"}
           Signs == SymbolTypes \cup {"LINE_COMMENT_START"}
<1>1. Types = Words \cup Numbers \cup Signs \cup
              {"WHITESPACE"} \cup {"NEWLINE"} \cup {"STANDARD_STRING"}
  BY DEF Types, OtherTypes
<1>2. \A type \in Signs : Begin(type) \subseteq SymbolStarts
  <2>1. \A type \in PairTypes : Symbols[type][1] \in SymbolStarts
    BY PairTexts DEF PairTypes, IsPair, SymbolStarts
  <2>2. \A type \in SingleTypes : Symbols[type][1] \in SymbolStarts
    <3>1. \A type \in SingleTypes : \E x \in SymbolStarts : IsSingle(Symbols[type], x)
      BY SingleTexts DEF SingleTypes, SymbolStarts
    <3> QED BY <3>1 DEF IsSingle
  <2>3. "/" \in SymbolStarts
    BY DEF SymbolStarts
  <2> QED BY <2>1, <2>2, <2>3, SymbolsAre, BeginIs
<1>3. SymbolStarts \cap WordPieces = {}
  <2>1. SymbolStarts \cap Letters = {}
    BY DEF SymbolStarts, Letters, Exponent
  <2>2. SymbolStarts \cap (Digits \cup {"_"}) = {}
    BY DEF SymbolStarts, Digits
  <2> QED BY <2>1, <2>2 DEF WordPieces
<1>4. SymbolStarts \cap {Blank, LineEnd, Quote} = {}
  BY DEF SymbolStarts, Blank, LineEnd, Quote
<1>5. WordPieces \cap {Blank, LineEnd, Quote} = {}
  BY DEF WordPieces, Letters, Digits, Exponent, Blank, LineEnd, Quote
<1>6. Blank # LineEnd /\ Blank # Quote /\ LineEnd # Quote
  BY DEF Blank, LineEnd, Quote
<1>7. Digits \subseteq WordPieces
  BY DEF WordPieces
<1>8. /\ \A type \in Words : Begin(type) = WordPieces \ Digits
      /\ \A type \in Numbers : Begin(type) = Digits
      /\ Begin("WHITESPACE") = {Blank} /\ Begin("NEWLINE") = {LineEnd}
      /\ Begin("STANDARD_STRING") = {Quote}
  BY BeginIs
<1> HIDE DEF Words, Numbers, Signs
<1>9. \/ a \in Words /\ b \in Words
      \/ a \in Numbers /\ b \in Numbers
      \/ a \in Signs /\ b \in Signs
  BY <1>1, <1>2, <1>3, <1>4, <1>5, <1>6, <1>7, <1>8
<1> QED BY <1>9 DEF Words, Numbers, Signs

-----------------------------------------------------------------------------
(* The first rule that matches *)

(* What a rule takes, and that no lexeme of its type is longer than what   *)
(* some rule takes: a keyword may begin a longer identifier. *)
LEMMA Taken ==
    ASSUME NEW text \in Seq(Pieces), NEW type \in Types
    PROVE  /\ Size(text, type) \in 0 .. Len(text)
           /\ Size(text, type) > 0 /\ type # "IDENTIFIER" =>
                  Grammar!IsLexeme(SubSeq(text, 1, Size(text, type)), type)
           /\ \A m \in 1 .. Len(text) :
                  Grammar!IsLexeme(SubSeq(text, 1, m), type) =>
                      \E taker \in Types : m <= Size(text, taker)
<1>1. Len(text) \in Nat /\ \A m \in 1 .. Len(text) : m \in 0 .. Len(text)
  BY LenProperties
<1>2. ASSUME NEW n \in 0 .. Len(text), n > 0
      PROVE  SubSeq(text, 1, n) # <<>>
  BY <1>2, Prefix, EmptySeq
<1>3. OtherTypes \subseteq Types
  BY DEF Types
<1>4. ASSUME type = "WHITESPACE" \/ type = "NEWLINE"
      PROVE  \E set :
                 /\ Size(text, type) = Span(text, set)
                 /\ \A front : Grammar!IsLexeme(front, type) <=>
                                   front # <<>> /\ Grammar!AllIn(front, set)
  BY <1>4, SizeOf, LexemeOf
<1>5. CASE type = "WHITESPACE" \/ type = "NEWLINE"
  BY <1>1, <1>2, <1>4, <1>5, RunTaken
<1>6. CASE type = "IDENTIFIER"
  BY <1>1, <1>6, SizeOf, LexemeOf, IdentifierTaken
<1>7. CASE type = "DOUBLE"
  BY <1>1, <1>7, SizeOf, LexemeOf, DoubleTaken
<1>8. CASE type = "INTEGER"
  BY <1>1, <1>8, SizeOf, LexemeOf, IntegerTaken
<1>9. CASE type = "STANDARD_STRING"
  BY <1>1, <1>9, SizeOf, LexemeOf, StringTaken
<1>10. CASE type = "LINE_COMMENT_START"
  BY <1>1, <1>10, SizeOf, LexemeOf, CommentTaken
<1>11. CASE type \in Keywords
  <2>1. "IDENTIFIER" \in Types /\ Size(text, "IDENTIFIER") = Identifier(text)
    BY <1>3, SizeOf DEF OtherTypes
  <2>2. Size(text, type) = WholeWord(text, KeywordText(type))
    BY <1>11, SizeOf
  <2>3. \A front : Grammar!IsLexeme(front, type) <=> front = KeywordText(type)
    BY <1>11, LexemeOf
  <2> QED BY <1>11, <2>1, <2>2, <2>3, KeywordTaken
<1>12. CASE type \in SymbolTypes
  <2>1. Size(text, type) = StartOfWord(text, Symbols[type])
    BY <1>12, SizeOf
  <2>2. \A front : Grammar!IsLexeme(front, type) <=> front = Symbols[type]
    BY <1>12, LexemeOf
  <2>3. \A m \in 1 .. Len(text) : m <= m
    BY <1>1
  <2> QED BY <1>12, <2>1, <2>2, <2>3, SymbolTaken
<1> QED BY <1>5, <1>6, <1>7, <1>8, <1>9, <1>10, <1>11, <1>12 DEF Types, OtherTypes

Matches(text, type) == Size(text, type) > 0

(* What a rule takes begins as its lexemes do. *)
LEMMA BeginsSo ==
    ASSUME NEW text \in Seq(Pieces), NEW type \in Types, Matches(text, type)
    PROVE  text[1] \in Begin(type)
<1> DEFINE n == Size(text, type)
<1>1. Len(text) \in Nat /\ n \in 0 .. Len(text) /\ n > 0
  BY Taken, LenProperties DEF Matches
<1>2. 1 \in 1 .. n /\ 1 \in 1 .. Len(text)
  BY <1>1
<1>3. At(text, 1) = text[1]
  BY <1>2, AtIs
<1>4. CASE type = "WHITESPACE" \/ type = "NEWLINE"
  BY <1>2, <1>4, SizeOf, SpanIs, BeginIs
<1>5. CASE type = "IDENTIFIER"
  BY <1>1, <1>3, <1>5, SizeOf, BeginIs DEF Identifier
<1>6. CASE type \in Keywords
  <2>1. n = Identifier(text)
    BY <1>1, <1>6, SizeOf, KeywordTaken
  <2> QED BY <1>1, <1>3, <1>6, <2>1, BeginIs DEF Identifier
<1>7. CASE type = "DOUBLE"
  <2>1. Span(text, Digits) > 0
    BY <1>1, <1>7, SizeOf DEF Double
  <2>2. Span(text, Digits) \in Nat /\ \A i \in 1 .. Span(text, Digits) : text[i] \in Digits
    BY <1>1, SpanIs
  <2>3. 1 \in 1 .. Span(text, Digits)
    BY <2>1, <2>2
  <2> QED BY <1>7, <2>2, <2>3, BeginIs
<1>8. CASE type = "INTEGER"
  <2>1. CASE At(text, 1) = "0"
    BY <1>3, <1>8, <2>1, BeginIs DEF Digits
  <2>2. CASE At(text, 1) # "0"
    <3>1. n = Span(text, Digits)
      BY <1>8, <2>2, SizeOf DEF Integer
    <3> QED BY <1>2, <1>8, <3>1, SpanIs, BeginIs
  <2> QED BY <2>1, <2>2
<1>9. CASE type = "STANDARD_STRING"
  BY <1>1, <1>3, <1>9, SizeOf, BeginIs DEF StandardString
<1>10. CASE type = "LINE_COMMENT_START"
  <2> DEFINE slashes == <<"/", "/">>
  <2>1. StartsWith(text, slashes)
    BY <1>1, <1>10, SizeOf DEF Comment
  <2>2. slashes \in Seq({"/"}) /\ Len(slashes) = 2 /\ slashes[1] = "/"
    OBVIOUS
  <2> HIDE DEF slashes
  <2>3. \A i \in 1 .. Len(slashes) : text[i] = slashes[i]
    BY <2>1, <2>2, Starts
  <2>4. text[1] = "/"
    BY <2>2, <2>3
  <2> QED BY <1>10, <2>4, BeginIs
<1>11. CASE type \in SymbolTypes
  <2>1. StartsWith(text, Symbols[type])
    <3>1. n = StartOfWord(text, Symbols[type])
      BY <1>11, SizeOf
    <3> QED BY <1>1, <3>1 DEF StartOfWord
  <2>2. PICK S : Symbols[type] \in Seq(S) /\ Len(Symbols[type]) \in {1, 2}
    BY <1>11, SymbolsAre DEF IsPair, IsSingle
  <2>3. text[1] = Symbols[type][1]
    BY <2>1, <2>2, Starts
  <2> QED BY <1>11, <2>3, BeginIs
<1> QED BY <1>4, <1>5, <1>6, <1>7, <1>8, <1>9, <1>10, <1>11 DEF Types, OtherTypes

(* Of two rules that match the earlier one takes no less. *)
LEMMA EarlierTakesMore ==
    ASSUME NEW text \in Seq(Pieces), NEW r \in DOMAIN Ladder, NEW s \in DOMAIN Ladder,
           ~(s < r), Matches(text, Ladder[r]), Matches(text, Ladder[s])
    PROVE  Size(text, Ladder[s]) <= Size(text, Ladder[r])
<1> DEFINE a == Ladder[r]
           b == Ladder[s]
<1>1. a \in Types /\ b \in Types
  BY LadderTypes
<1>10. Len(text) \in Nat
  BY LenProperties
<1>2. Size(text, a) \in Nat /\ Size(text, b) \in Nat
  BY <1>1, <1>10, Taken
<1>3. text[1] \in Begin(a) /\ text[1] \in Begin(b)
  BY <1>1, BeginsSo
<1>4. ~Earlier(b, a)
  BY DEF Earlier
<1> HIDE DEF a, b
<1>5. CASE a = b
  BY <1>2, <1>5 DEF a, b
<1>6. CASE a \in Keywords \cup {"IDENTIFIER"} /\ b \in Keywords \cup {"IDENTIFIER"}
  <2>1. \A type \in Keywords \cup {"IDENTIFIER"} :
            Matches(text, type) => Size(text, type) = Identifier(text)
    BY SizeOf, KeywordTaken DEF Matches
  <2> QED BY <1>2, <1>6, <2>1 DEF a, b
<1>7. CASE a # b /\ a \in {"DOUBLE", "INTEGER"} /\ b \in {"DOUBLE", "INTEGER"}
  <2>1. a = "DOUBLE" /\ b = "INTEGER"
    BY <1>4, <1>7, WordsAndNumbersInOrder
  <2>2. Span(text, Digits) > 0 /\ Span(text, Digits) <= Double(text)
    <3>1. Double(text) > 0
      BY <2>1, SizeOf DEF a, Matches
    <3> DEFINE w == Span(text, Digits)
               k == Span(Drop(text, w + 1), Digits)
               x == OptionalExponent(Drop(text, w + 1 + k))
    <3>2. w > 0 /\ At(text, w + 1) = "." /\ Double(text) = (w + 1 + k) + x
      BY <3>1 DEF Double
    <3>3. w \in 0 .. Len(text)
      BY SpanIs
    <3> HIDE DEF w
    <3>4. w + 1 \in 0 .. Len(text)
      <4>1. "." # "end of text"
        OBVIOUS
      <4>2. w + 1 \in 1 .. Len(text)
        BY <3>2, <4>1, AtIs
      <4> QED BY <1>10, <4>2
    <3>5. Drop(text, w + 1) \in Seq(Pieces) /\ Len(Drop(text, w + 1)) = Len(text) - (w + 1)
      BY <3>4, Behind
    <3>6. k \in 0 .. Len(text) - (w + 1)
      BY <3>5, SpanIs
    <3> HIDE DEF k
    <3>7. w + 1 + k \in 0 .. Len(text)
      BY <1>10, <3>3, <3>6
    <3>8. Drop(text, w + 1 + k) \in Seq(Pieces) /\ Len(Drop(text, w + 1 + k)) \in Nat
      BY <3>7, Behind, LenProperties
    <3>9. x \in Nat
      BY <3>8, ExponentTaken
    <3> HIDE DEF x
    <3>10. w <= (w + 1 + k) + x
      BY <1>10, <3>3, <3>6, <3>9
    <3> QED BY <3>2, <3>10 DEF w, k, x
  <2>3. Integer(text) <= Span(text, Digits)
    <3>1. Span(text, Digits) \in Nat
      BY <1>10, SpanIs
    <3> QED BY <2>2, <3>1 DEF Integer
  <2>4. Size(text, b) = Integer(text) /\ Size(text, a) = Double(text)
    BY <2>1, SizeOf
  <2>5. Span(text, Digits) \in Nat
    BY <1>10, SpanIs
  <2> QED BY <1>2, <2>2, <2>3, <2>4, <2>5 DEF a, b
<1>8. CASE /\ a # b /\ a \in SymbolTypes \cup {"LINE_COMMENT_START"}
           /\ b \in SymbolTypes \cup {"LINE_COMMENT_START"}
  <2>1. \A type \in SymbolTypes :
            Matches(text, type) => Size(text, type) = Len(Symbols[type])
    BY SizeOf DEF StartOfWord, Matches
  <2>2. /\ \A type \in PairTypes : Len(Symbols[type]) = 2
        /\ \A type \in SingleTypes : Len(Symbols[type]) = 1
    BY SymbolsAre DEF IsPair, IsSingle
  <2>3. /\ \A type \in SymbolTypes : text[1] \in Begin(type) => text[1] = Symbols[type][1]
        /\ text[1] \in Begin("LINE_COMMENT_START") => text[1] = "/"
    BY BeginIs
  <2>4. \A type \in PairTypes : Symbols[type][1] # "/"
    BY PairTexts DEF PairTypes, IsPair
  <2>5. CASE a \in SymbolTypes /\ b \in SymbolTypes
    <3>1. Symbols[a][1] = Symbols[b][1]
      BY <1>3, <2>3, <2>5
    <3>2. ~(b \in PairTypes /\ a \in SingleTypes)
      BY <1>4, <3>1, PairsInOrder
    <3>3. Size(text, a) = Len(Symbols[a]) /\ Size(text, b) = Len(Symbols[b])
      BY <2>1, <2>5 DEF a, b
    <3>4. CASE a \in PairTypes
      <4>1. Len(Symbols[a]) = 2 /\ (Len(Symbols[b]) = 1 \/ Len(Symbols[b]) = 2)
        BY <2>2, <2>5, <3>4, SymbolsAre
      <4>2. Size(text, a) = 2 /\ (Size(text, b) = 1 \/ Size(text, b) = 2)
        BY <3>3, <4>1
      <4> QED BY <4>2 DEF a, b
    <3>5. CASE b \in SingleTypes
      <4>1. Len(Symbols[b]) = 1 /\ (Len(Symbols[a]) = 1 \/ Len(Symbols[a]) = 2)
        BY <2>2, <2>5, <3>5, SymbolsAre
      <4>2. Size(text, b) = 1 /\ (Size(text, a) = 1 \/ Size(text, a) = 2)
        BY <3>3, <4>1
      <4> QED BY <4>2 DEF a, b
    <3> QED BY <2>5, <3>2, <3>4, <3>5, SymbolsAre
  <2>6. CASE a = "LINE_COMMENT_START" /\ b \in SymbolTypes
    <3>1. b \in SingleTypes
      BY <1>3, <2>3, <2>4, <2>6, SymbolsAre
    <3>2. Size(text, b) = 1
      BY <2>1, <2>2, <2>6, <3>1 DEF b
    <3>3. Size(text, a) > 0
      BY DEF Matches, a
    <3>4. Size(text, b) <= Size(text, a)
      BY <1>2, <3>2, <3>3
    <3> QED BY <3>4 DEF a, b
  <2>7. CASE b = "LINE_COMMENT_START" /\ a \in SymbolTypes
    <3>1. a \in SingleTypes /\ Symbols[a][1] = "/"
      BY <1>3, <2>3, <2>4, <2>7, SymbolsAre
    <3>2. a = "DIVISION"
      BY <3>1, SingleStarts
    <3> QED BY <1>4, <2>7, <3>2, WordsAndNumbersInOrder
  <2> QED BY <1>8, <2>5, <2>6, <2>7
<1> QED BY <1>1, <1>3, <1>5, <1>6, <1>7, <1>8, Rivals

(* The first rule that matches takes the longest lexeme, and none matches  *)
(* only where none begins. *)
LEMMA FirstRuleTakes ==
    ASSUME NEW text \in Seq(Pieces)
    PROVE  /\ FirstRule(text).size \in 0 .. Len(text)
           /\ FirstRule(text).size > 0 =>
                  /\ FirstRule(text).type \in Types
                  /\ Grammar!IsLexeme(SubSeq(text, 1, FirstRule(text).size),
                                      FirstRule(text).type)
                  /\ \A longer \in FirstRule(text).size + 1 .. Len(text) :
                         ~Grammar!Begins(text, longer)
           /\ FirstRule(text).size = 0 =>
                  \A n \in 1 .. Len(text) : ~Grammar!Begins(text, n)
<1> DEFINE matching == {r \in DOMAIN Ladder : Size(text, Ladder[r]) > 0}
           r == CHOOSE rule \in matching : \A other \in matching : rule <= other
           a == Ladder[r]
<1>1. Len(text) \in Nat
  BY LenProperties
<1>2. \A type \in Types : Size(text, type) \in 0 .. Len(text)
  BY Taken
<1>3. ASSUME NEW n \in 1 .. Len(text), Grammar!Begins(text, n)
      PROVE  \E taker \in Types : n <= Size(text, taker)
  BY <1>3, Taken, LadderTypes DEF Grammar!Begins
<1>4. CASE matching = {}
  <2>1. FirstRule(text).size = 0
    BY <1>4 DEF FirstRule
  <2>2. ASSUME NEW type \in Types PROVE ~(Size(text, type) > 0)
    <3>1. PICK rule \in DOMAIN Ladder : Ladder[rule] = type
      BY LadderTypes
    <3> QED BY <1>4, <3>1
  <2>3. ASSUME NEW n \in 1 .. Len(text), Grammar!Begins(text, n) PROVE FALSE
    <3>1. PICK taker \in Types : n <= Size(text, taker)
      BY <1>3, <2>3
    <3>2. Size(text, taker) \in Nat /\ ~(Size(text, taker) > 0) /\ n \in Nat /\ n > 0
      BY <1>1, <1>2, <2>2
    <3> QED BY <3>1, <3>2
  <2> QED BY <1>1, <2>1, <2>3
<1>5. CASE matching # {}
  <2>1. FirstRule(text) = [type |-> a, size |-> Size(text, a)]
    BY <1>5 DEF FirstRule
  <2>2. matching \subseteq 1 .. 51
    BY LadderTypes
  <2>3. r \in matching /\ \A other \in matching : r <= other
    <3> HIDE DEF matching
    <3>1. matching \subseteq Nat
      BY <2>2
    <3> QED BY <1>5, <3>1, LeastChosen
  <2> HIDE DEF r
  <2>4. r \in DOMAIN Ladder /\ Matches(text, a) /\ a \in Types
    BY <2>3, LadderTypes DEF Matches
  <2>5. \A other \in DOMAIN Ladder : Matches(text, Ladder[other]) => ~(other < r)
    <3>1. \A other \in matching : ~(other < r)
      <4> HIDE DEF matching
      <4> TAKE other \in matching
      <4>1. r \in 1 .. 51 /\ other \in 1 .. 51 /\ r <= other
        BY <2>2, <2>3
      <4> QED BY <4>1
    <3>2. \A other \in DOMAIN Ladder : Matches(text, Ladder[other]) => other \in matching
      BY DEF Matches
    <3> HIDE DEF matching
    <3> QED BY <3>1, <3>2
  <2> HIDE DEF matching
  <2>6. ASSUME NEW type \in Types PROVE Size(text, type) <= Size(text, a)
    <3>1. PICK s \in DOMAIN Ladder : Ladder[s] = type
      BY LadderTypes
    <3>2. CASE Matches(text, type)
      BY <2>4, <2>5, <3>1, <3>2, EarlierTakesMore
    <3>3. CASE ~Matches(text, type)
      <4>1. ~(Size(text, type) > 0)
        BY <3>3 DEF Matches
      <4> HIDE DEF a
      <4> QED BY <1>1, <1>2, <2>4, <4>1
    <3> QED BY <3>2, <3>3
  <2>7. Grammar!IsLexeme(SubSeq(text, 1, Size(text, a)), a)
    <3>1. CASE a # "IDENTIFIER"
      BY <2>4, <3>1, Taken DEF Matches
    <3>2. CASE a = "IDENTIFIER"
      <4>1. Size(text, a) = Identifier(text)
        BY <3>2, SizeOf
      <4>2. Identifier(text) > 0
        BY <2>4, <4>1 DEF Matches
      <4>3. Identifier(text) \in 1 .. Len(text)
        BY <1>1, <4>2, IdentifierTaken
      <4>4. Grammar!IsWord(SubSeq(text, 1, Identifier(text)))
        BY <4>2, IdentifierTaken
      <4>5. ASSUME NEW type \in Keywords, SubSeq(text, 1, Identifier(text)) = KeywordText(type)
            PROVE  FALSE
        <5>1. WholeWord(text, KeywordText(type)) = Identifier(text)
          BY <4>3, <4>5, KeywordTaken
        <5>2. Matches(text, type)
          BY <4>2, <5>1, SizeOf DEF Matches
        <5>3. PICK s \in DOMAIN Ladder : Ladder[s] = type
          BY LadderTypes DEF Types
        <5>4. s < r
          BY <2>4, <3>2, <5>3, WordsAndNumbersInOrder DEF Earlier
        <5> QED BY <2>5, <5>2, <5>3, <5>4
      <4>6. ~Grammar!IsReserved(SubSeq(text, 1, Identifier(text)))
        BY <4>5, SameTexts DEF Grammar!IsReserved
      <4> QED BY <3>2, <4>1, <4>4, <4>6, LexemeOf
    <3> QED BY <3>1, <3>2
  <2> DEFINE n == Size(text, a)
  <2>8. n \in 0 .. Len(text) /\ n > 0
    BY <1>2, <2>4 DEF Matches
  <2>9. FirstRule(text).size = n /\ FirstRule(text).type = a
    BY <2>1
  <2> HIDE DEF n, a
  <2>10. ASSUME NEW longer \in n + 1 .. Len(text), Grammar!Begins(text, longer)
         PROVE  FALSE
    <3>1. longer \in 1 .. Len(text) /\ n \in Nat /\ longer \in Nat /\ longer > n
      BY <1>1, <2>8
    <3>2. PICK taker \in Types : longer <= Size(text, taker)
      BY <1>3, <2>10, <3>1
    <3>3. Size(text, taker) <= n /\ Size(text, taker) \in Nat
      BY <1>1, <1>2, <2>6 DEF n
    <3> QED BY <3>1, <3>2, <3>3
  <2>11. ~(n = 0)
    BY <2>8
  <2> QED BY <2>4, <2>7, <2>8, <2>9, <2>10, <2>11 DEF n
<1> QED BY <1>4, <1>5

-----------------------------------------------------------------------------
(* The scanner *)

(* What is left is a text. *)
TextInv == content_ \in Seq(Pieces)

LEMMA TextRemains == Spec => []TextInv
<1>1. Init => TextInv
  BY SourceTextsAssumption DEF Init, TextInv
<1>2. TextInv /\ [Next]_vars => TextInv'
  <2> SUFFICES ASSUME TextInv, [Next]_vars PROVE TextInv'
    OBVIOUS
  <2>1. Len(content_) \in Nat
    BY LenProperties DEF TextInv
  <2>2. \A n \in 0 .. Len(content_) : Drop(content_, n) \in Seq(Pieces)
    BY Behind DEF TextInv
  <2>3. CASE Lexes
    <3>1. FirstRule(content_).size \in 0 .. Len(content_)
      BY FirstRuleTakes DEF TextInv
    <3> QED BY <2>2, <2>3, <3>1 DEF Lexes, MoveForward, TextInv
  <2>4. CASE UnknownToken
    BY <2>4 DEF UnknownToken, TextInv
  <2>5. CASE ReadsBehindTheEnd
    <3>1. Len(content_) \in 0 .. Len(content_)
      BY <2>1
    <3> QED BY <2>2, <2>5, <3>1 DEF ReadsBehindTheEnd, MoveForward, TextInv
  <2>6. CASE UNCHANGED vars
    BY <2>6 DEF vars, TextInv
  <2> QED BY <2>3, <2>4, <2>5, <2>6 DEF Next
<1> QED BY <1>1, <1>2, PTL DEF Spec

(* Whatever the text, and however long it is, the scanner implements the   *)
(* lexical grammar: the first rule of the ladder that matches takes the    *)
(* longest lexeme of any type, an error is reported only where no lexeme   *)
(* begins, and what lies behind the end of the source is read only from a  *)
(* quote that no string begins with (lexNext, lexStandardString).          *)
THEOREM TakesTheLongestLexeme == Spec => MaximalMunch
<1> DEFINE stopped == undefined \/ error # "none"
<1>1. Init => Grammar!Init
  BY DEF Init, Grammar!Init
<1>2. TextInv /\ [Next]_vars => [Grammar!Next]_Grammar!vars
  <2> SUFFICES ASSUME TextInv, [Next]_vars PROVE [Grammar!Next]_Grammar!vars
    OBVIOUS
  <2>1. CASE Lexes
    <3> DEFINE n == FirstRule(content_).size
               type == FirstRule(content_).type
    <3>1. /\ n \in 0 .. Len(content_) /\ n > 0 /\ type \in Types
          /\ Grammar!IsLexeme(SubSeq(content_, 1, n), type)
          /\ \A longer \in n + 1 .. Len(content_) : ~Grammar!Begins(content_, longer)
      BY <2>1, FirstRuleTakes DEF TextInv, Lexes
    <3>2. /\ lexemes' = Append(lexemes, [type |-> type, text |-> SubSeq(content_, 1, n)])
          /\ content_' = Drop(content_, n)
          /\ ~stopped /\ stopped' = stopped
      BY <2>1 DEF Lexes, Running, MoveForward
    <3> HIDE DEF n, type, stopped
    <3>3. n \in 1 .. Len(content_) /\ type \in Grammar!LexemeTypes
      <4>1. Len(content_) \in Nat
        BY LenProperties DEF TextInv
      <4> QED BY <3>1, <4>1, LadderTypes
    <3>4. Grammar!Take
      BY <3>1, <3>2, <3>3, SameTexts DEF Grammar!Take, stopped
    <3> QED BY <3>4 DEF Grammar!Next
  <2>2. CASE UnknownToken
    <3>1. \A n \in 1 .. Len(content_) : ~Grammar!Begins(content_, n)
      BY <2>2, FirstRuleTakes DEF TextInv, UnknownToken
    <3>2. /\ ~stopped /\ content_ # <<>> /\ stopped' = TRUE
          /\ UNCHANGED <<content_, lexemes>>
      BY <2>2 DEF UnknownToken, Running
    <3>3. Grammar!Reject
      BY <3>1, <3>2 DEF Grammar!Reject
    <3> QED BY <3>3 DEF Grammar!Next
  <2>3. CASE ReadsBehindTheEnd
    <3>1. Grammar!Unclosed(content_)
      BY <2>3, StringTaken DEF TextInv, ReadsBehindTheEnd
    <3>2. ~stopped /\ stopped' = TRUE
      BY <2>3 DEF ReadsBehindTheEnd, Running
    <3>3. Grammar!MissTheEnd
      BY <3>1, <3>2 DEF Grammar!MissTheEnd
    <3> QED BY <3>3 DEF Grammar!Next
  <2>4. CASE UNCHANGED vars
    BY <2>4 DEF vars, Grammar!vars
  <2> QED BY <2>1, <2>2, <2>3, <2>4 DEF Next
<1> QED BY <1>1, <1>2, TextRemains, PTL DEF Spec, MaximalMunch, Grammar!Spec

-----------------------------------------------------------------------------
(* Digits *)

LEMMA DigitValues == \A c \in Digits : DigitValue(c) \in 0 .. 9
<1> DEFINE digits == <<"0", "1", "2", "3", "4", "5", "6", "7", "8", "9">>
<1>1. DOMAIN digits = 1 .. 10
  OBVIOUS
<1>2. \A c \in Digits : \E i \in 1 .. 10 : digits[i] = c
  <2>1. /\ digits[1] = "0" /\ digits[2] = "1" /\ digits[3] = "2" /\ digits[4] = "3"
        /\ digits[5] = "4" /\ digits[6] = "5" /\ digits[7] = "6" /\ digits[8] = "7"
        /\ digits[9] = "8" /\ digits[10] = "9"
    OBVIOUS
  <2> HIDE DEF digits
  <2> QED BY <2>1 DEF Digits
<1>3. \A c : DigitValue(c) = (CHOOSE i \in DOMAIN digits : digits[i] = c) - 1
  BY DEF DigitValue
<1> HIDE DEF digits
<1> SUFFICES ASSUME NEW c \in Digits PROVE DigitValue(c) \in 0 .. 9
  OBVIOUS
<1> DEFINE place == CHOOSE i \in DOMAIN digits : digits[i] = c
<1>4. place \in 1 .. 10
  BY <1>1, <1>2
<1>5. DigitValue(c) = place - 1
  BY <1>3
<1> HIDE DEF place
<1> QED BY <1>4, <1>5

(* What parse_int_unsafe does with a literal: the value so far, and        *)
(* whether the arithmetic was undefined.                                   *)
Reads(text, f) ==
    /\ f[0] = [value |-> 0, undefined |-> FALSE]
    /\ \A i \in 1 .. Len(text) :
           f[i] = [value     |-> Wrapped(NextValue(f[i - 1].value, text[i])),
                   undefined |-> \/ f[i - 1].undefined
                                 \/ ~Fits(NextValue(f[i - 1].value, text[i]))]

(* The value of the last digits, and what the place before them is worth.  *)
Weighs(text, f) ==
    /\ f[0] = [place |-> 1, value |-> 0]
    /\ \A n \in 1 .. Len(text) :
           f[n] = [place |-> 10 * f[n - 1].place,
                   value |-> DigitValue(text[Len(text) - n + 1]) * f[n - 1].place
                                 + f[n - 1].value]

(* The value of the first digits, by arithmetic without a width. *)
Grows(text, f) ==
    f[0] = 0 /\ \A i \in 1 .. Len(text) : f[i] = DigitValue(text[i]) + f[i - 1] * 10

Parsed == [value : Int, undefined : BOOLEAN]
Weighed == [place : Nat, value : Nat]

LEMMA WrappedType == \A n \in Int : Wrapped(n) \in Int
BY MaxIntAssumption DEF Wrapped

LEMMA WrappedFits == \A n \in Int : Fits(n) => Wrapped(n) = n
<1> SUFFICES ASSUME NEW n \in Int, Fits(n) PROVE Wrapped(n) = n
  OBVIOUS
<1> DEFINE w == 2 * (MaxInt + 1)
           m == n + MaxInt + 1
<1>1. w \in Nat /\ w > 0 /\ m \in 0 .. w - 1
  BY MaxIntAssumption DEF Fits
<1>2. Wrapped(n) = (m % w) - (MaxInt + 1)
  BY DEF Wrapped
<1>3. m - (MaxInt + 1) = n
  BY MaxIntAssumption
<1> HIDE DEF m, w
<1>4. m % w = m
  BY <1>1
<1> QED BY <1>2, <1>3, <1>4

-----------------------------------------------------------------------------
(* The recursive functions are what their equations say. *)

LEMMA ParseIntReads ==
    ASSUME NEW text \in Seq(Digits)
    PROVE  \E f : /\ Reads(text, f) /\ ParseInt(text) = f[Len(text)]
                 /\ \A i \in 0 .. Len(text) : f[i] \in Parsed
<1> DEFINE D == 0 .. Len(text)
           first == [value |-> 0, undefined |-> FALSE]
           Turn(r, i) == [value     |-> Wrapped(NextValue(r.value, text[i])),
                          undefined |-> r.undefined \/ ~Fits(NextValue(r.value, text[i]))]
           step == [i \in 1 .. Len(text) |-> [r \in Parsed |-> Turn(r, i)]]
           Solves(f) ==
               f = [i \in D |-> IF i = 0 THEN first ELSE Turn(f[i - 1], i)]
           read == CHOOSE f : Solves(f)
<1>1. /\ Len(text) \in Nat /\ 0 \in D
      /\ \A i \in 1 .. Len(text) : i \in D /\ i - 1 \in D /\ i # 0
  BY LenProperties
<1>2. ASSUME NEW i \in 1 .. Len(text), NEW r \in Parsed PROVE Turn(r, i) \in Parsed
  <2>1. NextValue(r.value, text[i]) \in Int
    <3>1. text[i] \in Digits
      BY <1>1, ElementOfSeq
    <3> QED BY <3>1, DigitValues DEF NextValue, Parsed
  <2>2. Wrapped(NextValue(r.value, text[i])) \in Int
    BY <2>1, WrappedType
  <2> QED BY <2>2 DEF Parsed
<1>3. first \in Parsed
  BY DEF Parsed
<1>4. ParseInt(text) = read[Len(text)]
  BY DEF ParseInt
<1> HIDE DEF Turn, first, D
<1>5. \E f : Solves(f)
  <2>1. step \in [1 .. Len(text) -> [Parsed -> Parsed]]
    BY <1>2
  <2>2. PICK f \in [0 .. Len(text) -> Parsed] : Runs(f, Len(text), first, step)
    <3> HIDE DEF step
    <3> QED BY <1>1, <1>3, <2>1, RunsExist
  <2>3. f[0] = first /\ \A i \in 1 .. Len(text) : f[i] = Turn(f[i - 1], i)
    BY <1>1, <2>2 DEF Runs, D
  <2> QED BY <1>1, <2>2, <2>3 DEF D
<1>6. read[0] = first /\ \A i \in 1 .. Len(text) : read[i] = Turn(read[i - 1], i)
  <2>1. Solves(read)
    <3> HIDE DEF Solves
    <3> QED BY <1>5
  <2> HIDE DEF read
  <2> QED BY <1>1, <2>1
<1> HIDE DEF read
<1>7. \A i \in D : read[i] \in Parsed
  BY <1>1, <1>2, <1>3, <1>6, AllResults DEF D
<1>8. Reads(text, read)
  BY <1>6 DEF Reads, Turn, first
<1> QED BY <1>4, <1>7, <1>8 DEF D

LEMMA NumberWeighs ==
    ASSUME NEW text \in Seq(Digits)
    PROVE  \E f : /\ Weighs(text, f) /\ Number(text) = f[Len(text)].value
                 /\ \A n \in 0 .. Len(text) : f[n] \in Weighed
<1> DEFINE D == 0 .. Len(text)
           first == [place |-> 1, value |-> 0]
           Turn(r, n) == [place |-> 10 * r.place,
                          value |-> DigitValue(text[Len(text) - n + 1]) * r.place + r.value]
           step == [n \in 1 .. Len(text) |-> [r \in Weighed |-> Turn(r, n)]]
           Solves(f) ==
               f = [n \in D |-> IF n = 0 THEN first ELSE Turn(f[n - 1], n)]
           last == CHOOSE f : Solves(f)
<1>1. /\ Len(text) \in Nat /\ 0 \in D
      /\ \A n \in 1 .. Len(text) : n \in D /\ n - 1 \in D /\ n # 0
  BY LenProperties
<1>2. ASSUME NEW n \in 1 .. Len(text), NEW r \in Weighed PROVE Turn(r, n) \in Weighed
  <2>1. Len(text) - n + 1 \in 1 .. Len(text)
    BY <1>1
  <2>2. DigitValue(text[Len(text) - n + 1]) \in Nat
    <3>1. text[Len(text) - n + 1] \in Digits
      BY <2>1, ElementOfSeq
    <3> QED BY <3>1, DigitValues
  <2>3. r.place \in Nat /\ r.value \in Nat
    BY DEF Weighed
  <2>4. \A d, p, v \in Nat : 10 * p \in Nat /\ d * p + v \in Nat
    OBVIOUS
  <2> QED BY <2>2, <2>3, <2>4 DEF Weighed
<1>3. first \in Weighed
  BY DEF Weighed
<1>4. Number(text) = last[Len(text)].value
  BY DEF Number
<1> HIDE DEF Turn, first, D
<1>5. \E f : Solves(f)
  <2>1. step \in [1 .. Len(text) -> [Weighed -> Weighed]]
    BY <1>2
  <2>2. PICK f \in [0 .. Len(text) -> Weighed] : Runs(f, Len(text), first, step)
    <3> HIDE DEF step
    <3> QED BY <1>1, <1>3, <2>1, RunsExist
  <2>3. f[0] = first /\ \A n \in 1 .. Len(text) : f[n] = Turn(f[n - 1], n)
    BY <1>1, <2>2 DEF Runs, D
  <2> QED BY <1>1, <2>2, <2>3 DEF D
<1>6. last[0] = first /\ \A n \in 1 .. Len(text) : last[n] = Turn(last[n - 1], n)
  <2>1. Solves(last)
    <3> HIDE DEF Solves
    <3> QED BY <1>5
  <2> HIDE DEF last
  <2> QED BY <1>1, <2>1
<1> HIDE DEF last
<1>7. \A n \in D : last[n] \in Weighed
  BY <1>1, <1>2, <1>3, <1>6, AllResults DEF D
<1>8. Weighs(text, last)
  BY <1>6 DEF Weighs, Turn, first
<1> QED BY <1>4, <1>7, <1>8 DEF D

LEMMA PlainArithmetic ==
    ASSUME NEW text \in Seq(Digits)
    PROVE  \E f \in [0 .. Len(text) -> Nat] : Grows(text, f)
<1> DEFINE Turn(v, i) == DigitValue(text[i]) + v * 10
           step == [i \in 1 .. Len(text) |-> [v \in Nat |-> Turn(v, i)]]
<1>1. Len(text) \in Nat /\ \A i \in 1 .. Len(text) : i - 1 \in 0 .. Len(text)
  BY LenProperties
<1>2. \A i \in 1 .. Len(text), v \in Nat : Turn(v, i) \in Nat
  <2>1. \A i \in 1 .. Len(text) : text[i] \in Digits
    BY ElementOfSeq
  <2> QED BY <2>1, DigitValues
<1> HIDE DEF Turn
<1>3. step \in [1 .. Len(text) -> [Nat -> Nat]]
  BY <1>2
<1>4. PICK f \in [0 .. Len(text) -> Nat] : Runs(f, Len(text), 0, step)
  <2> HIDE DEF step
  <2> QED BY <1>1, <1>3, RunsExist
<1>5. Grows(text, f)
  BY <1>1, <1>4 DEF Runs, Grows, Turn
<1> QED BY <1>4, <1>5

-----------------------------------------------------------------------------
(* As long as it fits, the value so far is what plain arithmetic makes it. *)
LEMMA ReadsPlainly ==
    ASSUME NEW text \in Seq(Digits), NEW f, Reads(text, f),
           \A i \in 0 .. Len(text) : f[i] \in Parsed,
           NEW g \in [0 .. Len(text) -> Nat], Grows(text, g)
    PROVE  \A i \in 0 .. Len(text) :
               /\ f[i].undefined <=> g[i] > MaxInt
               /\ f[i].undefined \/ f[i].value = g[i]
<1> DEFINE Right(i) == /\ f[i].undefined <=> g[i] > MaxInt
                       /\ f[i].undefined \/ f[i].value = g[i]
           right == [i \in 0 .. Len(text) |-> Right(i)]
<1>1. Len(text) \in Nat
  BY LenProperties
<1>2. Right(0)
  BY <1>1, MaxIntAssumption DEF Reads, Grows
<1>3. ASSUME NEW i \in 1 .. Len(text), Right(i - 1) PROVE Right(i)
  <2> DEFINE d == DigitValue(text[i])
             u == f[i - 1]
             p == g[i - 1]
             next == d + u.value * 10
  <2>1. d \in 0 .. 9
    <3>1. text[i] \in Digits
      BY ElementOfSeq
    <3> QED BY <3>1, DigitValues
  <2>2. /\ i \in 0 .. Len(text) /\ i - 1 \in 0 .. Len(text)
        /\ u \in Parsed /\ p \in Nat
    BY <1>1
  <2>3. u.value \in Int /\ u.undefined \in BOOLEAN
    BY <2>2 DEF Parsed
  <2>4. f[i] = [value |-> Wrapped(next), undefined |-> u.undefined \/ ~Fits(next)]
    BY DEF Reads, NextValue
  <2>5. g[i] = d + p * 10
    BY DEF Grows
  <2>6. u.undefined <=> p > MaxInt
    BY <1>3
  <2>7. u.undefined \/ u.value = p
    BY <1>3
  <2>8. f[i].value = Wrapped(next) /\ (f[i].undefined <=> u.undefined \/ ~Fits(next))
    <3>1. f[i].value = Wrapped(next) /\ f[i].undefined = (u.undefined \/ ~Fits(next))
      BY <2>4
    <3> HIDE DEF next, u
    <3> QED BY <3>1
  <2> HIDE DEF d, u, p
  <2>9. CASE u.undefined
    <3>1. g[i] > MaxInt
      BY <2>1, <2>2, <2>5, <2>6, <2>9, MaxIntAssumption
    <3> QED BY <2>8, <2>9, <3>1
  <2>10. CASE ~u.undefined
    <3>1. next = g[i] /\ next \in Nat
      BY <2>1, <2>2, <2>5, <2>7, <2>10
    <3> HIDE DEF next
    <3>2. Fits(next) <=> ~(next > MaxInt)
      BY <3>1, MaxIntAssumption DEF Fits
    <3>3. Fits(next) => Wrapped(next) = next
      BY <3>1, WrappedFits
    <3> QED BY <2>8, <2>10, <3>1, <3>2, <3>3
  <2> QED BY <2>9, <2>10
<1> HIDE DEF Right
<1>4. \A i \in 0 .. Len(text) : right[i] \in {TRUE}
  <2>1. right[0] \in {TRUE}
    BY <1>1, <1>2
  <2>2. \A i \in 1 .. Len(text) : right[i - 1] \in {TRUE} => right[i] \in {TRUE}
    <3>1. \A i \in 1 .. Len(text) : i \in 0 .. Len(text) /\ i - 1 \in 0 .. Len(text)
      BY <1>1
    <3> QED BY <1>3, <3>1
  <2> HIDE DEF right
  <2> QED BY <1>1, <2>1, <2>2, AllResults
<1> QED BY <1>4 DEF Right

(* The first digits, weighed with the places behind them, and the value of *)
(* the last ones make up the number, wherever it is cut.                   *)
LEMMA WeighsPlainly ==
    ASSUME NEW text \in Seq(Digits), NEW f, Weighs(text, f),
           \A n \in 0 .. Len(text) : f[n] \in Weighed,
           NEW g \in [0 .. Len(text) -> Nat], Grows(text, g)
    PROVE  f[Len(text)].value = g[Len(text)]
<1> DEFINE all == [n \in 0 .. Len(text) |-> g[Len(text) - n] * f[n].place + f[n].value]
           total == g[Len(text)]
           Total == {total}
<1>1. Len(text) \in Nat /\ 0 \in 0 .. Len(text) /\ Len(text) \in 0 .. Len(text)
  BY LenProperties
<1>2. \A n \in 0 .. Len(text) : f[n].place \in Nat /\ f[n].value \in Nat
  BY DEF Weighed
<1>3. all[0] = total
  <2>1. f[0].place = 1 /\ f[0].value = 0 /\ total \in Nat /\ Len(text) - 0 = Len(text)
    BY <1>1 DEF Weighs
  <2>2. all[0] = total * 1 + 0
    BY <1>1, <2>1
  <2> QED BY <2>1, <2>2
<1>4. ASSUME NEW n \in 1 .. Len(text) PROVE all[n] = all[n - 1]
  <2> DEFINE k == Len(text) - n + 1
             d == DigitValue(text[k])
             p == f[n - 1].place
             v == f[n - 1].value
             h == g[k - 1]
  <2>1. /\ n \in 0 .. Len(text) /\ n - 1 \in 0 .. Len(text) /\ k \in 1 .. Len(text)
        /\ k - 1 \in 0 .. Len(text) /\ Len(text) - n = k - 1 /\ Len(text) - (n - 1) = k
    BY <1>1
  <2>2. d \in Nat
    <3>1. text[k] \in Digits
      BY <2>1, ElementOfSeq
    <3> QED BY <3>1, DigitValues
  <2>3. p \in Nat /\ v \in Nat /\ h \in Nat
    BY <1>2, <2>1
  <2>4. g[k] = d + h * 10
    BY <2>1 DEF Grows
  <2>5. f[n].place = 10 * p /\ f[n].value = d * p + v
    <3>1. f[n] = [place |-> 10 * p, value |-> d * p + v]
      BY DEF Weighs
    <3> HIDE DEF d, p, v
    <3> QED BY <3>1
  <2>6. all[n] = h * (10 * p) + (d * p + v)
    BY <2>1, <2>5
  <2>7. all[n - 1] = (d + h * 10) * p + v
    BY <2>1, <2>4
  <2> HIDE DEF all, d, p, v, h
  <2>8. h * (10 * p) + (d * p + v) = (d + h * 10) * p + v
    BY <2>2, <2>3
  <2> QED BY <2>6, <2>7, <2>8
<1>5. \A n \in 0 .. Len(text) : all[n] \in Total
  <2> HIDE DEF all, total
  <2>1. \A n \in 1 .. Len(text) : all[n - 1] \in Total => all[n] \in Total
    BY <1>4
  <2>2. all[0] \in Total
    BY <1>3
  <2> HIDE DEF Total
  <2> QED BY <1>1, <2>1, <2>2, AllResults
<1>6. all[Len(text)] = g[0] * f[Len(text)].place + f[Len(text)].value
  <2>1. Len(text) - Len(text) = 0
    BY <1>1
  <2> QED BY <1>1, <2>1
<1>7. g[0] = 0
  BY DEF Grows
<1>8. f[Len(text)].place \in Nat /\ f[Len(text)].value \in Nat
  BY <1>1, <1>2
<1>9. all[Len(text)] = f[Len(text)].value
  <2> HIDE DEF all
  <2> QED BY <1>6, <1>7, <1>8
<1> HIDE DEF all
<1> QED BY <1>1, <1>5, <1>9

(* parse_int_unsafe is right about every literal that fits, and undefined  *)
(* for every other.                                                        *)
LEMMA ParsesTheNumber ==
    ASSUME NEW text \in Seq(Digits)
    PROVE  /\ ParseInt(text).undefined <=> Number(text) > MaxInt
           /\ ParseInt(text).undefined \/ ParseInt(text).value = Number(text)
<1>1. PICK f : /\ Reads(text, f) /\ ParseInt(text) = f[Len(text)]
               /\ \A i \in 0 .. Len(text) : f[i] \in Parsed
  BY ParseIntReads
<1>2. PICK w : /\ Weighs(text, w) /\ Number(text) = w[Len(text)].value
               /\ \A n \in 0 .. Len(text) : w[n] \in Weighed
  BY NumberWeighs
<1>3. PICK g \in [0 .. Len(text) -> Nat] : Grows(text, g)
  BY PlainArithmetic
<1>4. Number(text) = g[Len(text)]
  BY <1>2, <1>3, WeighsPlainly
<1>5. Len(text) \in 0 .. Len(text)
  BY LenProperties
<1> QED BY <1>1, <1>3, <1>4, <1>5, ReadsPlainly

-----------------------------------------------------------------------------
(* What the scanner calls an integer is one, and so it is with every type. *)
(* A quote that was never closed makes behind the end what is no string.   *)
LexemesInv ==
    /\ TextInv
    /\ lexemes \in Seq([type : Grammar!LexemeTypes, text : Seq(Pieces)])
    /\ \A i \in DOMAIN lexemes :
           \/ Grammar!IsLexeme(lexemes[i].text, lexemes[i].type)
           \/ undefined /\ lexemes[i].type = "STANDARD_STRING"

LEMMA LexemesAre == Spec => []LexemesInv
<1> USE DEF LexemesInv
<1> DEFINE L == [type : Grammar!LexemeTypes, text : Seq(Pieces)]
<1>1. Init => LexemesInv
  BY SourceTextsAssumption DEF Init, TextInv
<1>2. TextInv' /\ LexemesInv /\ [Next]_vars => LexemesInv'
  <2> SUFFICES ASSUME TextInv', LexemesInv, [Next]_vars PROVE LexemesInv'
    OBVIOUS
  <2>1. Len(content_) \in Nat /\ lexemes \in Seq(L)
    BY LenProperties DEF TextInv
  <2>2. ASSUME NEW l \in L, lexemes' = Append(lexemes, l), undefined => undefined',
               \/ Grammar!IsLexeme(l.text, l.type)
               \/ undefined' /\ l.type = "STANDARD_STRING"
        PROVE  LexemesInv'
    <3> HIDE DEF L
    <3>1. /\ lexemes' \in Seq(L) /\ Len(lexemes) \in Nat
          /\ Len(lexemes') = Len(lexemes) + 1 /\ DOMAIN lexemes' = 1 .. Len(lexemes')
          /\ DOMAIN lexemes = 1 .. Len(lexemes)
          /\ \A i \in 1 .. Len(lexemes) : lexemes'[i] = lexemes[i]
          /\ lexemes'[Len(lexemes) + 1] = l
      BY <2>1, <2>2, AppendProperties, LenProperties
    <3>2. \A i \in DOMAIN lexemes' : i \in DOMAIN lexemes \/ i = Len(lexemes) + 1
      BY <3>1
    <3>3. \A i \in DOMAIN lexemes' :
              \/ Grammar!IsLexeme(lexemes'[i].text, lexemes'[i].type)
              \/ undefined' /\ lexemes'[i].type = "STANDARD_STRING"
      <4> TAKE i \in DOMAIN lexemes'
      <4>1. CASE i = Len(lexemes) + 1
        BY <2>2, <3>1, <4>1
      <4>2. CASE i \in DOMAIN lexemes
        BY <2>2, <3>1, <4>2
      <4> QED BY <3>2, <4>1, <4>2
    <3> QED BY <3>1, <3>3 DEF L
  <2>3. CASE Lexes
    <3> DEFINE n == FirstRule(content_).size
               type == FirstRule(content_).type
    <3>1. /\ n \in 0 .. Len(content_) /\ type \in Types
          /\ Grammar!IsLexeme(SubSeq(content_, 1, n), type)
      BY <2>3, FirstRuleTakes DEF TextInv, Lexes
    <3>2. lexemes' = Append(lexemes, [type |-> type, text |-> SubSeq(content_, 1, n)])
      BY <2>3 DEF Lexes, MoveForward
    <3> HIDE DEF n, type
    <3>3. SubSeq(content_, 1, n) \in Seq(Pieces)
      BY <3>1, Prefix DEF TextInv
    <3>4. type \in Grammar!LexemeTypes
      BY <3>1, LadderTypes
    <3>5. undefined' = undefined
      BY <2>3 DEF Lexes
    <3> QED BY <2>2, <3>1, <3>2, <3>3, <3>4, <3>5
  <2>4. CASE UnknownToken
    BY <2>4 DEF UnknownToken, TextInv
  <2>5. CASE ReadsBehindTheEnd
    <3>0. undefined' = TRUE
      BY <2>5 DEF ReadsBehindTheEnd
    <3>1. CASE lexemes' = lexemes
      BY <3>0, <3>1
    <3>2. CASE lexemes' # lexemes
      <4>1. lexemes' = Append(lexemes, [type |-> "STANDARD_STRING",
                                        text |-> SubSeq(content_, 1, Len(content_))])
        BY <2>5, <3>2 DEF ReadsBehindTheEnd, MoveForward
      <4>2. SubSeq(content_, 1, Len(content_)) \in Seq(Pieces)
        BY <2>1, Prefix DEF TextInv
      <4>3. "STANDARD_STRING" \in Grammar!LexemeTypes
        BY DEF Grammar!LexemeTypes
      <4> QED BY <2>2, <3>0, <4>1, <4>2, <4>3
    <3> QED BY <3>1, <3>2
  <2>6. CASE UNCHANGED vars
    BY <2>6 DEF vars, TextInv
  <2> QED BY <2>3, <2>4, <2>5, <2>6 DEF Next
<1> QED BY <1>1, <1>2, TextRemains, PTL DEF Spec

(* Every integer literal the scanner finds in any text is converted to the *)
(* number it stands for, whatever the width of an integer, and the         *)
(* arithmetic is undefined for exactly those that are too large            *)
(* (SimpleExpressionParser::integer, parse_int_unsafe).                    *)
THEOREM LiteralsKeepTheirValue == Spec => []IntegersKeepTheirValue
<1>1. LexemesInv => IntegersKeepTheirValue
  <2> SUFFICES ASSUME LexemesInv, NEW i \in DOMAIN lexemes, lexemes[i].type = "INTEGER"
               PROVE  /\ ParseInt(lexemes[i].text).undefined
                             <=> Number(lexemes[i].text) > MaxInt
                      /\ \/ ParseInt(lexemes[i].text).undefined
                         \/ ParseInt(lexemes[i].text).value = Number(lexemes[i].text)
    BY DEF IntegersKeepTheirValue
  <2> DEFINE text == lexemes[i].text
  <2>1. text \in Seq(Pieces) /\ Grammar!IsInteger(text)
    <3>1. lexemes[i] \in [type : Grammar!LexemeTypes, text : Seq(Pieces)]
      BY ElementOfSeq, LenProperties DEF LexemesInv
    <3>2. Grammar!IsLexeme(text, "INTEGER")
      BY DEF LexemesInv
    <3> QED BY <3>1, <3>2, LexemeOf
  <2>2. \A j \in 1 .. Len(text) : text[j] \in Digits
    <3> HIDE DEF text
    <3> QED BY <2>1, SameTexts DEF Grammar!IsInteger, Grammar!IsNumber, Grammar!AllIn
  <2>3. text \in Seq(Digits)
    <3>1. Len(text) \in Nat /\ text = [j \in 1 .. Len(text) |-> text[j]]
      BY <2>1, SeqDef
    <3>2. text \in [1 .. Len(text) -> Digits]
      BY <2>2, <3>1
    <3> HIDE DEF text
    <3> QED BY <3>1, <3>2, SeqDef
  <2> HIDE DEF text
  <2>4. /\ ParseInt(text).undefined <=> Number(text) > MaxInt
        /\ ParseInt(text).undefined \/ ParseInt(text).value = Number(text)
    BY <2>3, ParsesTheNumber
  <2> QED BY <2>4 DEF text
<1> QED BY <1>1, LexemesAre, PTL

-----------------------------------------------------------------------------
(* Lexemes and what stands behind them *)

(* A lexeme begins with a piece its type begins with. *)
LEMMA LexemeBegins ==
    ASSUME NEW text \in Seq(Pieces), NEW type \in Types, Grammar!IsLexeme(text, type)
    PROVE  Len(text) \in Nat /\ Len(text) > 0 /\ text[1] \in Begin(type)
<1>1. Len(text) \in Nat /\ (text # <<>> => Len(text) > 0)
  BY LenProperties, EmptySeq
<1>2. text # <<>> => 1 \in 1 .. Len(text)
  BY <1>1
<1>3. CASE type = "WHITESPACE" \/ type = "NEWLINE"
  BY <1>1, <1>2, <1>3, LexemeOf, BeginIs DEF Grammar!AllIn
<1>4. CASE type = "IDENTIFIER"
  BY <1>1, <1>2, <1>4, LexemeOf, BeginIs, SameTexts DEF Grammar!IsWord, Grammar!AllIn
<1>5. CASE type \in Keywords
  <2>1. text = KeywordText(type)
    BY <1>5, LexemeOf
  <2>2. text # <<>> /\ text[1] \in WordPieces \ Digits
    BY <1>5, <2>1, WordsAre
  <2> QED BY <1>1, <1>5, <2>2, BeginIs
<1>6. CASE type = "INTEGER"
  <2>1. Grammar!IsNumber(text)
    BY <1>6, LexemeOf DEF Grammar!IsInteger
  <2> QED BY <1>1, <1>2, <1>6, <2>1, BeginIs, SameTexts DEF Grammar!IsNumber, Grammar!AllIn
<1>7. CASE type = "DOUBLE"
  <2>1. PICK dot \in 1 .. Len(text) : Grammar!IsNumber(SubSeq(text, 1, dot - 1))
    BY <1>7, LexemeOf DEF Grammar!IsDouble
  <2>2. dot - 1 \in 0 .. Len(text)
    BY <1>1
  <2>3. dot - 1 > 0 /\ \A i \in 1 .. dot - 1 : text[i] \in Digits
    BY <2>1, <2>2, NumberIs
  <2>4. 1 \in 1 .. dot - 1
    BY <1>1, <2>3
  <2>5. text[1] \in Digits
    BY <2>3, <2>4
  <2> QED BY <1>1, <1>7, <2>5, BeginIs
<1>8. CASE type = "STANDARD_STRING"
  BY <1>1, <1>8, LexemeOf, BeginIs, SameTexts DEF Grammar!IsString
<1>9. CASE type = "LINE_COMMENT_START"
  <2> DEFINE slashes == <<"/", "/">>
  <2>1. StartsWith(text, slashes)
    BY <1>9, LexemeOf, SameTexts DEF Grammar!IsComment
  <2>2. slashes \in Seq({"/"}) /\ Len(slashes) = 2 /\ slashes[1] = "/"
    OBVIOUS
  <2> HIDE DEF slashes
  <2>3. Len(slashes) <= Len(text) /\ \A i \in 1 .. Len(slashes) : text[i] = slashes[i]
    BY <2>1, <2>2, Starts
  <2>4. text[1] = "/" /\ Len(text) > 0
    BY <1>1, <2>2, <2>3
  <2> QED BY <1>1, <1>9, <2>4, BeginIs
<1>10. CASE type \in SymbolTypes
  <2>1. text = Symbols[type]
    BY <1>10, LexemeOf
  <2>2. Len(Symbols[type]) \in {1, 2}
    BY <1>10, SymbolsAre DEF IsPair, IsSingle
  <2> QED BY <1>1, <1>10, <2>1, <2>2, BeginIs
<1> QED BY <1>3, <1>4, <1>5, <1>6, <1>7, <1>8, <1>9, <1>10 DEF Types, OtherTypes

(* No two types are the same text: no two keywords ... *)
LEMMA WordsDiffer ==
    \A a, b \in Keywords : KeywordText(a) = KeywordText(b) => a = b
<1> DEFINE Name(stem) ==
               CASE stem = "let" -> "LET"      [] stem = "true" -> "TRUE"
                 [] stem = "false" -> "FALSE"  [] stem = "fun" -> "FUN"
                 [] stem = "type" -> "TYPE"    [] stem = "if" -> "IF"
                 [] stem = "elif" -> "ELIF"    [] stem = "else" -> "ELSE"
                 [] stem = "for" -> "FOR"      [] stem = "while" -> "WHILE"
                 [] stem = "self" -> "SELF_VALUE"
                 [] stem = "Self" -> "SELF_TYPE"
                 [] stem = "_" -> "UNDERSCORE"
<1>1. \A type \in Keywords \ {"TYPECLASS"} :
          \E stem : KeywordText(type) = <<stem>> /\ Name(stem) = type
  <2>1. /\ KeywordText("LET") = <<"let">> /\ KeywordText("TRUE") = <<"true">>
        /\ KeywordText("FALSE") = <<"false">> /\ KeywordText("FUN") = <<"fun">>
        /\ KeywordText("TYPE") = <<"type">> /\ KeywordText("IF") = <<"if">>
        /\ KeywordText("ELIF") = <<"elif">> /\ KeywordText("ELSE") = <<"else">>
        /\ KeywordText("FOR") = <<"for">> /\ KeywordText("WHILE") = <<"while">>
        /\ KeywordText("SELF_VALUE") = <<"self">> /\ KeywordText("SELF_TYPE") = <<"Self">>
        /\ KeywordText("UNDERSCORE") = <<"_">>
    BY DEF KeywordText
  <2>2. /\ Name("let") = "LET" /\ Name("true") = "TRUE"
        /\ Name("false") = "FALSE" /\ Name("fun") = "FUN"
        /\ Name("type") = "TYPE" /\ Name("if") = "IF"
        /\ Name("elif") = "ELIF" /\ Name("else") = "ELSE"
        /\ Name("for") = "FOR" /\ Name("while") = "WHILE"
        /\ Name("self") = "SELF_VALUE" /\ Name("Self") = "SELF_TYPE"
        /\ Name("_") = "UNDERSCORE"
    OBVIOUS
  <2> HIDE DEF Name
  <2> QED BY <2>1, <2>2 DEF Keywords
<1> HIDE DEF Name
<1>2. \A type \in Keywords \ {"TYPECLASS"} :
          Len(KeywordText(type)) = 1 /\ Name(KeywordText(type)[1]) = type
  <2> TAKE type \in Keywords \ {"TYPECLASS"}
  <2>1. PICK stem : KeywordText(type) = <<stem>> /\ Name(stem) = type
    BY <1>1
  <2>2. IsSingle(<<stem>>, stem)
    BY Tuples
  <2> QED BY <2>1, <2>2 DEF IsSingle
<1>3. Len(KeywordText("TYPECLASS")) = 2
  BY Tuples DEF KeywordText, IsPair
<1> QED BY <1>2, <1>3

(* ... and no two symbols, none of which begins a comment. *)
LEMMA SymbolsDiffer ==
    /\ \A a, b \in SymbolTypes : Symbols[a] = Symbols[b] => a = b
    /\ \A type \in SymbolTypes :
           Symbols[type][1] = "/" => Len(Symbols[type]) = 1
<1>1. \A a, b \in SingleTypes : Symbols[a] = Symbols[b] => a = b
  <2>1. \A a, b \in SingleTypes : Symbols[a][1] = Symbols[b][1] => a = b
    <3>1. \A type \in SingleTypes :
            /\ Symbols[type][1] = "." => type = "DOT"
            /\ Symbols[type][1] = "," => type = "COMMA"
            /\ Symbols[type][1] = "?" => type = "QUESTIONMARK"
            /\ Symbols[type][1] = "+" => type = "PLUS"
            /\ Symbols[type][1] = "*" => type = "ASTERIX"
            /\ Symbols[type][1] = "%" => type = "PERCENT"
            /\ Symbols[type][1] = "(" => type = "L_PARANTHESIS"
            /\ Symbols[type][1] = ")" => type = "R_PARANTHESIS"
            /\ Symbols[type][1] = "{" => type = "L_BRACKET"
            /\ Symbols[type][1] = "}" => type = "R_BRACKET"
            /\ Symbols[type][1] = ";" => type = "SEMICOLON"
      BY SingleTexts DEF SingleTypes, IsSingle
    <3>2. \A type \in SingleTypes : Symbols[type][1] \in SymbolStarts
      <4>1. \A type \in SingleTypes : \E x \in SymbolStarts : IsSingle(Symbols[type], x)
        BY SingleTexts DEF SingleTypes, SymbolStarts
      <4> QED BY <4>1 DEF IsSingle
    <3> TAKE a, b \in SingleTypes
    <3> HAVE Symbols[a][1] = Symbols[b][1]
    <3> QED BY <3>1, <3>2, SingleStarts DEF SymbolStarts
  <2> QED BY <2>1
<1>2. \A a, b \in PairTypes : Symbols[a] = Symbols[b] => a = b
  BY PairTexts DEF PairTypes, IsPair
<1>3. \A type \in SingleTypes : Len(Symbols[type]) = 1
  BY SymbolsAre DEF IsSingle
<1>4. \A type \in PairTypes : Len(Symbols[type]) = 2 /\ Symbols[type][1] # "/"
  BY PairTexts DEF PairTypes, IsPair
<1> QED BY <1>1, <1>2, <1>3, <1>4, SymbolsAre

(* What a comment begins with *)
LEMMA CommentBegins ==
    ASSUME NEW text \in Seq(Pieces), Grammar!IsComment(text)
    PROVE  /\ Len(text) \in Nat /\ Len(text) >= 2 /\ text[1] = "/" /\ text[2] = "/"
           /\ \A i \in 1 .. Len(text) : text[i] # LineEnd
<1> DEFINE slashes == <<"/", "/">>
<1>1. StartsWith(text, slashes)
  BY SameTexts DEF Grammar!IsComment
<1>2. /\ slashes \in Seq({"/"}) /\ Len(slashes) = 2
      /\ \A i \in {1, 2} : i \in 1 .. Len(slashes) /\ slashes[i] = "/"
  OBVIOUS
<1> HIDE DEF slashes
<1>3. Len(slashes) <= Len(text) /\ \A i \in 1 .. Len(slashes) : text[i] = slashes[i]
  BY <1>1, <1>2, Starts
<1>4. \A i \in 1 .. Len(text) : text[i] # LineEnd
  BY SameTexts DEF Grammar!IsComment, Grammar!AllIn
<1> QED BY <1>2, <1>3, <1>4, LenProperties

(* A text is a lexeme of one type at most. *)
LEMMA OneType ==
    ASSUME NEW text \in Seq(Pieces), NEW a \in Types, NEW b \in Types,
           Grammar!IsLexeme(text, a), Grammar!IsLexeme(text, b)
    PROVE  a = b
<1> SUFFICES ASSUME a # b PROVE FALSE
  OBVIOUS
<1>1. Len(text) \in Nat /\ Len(text) > 0 /\ text[1] \in Begin(a) /\ text[1] \in Begin(b)
  BY LexemeBegins
<1>2. ASSUME NEW keyword \in Keywords, Grammar!IsLexeme(text, keyword),
             Grammar!IsLexeme(text, "IDENTIFIER")
      PROVE  FALSE
  BY <1>2, LexemeOf, SameTexts DEF Grammar!IsReserved
<1>3. CASE a \in Keywords /\ b \in Keywords
  BY <1>3, LexemeOf, WordsDiffer
<1>4. ASSUME Grammar!IsLexeme(text, "DOUBLE"), Grammar!IsLexeme(text, "INTEGER")
      PROVE  FALSE
  <2>1. PICK dot \in 1 .. Len(text) : text[dot] = "."
    BY <1>4, LexemeOf DEF Grammar!IsDouble
  <2>2. text[dot] \in Digits
    BY <1>4, LexemeOf, SameTexts DEF Grammar!IsInteger, Grammar!IsNumber, Grammar!AllIn
  <2> QED BY <2>1, <2>2 DEF Digits
<1>5. ASSUME NEW symbol \in SymbolTypes, Grammar!IsLexeme(text, symbol),
             Grammar!IsLexeme(text, "LINE_COMMENT_START")
      PROVE  FALSE
  <2>1. text = Symbols[symbol]
    BY <1>5, LexemeOf
  <2>2. Len(text) >= 2 /\ text[1] = "/"
    BY <1>5, LexemeOf, CommentBegins
  <2>3. Len(text) = 1
    BY <2>1, <2>2, SymbolsDiffer
  <2> QED BY <2>2, <2>3
<1>6. CASE a \in SymbolTypes /\ b \in SymbolTypes
  <2>1. Symbols[a] = Symbols[b]
    BY <1>6, LexemeOf
  <2> QED BY <1>6, <2>1, SymbolsDiffer
<1> QED BY <1>1, <1>2, <1>3, <1>4, <1>5, <1>6, Rivals

(* A text without spaces *)
Plain(text) == \A i \in 1 .. Len(text) : text[i] \notin {Blank, LineEnd}

LEMMA PlainSets ==
    /\ \A text : Grammar!AllIn(text, WordPieces) => Plain(text)
    /\ \A text : Grammar!AllIn(text, Digits) => Plain(text)
    /\ {"+", "-", ".", Exponent} \cap {Blank, LineEnd} = {}
<1>1. WordPieces \cap {Blank, LineEnd} = {} /\ Digits \subseteq WordPieces
  BY DEF WordPieces, Letters, Digits, Exponent, Blank, LineEnd
<1>2. {"+", "-", ".", Exponent} \cap {Blank, LineEnd} = {}
  BY DEF Exponent, Blank, LineEnd
<1> QED BY <1>1, <1>2 DEF Plain, Grammar!AllIn

LEMMA PlainParts ==
    ASSUME NEW text \in Seq(Pieces), NEW n \in 0 .. Len(text),
           \A i \in 1 .. n : text[i] \notin {Blank, LineEnd}, Plain(Drop(text, n))
    PROVE  Plain(text)
<1>1. Len(text) \in Nat
  BY LenProperties
<1>2. \A i \in 1 .. Len(text) - n : text[n + i] \notin {Blank, LineEnd}
  BY Behind DEF Plain
<1>3. ASSUME NEW i \in 1 .. Len(text) PROVE text[i] \notin {Blank, LineEnd}
  <2>1. CASE i <= n
    BY <2>1
  <2>2. CASE i > n
    <3>1. i - n \in 1 .. Len(text) - n /\ n + (i - n) = i
      BY <1>1, <2>2
    <3> QED BY <1>2, <3>1
  <2> QED BY <1>1, <2>1, <2>2
<1> QED BY <1>3 DEF Plain

(* A double has no spaces. *)
LEMMA PlainExponent ==
    ASSUME NEW text \in Seq(Pieces), Grammar!IsExponent(text)
    PROVE  Plain(text)
<1>1. Len(text) \in Nat /\ Len(text) > 0
  BY LenProperties, EmptySeq DEF Grammar!IsExponent
<1>2. text[1] \notin {Blank, LineEnd}
  BY PlainSets, SameTexts DEF Grammar!IsExponent
<1>3. CASE Grammar!IsNumber(Grammar!Drop(text, 1))
  <2>1. Plain(Drop(text, 1))
    BY <1>3, PlainSets, SameTexts DEF Grammar!IsNumber
  <2>2. 1 \in 0 .. Len(text) /\ \A i \in 1 .. 1 : text[i] \notin {Blank, LineEnd}
    BY <1>1, <1>2
  <2> QED BY <2>1, <2>2, PlainParts
<1>4. CASE /\ Grammar!At(text, 2) \in {"+", "-"}
           /\ Grammar!IsNumber(Grammar!Drop(text, 2))
  <2>1. Plain(Drop(text, 2)) /\ At(text, 2) \in {"+", "-"}
    BY <1>4, PlainSets, SameTexts DEF Grammar!IsNumber
  <2>2. 2 \in 1 .. Len(text) /\ text[2] \in {"+", "-"}
    BY <2>1, AtIs
  <2>3. 2 \in 0 .. Len(text) /\ \A i \in 1 .. 2 : i = 1 \/ i = 2
    BY <1>1, <2>2
  <2>4. text[2] \notin {Blank, LineEnd}
    BY <2>2, PlainSets
  <2>5. \A i \in 1 .. 2 : text[i] \notin {Blank, LineEnd}
    BY <1>2, <2>3, <2>4
  <2> QED BY <2>1, <2>3, <2>5, PlainParts
<1> QED BY <1>3, <1>4 DEF Grammar!IsExponent

LEMMA PlainDouble ==
    ASSUME NEW text \in Seq(Pieces), Grammar!IsDouble(text)
    PROVE  Plain(text)
<1>1. Len(text) \in Nat
  BY LenProperties
<1>2. PICK dot \in 1 .. Len(text) :
          /\ text[dot] = "." /\ Grammar!IsNumber(SubSeq(text, 1, dot - 1))
          /\ Grammar!IsFraction(Drop(text, dot))
  BY SameTexts DEF Grammar!IsDouble
<1> DEFINE rest == Drop(text, dot)
<1>3. dot \in 0 .. Len(text) /\ dot - 1 \in 0 .. Len(text)
  BY <1>1
<1>4. rest \in Seq(Pieces) /\ Len(rest) \in Nat
  BY <1>3, Behind, LenProperties
<1>5. PICK n \in 0 .. Len(rest) :
          /\ Grammar!AllIn(SubSeq(rest, 1, n), Digits)
          /\ n = Len(rest) \/ Grammar!IsExponent(Drop(rest, n))
  BY <1>2, SameTexts DEF Grammar!IsFraction
<1> HIDE DEF rest
<1>6. Digits \cap {Blank, LineEnd} = {}
  BY DEF Digits, Blank, LineEnd
<1>7. Plain(rest)
  <2>1. \A i \in 1 .. n : rest[i] \notin {Blank, LineEnd}
    BY <1>4, <1>5, <1>6, PrefixAllIn
  <2>2. Drop(rest, n) \in Seq(Pieces) /\ Len(Drop(rest, n)) = Len(rest) - n
    BY <1>4, Behind
  <2>3. CASE n = Len(rest)
    BY <2>1, <2>3 DEF Plain
  <2>4. CASE Grammar!IsExponent(Drop(rest, n))
    BY <1>4, <2>1, <2>2, <2>4, PlainExponent, PlainParts
  <2> QED BY <1>5, <2>3, <2>4
<1>8. \A i \in 1 .. dot - 1 : text[i] \in Digits
  BY <1>2, <1>3, NumberIs
<1>9. \A i \in 1 .. dot : text[i] \notin {Blank, LineEnd}
  <2>1. \A i \in 1 .. dot : i \in 1 .. dot - 1 \/ i = dot
    BY <1>1
  <2> QED BY <1>2, <1>6, <1>8, <2>1, PlainSets
<1> QED BY <1>3, <1>7, <1>9, PlainParts DEF rest

(* Besides strings and comments no token has. *)
LEMMA PlainLexemes ==
    ASSUME NEW text \in Seq(Pieces),
           NEW type \in Types \ (Spaces \cup {"STANDARD_STRING", "LINE_COMMENT_START"}),
           Grammar!IsLexeme(text, type)
    PROVE  Plain(text)
<1>1. CASE type = "IDENTIFIER"
  BY <1>1, LexemeOf, PlainSets, SameTexts DEF Grammar!IsWord
<1>2. CASE type \in Keywords
  <2>1. text \in Seq(WordPieces)
    <3>1. text = KeywordText(type)
      BY <1>2, LexemeOf
    <3> QED BY <1>2, <3>1, WordsAre
  <2>2. Grammar!AllIn(text, WordPieces)
    BY <2>1, ElementOfSeq DEF Grammar!AllIn
  <2> QED BY <2>2, PlainSets
<1>3. CASE type = "INTEGER"
  BY <1>3, LexemeOf, PlainSets, SameTexts DEF Grammar!IsInteger, Grammar!IsNumber
<1>4. CASE type = "DOUBLE"
  BY <1>4, LexemeOf, PlainDouble
<1>5. CASE type \in SymbolTypes
  <2>1. text = Symbols[type]
    BY <1>5, LexemeOf
  <2>2. SymbolStarts \cap {Blank, LineEnd} = {}
    BY DEF SymbolStarts, Blank, LineEnd
  <2>3. CASE type \in PairTypes
    <3>1. PICK x \in SymbolStarts, y \in SymbolStarts : IsPair(text, x, y)
      <4>1. \A pair \in PairTypes :
                \E x, y \in SymbolStarts : IsPair(Symbols[pair], x, y)
        BY PairTexts DEF PairTypes, SymbolStarts
      <4> QED BY <2>1, <2>3, <4>1
    <3> QED BY <2>2, <3>1 DEF IsPair, Plain
  <2>4. CASE type \in SingleTypes
    <3>1. PICK x \in SymbolStarts : IsSingle(text, x)
      <4>1. \A single \in SingleTypes :
                \E x \in SymbolStarts : IsSingle(Symbols[single], x)
        BY SingleTexts DEF SingleTypes, SymbolStarts
      <4> QED BY <2>1, <2>4, <4>1
    <3> QED BY <2>2, <3>1 DEF IsSingle, Plain
  <2> QED BY <1>5, <2>3, <2>4, SymbolsAre
<1> QED BY <1>1, <1>2, <1>3, <1>4, <1>5 DEF Types, OtherTypes, Spaces

(* No lexeme goes on behind a token and what ends it. *)
LEMMA EndsThere ==
    ASSUME NEW text \in Seq(Pieces), NEW m \in 1 .. Len(text), NEW n \in 1 .. m - 1,
           NEW type \in Types \ Spaces, NEW longer \in Types,
           Grammar!IsLexeme(SubSeq(text, 1, n), type),
           Grammar!IsLexeme(SubSeq(text, 1, m), longer),
           text[n + 1] = Separator(type)
    PROVE  FALSE
<1> DEFINE short == SubSeq(text, 1, n)
           long  == SubSeq(text, 1, m)
<1>1. /\ Len(text) \in Nat /\ n \in 0 .. Len(text) /\ m \in 0 .. Len(text)
      /\ 1 \in 1 .. n /\ n + 1 \in 1 .. m /\ 1 \in 1 .. m
      /\ n \in 1 .. Len(text) /\ n # m
  BY LenProperties
<1>2. /\ short \in Seq(Pieces) /\ Len(short) = n /\ short[1] = text[1]
      /\ long \in Seq(Pieces) /\ Len(long) = m
      /\ \A i \in 1 .. m : long[i] = text[i]
  BY <1>1, Prefix
<1>3. Grammar!IsLexeme(short, type) /\ Grammar!IsLexeme(long, longer)
  OBVIOUS
<1>4. type = "STANDARD_STRING" /\ longer = "STANDARD_STRING" => n = m
  BY <1>1, LexemeOf, StringTaken
<1> HIDE DEF short, long
<1>5. text[1] \in Begin(type) /\ text[1] \in Begin(longer)
  BY <1>1, <1>2, <1>3, LexemeBegins
<1>6. long[n + 1] = Separator(type) /\ Separator(type) \in {Blank, LineEnd}
  BY <1>1, <1>2 DEF Separator
<1>7. CASE longer \in Spaces
  <2>1. type # longer /\ longer \notin Keywords \cup SymbolTypes
    BY <1>7, TypesApart DEF Spaces, OtherTypes
  <2> QED BY <1>5, <1>7, <2>1, Rivals DEF Spaces
<1>8. CASE longer = "STANDARD_STRING"
  <2>1. type # longer /\ longer \notin Keywords \cup SymbolTypes
    BY <1>1, <1>4, <1>8, TypesApart DEF OtherTypes
  <2> QED BY <1>5, <1>8, <2>1, Rivals
<1>9. CASE longer = "LINE_COMMENT_START"
  <2>1. /\ long[2] = "/" /\ text[1] = "/"
        /\ \A i \in 1 .. Len(long) : long[i] # LineEnd
    BY <1>1, <1>2, <1>3, <1>9, LexemeOf, CommentBegins
  <2>2. type # longer
    BY <1>1, <1>2, <1>6, <1>9, <2>1 DEF Separator
  <2>3. longer \notin Keywords \cup SymbolTypes
    BY <1>9, TypesApart DEF OtherTypes
  <2>4. type \in SymbolTypes
    BY <1>5, <1>9, <2>2, <2>3, Rivals
  <2>5. n = 1
    <3>1. short = Symbols[type]
      BY <1>3, <2>4, LexemeOf
    <3>2. Symbols[type][1] = "/" /\ Len(Symbols[type]) = n
      BY <1>2, <2>1, <3>1
    <3> QED BY <2>4, <3>2, SymbolsDiffer
  <2>6. long[2] \in {Blank, LineEnd}
    <3>1. n + 1 = 2
      BY <2>5
    <3> QED BY <1>6, <3>1
  <2> QED BY <2>1, <2>6 DEF Blank, LineEnd
<1>10. CASE longer \notin Spaces \cup {"STANDARD_STRING", "LINE_COMMENT_START"}
  <2>1. Plain(long)
    BY <1>2, <1>3, <1>10, PlainLexemes
  <2> QED BY <1>1, <1>2, <1>6, <2>1 DEF Plain
<1> QED BY <1>7, <1>8, <1>9, <1>10

(* What is the first rule of a text that begins with a lexeme, if no       *)
(* lexeme goes on behind it.                                               *)
LEMMA FirstRuleIs ==
    ASSUME NEW text \in Seq(Pieces), NEW n \in 1 .. Len(text), NEW type \in Types,
           Grammar!IsLexeme(SubSeq(text, 1, n), type),
           \A m \in n + 1 .. Len(text), longer \in Types :
               ~Grammar!IsLexeme(SubSeq(text, 1, m), longer)
    PROVE  FirstRule(text) = [type |-> type, size |-> n]
<1> DEFINE size == FirstRule(text).size
           found == FirstRule(text).type
<1>1. /\ Len(text) \in Nat /\ size \in 0 .. Len(text)
      /\ size > 0 => /\ found \in Types /\ Grammar!IsLexeme(SubSeq(text, 1, size), found)
                     /\ \A longer \in size + 1 .. Len(text) : ~Grammar!Begins(text, longer)
      /\ size = 0 => \A m \in 1 .. Len(text) : ~Grammar!Begins(text, m)
  BY FirstRuleTakes, LenProperties
<1>2. FirstRule(text) = [type |-> found, size |-> size]
  BY DEF FirstRule
<1> HIDE DEF size, found
<1>3. Grammar!Begins(text, n)
  BY LadderTypes DEF Grammar!Begins
<1>4. size > 0 /\ size >= n
  <2>1. size # 0
    BY <1>1, <1>3
  <2>2. ~(n > size)
    <3> SUFFICES ASSUME n > size PROVE FALSE
      OBVIOUS
    <3>1. n \in size + 1 .. Len(text)
      BY <1>1
    <3> QED BY <1>1, <1>3, <2>1, <3>1
  <2> QED BY <1>1, <2>1, <2>2
<1>5. size = n
  <2> SUFFICES ASSUME size # n PROVE FALSE
    OBVIOUS
  <2>1. size \in n + 1 .. Len(text)
    BY <1>1, <1>4
  <2> QED BY <1>1, <1>4, <2>1
<1>6. found = type
  <2>1. SubSeq(text, 1, n) \in Seq(Pieces)
    BY <1>1, <1>5, Prefix
  <2> QED BY <1>1, <1>4, <1>5, <2>1, OneType
<1> QED BY <1>2, <1>5, <1>6

-----------------------------------------------------------------------------
(* Tokens written apart *)

LEMMA SpacesAre ==
    /\ Spaces \subseteq Types /\ Spaces \cap (Keywords \cup SymbolTypes) = {}
    /\ Separator("LINE_COMMENT_START") = LineEnd
    /\ \A type : Separator(type) \in {Blank, LineEnd}
    /\ \A type : /\ SeparatorType(type) \in Spaces
                 /\ Begin(SeparatorType(type)) = {Separator(type)}
                 /\ \A text : Grammar!IsLexeme(text, SeparatorType(type)) <=>
                                  text # <<>> /\ Grammar!AllIn(text, {Separator(type)})
    /\ Blank \in Pieces /\ LineEnd \in Pieces
<1>1. Spaces \subseteq Types /\ Spaces \cap (Keywords \cup SymbolTypes) = {}
  BY TypesApart DEF Spaces, Types, OtherTypes
<1>2. \A type : /\ Separator(type) \in {Blank, LineEnd} /\ SeparatorType(type) \in Spaces
  BY DEF Separator, SeparatorType, Spaces
<1>3. \A type : Begin(SeparatorType(type)) = {Separator(type)}
  BY BeginIs DEF Separator, SeparatorType
<1>4. \A type, text : Grammar!IsLexeme(text, SeparatorType(type)) <=>
                          text # <<>> /\ Grammar!AllIn(text, {Separator(type)})
  BY LexemeOf DEF Separator, SeparatorType
<1>5. Blank \in Pieces /\ LineEnd \in Pieces
  BY DEF Pieces
<1> QED BY <1>1, <1>2, <1>3, <1>4, <1>5 DEF Separator

(* Only spaces begin with a space. *)
LEMMA BeginsPlain ==
    ASSUME NEW type \in Types, NEW piece \in Begin(type), NEW space \in Spaces,
           piece \in Begin(space)
    PROVE  type = space
<1>1. space \in Types /\ space \notin Keywords \cup SymbolTypes
  BY SpacesAre
<1> QED BY <1>1, Rivals DEF Spaces

LEMMA TokenApart ==
    ASSUME NEW text \in Seq(Pieces), NEW type \in Types \ Spaces,
           Grammar!IsLexeme(text, type), NEW rest \in Seq(Pieces)
    PROVE  /\ text \o <<Separator(type)>> \o rest \in Seq(Pieces)
           /\ text \o <<Separator(type)>> \o rest # <<>>
           /\ (text \o <<Separator(type)>> \o rest)[1] = text[1]
           /\ FirstRule(text \o <<Separator(type)>> \o rest)
                  = [type |-> type, size |-> Len(text)]
<1> DEFINE front == text \o <<Separator(type)>>
           whole == front \o rest
           n     == Len(text)
<1>1. Separator(type) \in Pieces
  BY SpacesAre
<1>2. /\ n \in Nat /\ n > 0 /\ Len(rest) \in Nat
  BY LexemeBegins, LenProperties
<1>3. /\ front \in Seq(Pieces) /\ Len(front) = n + 1
      /\ \A i \in 1 .. n : front[i] = text[i]
      /\ front[n + 1] = Separator(type)
  BY <1>1, <1>2, ConcatProperties
<1> HIDE DEF front
<1>4. /\ whole \in Seq(Pieces) /\ Len(whole) = n + 1 + Len(rest)
      /\ \A i \in 1 .. n + 1 : whole[i] = front[i]
  <2>1. /\ whole \in Seq(Pieces) /\ Len(whole) = Len(front) + Len(rest)
        /\ \A i \in 1 .. Len(front) : whole[i] = front[i]
    <3>1. Len(front) \in Nat /\ Len(rest) \in Nat
      BY <1>3, LenProperties
    <3>2. /\ whole \in Seq(Pieces) /\ Len(whole) = Len(front) + Len(rest)
          /\ \A i \in 1 .. Len(front) + Len(rest) :
                 whole[i] = IF i <= Len(front) THEN front[i] ELSE rest[i - Len(front)]
      <4>1. front \in Seq(Pieces)
        BY <1>3
      <4> QED BY <4>1, ConcatProperties
    <3> HIDE DEF whole, n
    <3>3. ASSUME NEW i \in 1 .. Len(front) PROVE whole[i] = front[i]
      <4>1. i \in 1 .. Len(front) + Len(rest) /\ i <= Len(front)
        BY <3>1
      <4> QED BY <3>2, <4>1
    <3> QED BY <3>2, <3>3
  <2> HIDE DEF whole
  <2> QED BY <1>3, <2>1
<1> HIDE DEF whole
<1>5. /\ n \in 1 .. Len(whole) /\ n \in 0 .. Len(whole) /\ whole[n + 1] = Separator(type)
      /\ \A i \in 1 .. n : whole[i] = text[i]
  BY <1>2, <1>3, <1>4
<1>6. SubSeq(whole, 1, n) = text
  <2>1. /\ SubSeq(whole, 1, n) \in Seq(Pieces) /\ Len(SubSeq(whole, 1, n)) = n
        /\ \A i \in 1 .. n : SubSeq(whole, 1, n)[i] = whole[i]
    BY <1>4, <1>5, Prefix
  <2> QED BY <1>5, <2>1, SeqEqual
<1>7. ASSUME NEW m \in n + 1 .. Len(whole), NEW longer \in Types,
             Grammar!IsLexeme(SubSeq(whole, 1, m), longer)
      PROVE  FALSE
  <2>1. m \in 1 .. Len(whole) /\ n \in 1 .. m - 1
    BY <1>2, <1>4
  <2> HIDE DEF n
  <2> QED BY <1>4, <1>5, <1>6, <1>7, <2>1, EndsThere
<1>8. FirstRule(whole) = [type |-> type, size |-> n]
  <2> HIDE DEF n
  <2> QED BY <1>4, <1>5, <1>6, <1>7, FirstRuleIs
<1>9. whole # <<>> /\ whole[1] = text[1]
  BY <1>2, <1>4, <1>5, EmptySeq
<1> QED BY <1>4, <1>8, <1>9 DEF whole, front

LEMMA SeparatorApart ==
    ASSUME NEW type, NEW rest \in Seq(Pieces),
           rest = <<>> \/ rest[1] \notin {Blank, LineEnd}
    PROVE  FirstRule(<<Separator(type)>> \o rest) = [type |-> SeparatorType(type), size |-> 1]
<1> DEFINE c     == Separator(type)
           space == SeparatorType(type)
           whole == <<c>> \o rest
<1>1. /\ c \in Pieces /\ c \in {Blank, LineEnd} /\ space \in Spaces /\ space \in Types
      /\ Begin(space) = {c}
      /\ \A text : Grammar!IsLexeme(text, space) <=> text # <<>> /\ Grammar!AllIn(text, {c})
  BY SpacesAre
<1> HIDE DEF c, space
<1>2. /\ whole \in Seq(Pieces) /\ Len(whole) = 1 + Len(rest) /\ Len(rest) \in Nat
      /\ whole[1] = c /\ \A i \in 1 .. Len(rest) : whole[1 + i] = rest[i]
  <2>1. <<c>> \in Seq(Pieces) /\ Len(<<c>>) = 1 /\ <<c>>[1] = c
    BY <1>1
  <2>2. Len(rest) \in Nat
    BY LenProperties
  <2> QED BY <2>1, <2>2, ConcatProperties
<1> HIDE DEF whole
<1>3. Grammar!IsLexeme(SubSeq(whole, 1, 1), space)
  <2> DEFINE front == SubSeq(whole, 1, 1)
  <2>1. 1 \in 0 .. Len(whole)
    BY <1>2
  <2>2. front \in Seq(Pieces) /\ Len(front) = 1 /\ \A i \in 1 .. 1 : front[i] = whole[i]
    BY <1>2, <2>1, Prefix
  <2> HIDE DEF front
  <2>3. front # <<>>
    BY <2>2, EmptySeq
  <2>4. Grammar!AllIn(front, {c})
    BY <1>2, <2>2 DEF Grammar!AllIn
  <2>5. Grammar!IsLexeme(front, space)
    BY <1>1, <2>3, <2>4
  <2> QED BY <2>5 DEF front
<1>4. ASSUME NEW m \in 1 + 1 .. Len(whole), NEW longer \in Types,
             Grammar!IsLexeme(SubSeq(whole, 1, m), longer)
      PROVE  FALSE
  <2> DEFINE long == SubSeq(whole, 1, m)
  <2>1. m \in 0 .. Len(whole) /\ 1 \in 1 .. m /\ 2 \in 1 .. m /\ 1 \in 1 .. Len(rest)
    BY <1>2
  <2>2. long \in Seq(Pieces) /\ Len(long) = m /\ \A i \in 1 .. m : long[i] = whole[i]
    BY <1>2, <2>1, Prefix
  <2>3. Grammar!IsLexeme(long, longer)
    BY <1>4
  <2> HIDE DEF long
  <2>4. longer = space
    <3>1. long[1] = c /\ long[1] \in Begin(longer)
      BY <1>2, <2>1, <2>2, <2>3, LexemeBegins
    <3> QED BY <1>1, <3>1, BeginsPlain
  <2>5. long[2] = c
    BY <1>1, <2>1, <2>2, <2>3, <2>4 DEF Grammar!AllIn
  <2>6. whole[1 + 1] = rest[1]
    BY <1>2, <2>1
  <2>7. rest # <<>>
    BY <2>1, EmptySeq
  <2> QED BY <1>1, <2>1, <2>2, <2>5, <2>6, <2>7
<1>5. 1 \in 1 .. Len(whole)
  BY <1>2
<1>6. FirstRule(whole) = [type |-> space, size |-> 1]
  BY <1>1, <1>2, <1>3, <1>4, <1>5, FirstRuleIs
<1> QED BY <1>6 DEF whole, space, c

(* A text that does not begin with a space *)
Ready == {text \in Seq(Pieces) : text = <<>> \/ text[1] \notin {Blank, LineEnd}}

Written(l, text) ==
    IF l.type \in Spaces THEN text ELSE l.text \o <<Separator(l.type)>> \o text

LEMMA WrittenReady ==
    ASSUME LexemesInv, ~undefined, NEW l \in [type : Types, text : Seq(Pieces)],
           Grammar!IsLexeme(l.text, l.type), NEW text \in Ready
    PROVE  Written(l, text) \in Ready
<1>1. CASE l.type \in Spaces
  BY <1>1 DEF Written
<1>2. CASE l.type \notin Spaces
  <2> DEFINE whole == l.text \o <<Separator(l.type)>> \o text
  <2>1. /\ text \in Seq(Pieces) /\ l.text \in Seq(Pieces) /\ l.type \in Types \ Spaces
    BY <1>2 DEF Ready
  <2>2. whole \in Seq(Pieces) /\ whole[1] = l.text[1]
    BY <2>1, TokenApart
  <2>3. l.text[1] \in Begin(l.type)
    BY <2>1, LexemeBegins
  <2>4. l.text[1] \notin {Blank, LineEnd}
    <3>1. Begin("WHITESPACE") = {Blank} /\ Begin("NEWLINE") = {LineEnd}
      BY BeginIs
    <3>2. "WHITESPACE" \in Spaces /\ "NEWLINE" \in Spaces
      BY DEF Spaces
    <3> QED BY <2>1, <2>3, <3>1, <3>2, BeginsPlain
  <2>5. Written(l, text) = whole
    BY <1>2 DEF Written
  <2> HIDE DEF whole
  <2> QED BY <2>2, <2>4, <2>5 DEF Ready
<1> QED BY <1>1, <1>2

LEMMA ApartIs ==
    ASSUME LexemesInv, ~undefined
    PROVE  /\ \A n \in 0 .. Len(lexemes) : WrittenApart[n] \in Ready
           /\ \A n \in 1 .. Len(lexemes) :
                  WrittenApart[n] = Written(lexemes[Len(lexemes) - n + 1], WrittenApart[n - 1])
<1> DEFINE N == Len(lexemes)
           D == 0 .. N
           l(n) == lexemes[N - n + 1]
           step == [n \in 1 .. N |-> [text \in Ready |-> Written(l(n), text)]]
           Solves(f) == f = [n \in D |-> IF n = 0 THEN <<>> ELSE Written(l(n), f[n - 1])]
           apart == CHOOSE f : Solves(f)
<1>1. /\ N \in Nat /\ 0 \in D
      /\ \A n \in 1 .. N : n \in D /\ n - 1 \in D /\ n # 0 /\ N - n + 1 \in 1 .. N
  BY LenProperties DEF LexemesInv
<1>2. ASSUME NEW n \in 1 .. N, NEW text \in Ready PROVE Written(l(n), text) \in Ready
  <2>1. N - n + 1 \in 1 .. N
    BY <1>1
  <2>2. l(n) \in [type : Types, text : Seq(Pieces)]
    BY <2>1, ElementOfSeq, LadderTypes DEF LexemesInv
  <2>3. Grammar!IsLexeme(l(n).text, l(n).type)
    BY <2>1, LenProperties DEF LexemesInv
  <2> HIDE DEF l
  <2> QED BY <2>2, <2>3, WrittenReady
<1>3. <<>> \in Ready
  BY DEF Ready
<1>4. WrittenApart = apart
  BY DEF WrittenApart, Written
<1> HIDE DEF N, D, l
<1>5. \E f : Solves(f)
  <2>1. step \in [1 .. N -> [Ready -> Ready]]
    BY <1>2
  <2>2. PICK f \in [0 .. N -> Ready] : Runs(f, N, <<>>, step)
    <3> HIDE DEF step
    <3> QED BY <1>1, <1>3, <2>1, RunsExist
  <2>3. f[0] = <<>> /\ \A n \in 1 .. N : f[n] = Written(l(n), f[n - 1])
    BY <1>1, <2>2 DEF Runs, D
  <2> QED BY <1>1, <2>2, <2>3 DEF D
<1>6. apart[0] = <<>> /\ \A n \in 1 .. N : apart[n] = Written(l(n), apart[n - 1])
  <2>1. Solves(apart)
    <3> HIDE DEF Solves
    <3> QED BY <1>5
  <2> HIDE DEF apart
  <2> QED BY <1>1, <2>1
<1> HIDE DEF apart
<1>7. \A n \in 0 .. N : apart[n] \in Ready
  BY <1>1, <1>2, <1>3, <1>6, AllResults
<1> QED BY <1>4, <1>6, <1>7 DEF N, l

(* Of every text: each token written apart from its neighbours is scanned  *)
(* as the same token, and what was written between them as space, so that  *)
(* no token needs its neighbour to be one (lexNext).                       *)
THEOREM TokensStandAlone == Spec => []Rescans
<1>1. LexemesInv => Rescans
  <2> SUFFICES ASSUME LexemesInv, ~undefined, NEW n \in 1 .. Len(lexemes),
                      lexemes[Len(lexemes) - n + 1].type \notin Spaces
               PROVE  /\ FirstRule(WrittenApart[n])
                             = [type |-> lexemes[Len(lexemes) - n + 1].type,
                                size |-> Len(lexemes[Len(lexemes) - n + 1].text)]
                      /\ FirstRule(<<Separator(lexemes[Len(lexemes) - n + 1].type)>>
                                       \o WrittenApart[n - 1])
                             = [type |-> SeparatorType(lexemes[Len(lexemes) - n + 1].type),
                                size |-> 1]
    BY DEF Rescans
  <2> DEFINE l == lexemes[Len(lexemes) - n + 1]
             rest == WrittenApart[n - 1]
  <2>1. Len(lexemes) \in Nat /\ DOMAIN lexemes = 1 .. Len(lexemes)
    BY LenProperties DEF LexemesInv
  <2>2. Len(lexemes) - n + 1 \in 1 .. Len(lexemes) /\ n - 1 \in 0 .. Len(lexemes)
    BY <2>1
  <2>3. l \in [type : Types, text : Seq(Pieces)] /\ Grammar!IsLexeme(l.text, l.type)
    BY <2>1, <2>2, ElementOfSeq, LadderTypes DEF LexemesInv
  <2>4. rest \in Ready /\ WrittenApart[n] = Written(l, rest) /\ l.type \notin Spaces
    BY <2>2, ApartIs
  <2> HIDE DEF l, rest
  <2>5. rest \in Seq(Pieces) /\ (rest = <<>> \/ rest[1] \notin {Blank, LineEnd})
    BY <2>4 DEF Ready
  <2>6. WrittenApart[n] = l.text \o <<Separator(l.type)>> \o rest
    BY <2>4 DEF Written
  <2>7. FirstRule(WrittenApart[n]) = [type |-> l.type, size |-> Len(l.text)]
    BY <2>3, <2>4, <2>5, <2>6, TokenApart
  <2>8. FirstRule(<<Separator(l.type)>> \o rest)
            = [type |-> SeparatorType(l.type), size |-> 1]
    BY <2>5, SeparatorApart
  <2> QED BY <2>7, <2>8 DEF l, rest
<1> QED BY <1>1, LexemesAre, PTL
=============================================================================
