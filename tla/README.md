# neonc: a verification project

`neonc` is the front end of a compiler for the language *neo*: a lexer, a parser
made of a dozen mixed-in classes, and the syntax tree they build. It is
sequential, deterministic C++; what is hard about it is not concurrency but
*order*: which token the next operation meets, which error survives, how far a
loop goes on before it returns, and what is left behind when an alternative
fails. This directory holds TLA+ models of the scanner, the lexer, the parser and
`main`, TLC configurations that check them on small instances, and theorems about
all four, checked by TLAPS.

Paths below are relative to the repository (`src/` is its root here).


## 1. The system

### Components, their state and operations

| component | source | state | operations |
|---|---|---|---|
| Lexer | `include/lexer/Lexer.hpp` | `content_` (what is left of the source), `position_` (offset for areas), `lexed_` (vector of tokens lexed and not popped) | `peek<N>`, `pop<N>`, `peek_and_pop<N>`, `pop_token`, `next_is`, `pop_next_is`, `next_is_operator` and its variants, `next_area`; private `lexNext`, `moveForward` |
| Scanner patterns | `Lexer.hpp`, the regular expressions | none | one `starts_with` per token type, in a fixed order |
| Number conversion | `include/parser/Utils.hpp` | none | `parse_int_unsafe`, `parse_double_unsafe` |
| Tokens, TextArea | `include/lexer/Tokens.hpp`, `TextArea.hpp` | values | classes of tokens, `combine` |
| Type parser | `include/parser/TypeParser.hpp`, `IdentifierParser.hpp` | the call stack | `type`, `named_type`, `compound_type`, `grouped_type`, `tuple_type`, `union_type`, `lambda_type_with_multiple` |
| Expression parser | `ExpressionPrattParser.hpp` | the call stack, binding powers | `expression`, `expression_bp`, `lhs_expression`, `function_call` |
| Simple expressions | `SimpleExpressionParser.hpp`, `SimpleLambdaOrIdentifierParser.hpp` | the call stack | literals, identifiers, `simple_lambda`, and the list of alternatives |
| if, block, parentheses | `IfExpressionParser.hpp`, `BlockExpressionParser.hpp`, `LParExpressionParser.hpp` | the call stack, trees built so far | one method per form |
| Statements | `StatementParser.hpp`, `LetStmtParser.hpp`, `ForElementParser.hpp` | the call stack | `let`, `while`, `if`, `for`, `block`, `stmt_list` |
| Parser | `Parser.hpp` | owns the lexer | mixes all of the above into one object (CRTP) |
| Errors | `include/common/Error.hpp` | values | the kind of an error, the area it names |
| AST | `include/ast/` | values | one class per node, its children and its area |
| main | `cmd/main.cpp` | none | peeks and pops tokens until the end |

### How they interact

Every parser class reaches the others through `static_cast<T*>(this)` and the
source only through the one Lexer. A method looks at the next token, pops it or
leaves it, calls another method, and returns a tree, an error or
`std::nullopt`. There is no backtracking: tokens that a failed method popped are
gone for the alternative that is tried next. So all coupling goes through two
pieces of state, the lexer's vector and the call stack, and a property of one
method depends on how all the others leave the lexer behind.

### What is hard here

* the vector is used from its back by `peek<1>`, `pop` and the queries, and from
  its front by `peek<N>` (`Lexer.hpp:19-57`);
* `peek_and_pop` pops also when the peek failed (`Lexer.hpp:167`), and an empty
  vector makes that undefined behaviour;
* an error must be final, and must be the same one however often it is met,
  although the whitespace before it is consumed the first time;
* `position_` is not initialised and moves twice at a newline;
* loops inside recursion: `=>` in types, the operators, elifs and else, lists
  that turn out to be parameters when the arrow comes;
* alternatives that are tried behind the tokens of one that failed;
* some forty patterns of which the first that matches makes the token, and which
  are to be the longest that matches;
* strings: escapes by parity, and no end;
* loops over tokens that END_OF_FILE must end, since the lexer yields
  END_OF_FILE for ever.

`PROJECT.json` lists these and the others under `hazards`, each at its line with
the properties that would catch it.

### What makes each component correct

* **Lexer**: for the client it has, it is a stream: looking shows the first token
  that was not taken, taking takes that one, nothing is skipped or repeated, an
  error stays where it is; areas are in source order and as far apart as the
  texts they stand for.
* **Scanner patterns**: every text is cut into the longest lexemes of the lexical
  grammar, and a token does not depend on what stands next to it.
* **Number conversion**: an integer literal has the value it is read as, or is too
  large.
* **main**: prints the tokens of a line once and in order, and ends.
* **Type parser and expression parser**: exactly the sentences of the grammar are
  accepted, each with the tree and the areas the grammar gives it, the longest
  one there is, and every call returns.
* **Statement parser**: whatever comes back is one tree of the nodes the classes
  declare, with areas that nest; an error names the token the parser is at; every
  call returns, with or without a token to read.


## 2. Modules

| module | models | form |
|---|---|---|
| `Tokens` | the token types and their classes | sets |
| `TextArea` | areas and `combine` | operators |
| `TokenStream` | what a lexer promises its client | abstract specification |
| `Lexer` | class Lexer | state machine |
| `MCLexer` | the sources that short texts scan to | model |
| `Main` | main(), step by step with `Lexer` | composition |
| `MCMain` | lines of input for it: patterns, Lexer and client together | model |
| `Texts` | pieces of a source text, keywords, fixed texts of tokens | sets, operators |
| `ScannerPatterns` | the patterns and the ladder in which `lexNext` tries them | operators |
| `Scanner` | `lexNext` as it goes through a text | state machine |
| `LexicalGrammar` | which texts are lexemes, and that the longest is taken | abstract specification |
| `Numbers` | `parse_int_unsafe` | recursive function |
| `Literals` | the integer literals of `Scanner`, the numbers they stand for, and what `Numbers` makes of them | composition |
| `MCScanner` | families of texts for `Scanner` and `Numbers` | model |
| `Induction` | least elements and recursive functions on numbers | lemmas |
| `Lexer_proofs` | theorems about `Lexer`, for every client | proofs |
| `Main_proofs` | theorems about `main` over the `Lexer` | proofs |
| `Scanner_proofs` | the scanner implements the lexical grammar, integers keep their value, tokens stand alone | proofs |
| `ParserCore` | call stack, results, the lexer as a parser sees it | state and step forms |
| `TypeParser`, `ExpressionPrattParser`, `SimpleExpressionParser`, `IfExpressionParser`, `BlockExpressionParser`, `LParExpressionParser`, `StatementParser` | the class (or classes) of that name | actions over `ParserCore` |
| `Parser` | class Parser and a client that calls a public method | composition: the disjunction of their steps; the properties of every source |
| `Parser_proofs` | types, areas, order of reading | proofs |
| `ParserCalls_proofs` | depth of the calls, the errors that come out of them | proofs |
| `ParserNest_proofs` | areas of nodes and of the nodes below them | proofs |
| `ParserTrees_proofs` | which trees there are at each step, and of which parts | proofs |
| `AST` | of which children each class of `include/ast` is built | operators |
| `Grammar`, `TypeGrammar`, `ExpressionGrammar` | the language, from `docs/grammar.ebnf` | sets of sentences with their trees |
| `MCTypeParser`, `MCParser`, `MCExpression` | sources of certain shapes for `Parser`, and the properties that compare with the grammar | models |

### Scanner

A text is a sequence of *pieces*: the characters the patterns tell apart, and the
stems of the keywords, each a stretch of letters that every pattern takes or
leaves as a whole (`typeclass` is `type` and `class`). Whitespace is one piece,
all letters that no pattern names are `x`, and `$` stands for a character no
pattern begins with. `Length` gives a piece its number of characters, for areas.

`ScannerPatterns` has an operator per pattern, which says how many pieces it takes
from the front of a text; `Size` says which of them makes which type of token,
and `Ladder` lists the types in the order `lexNext` tries them. `FirstRule` is the first that matches. `Scanner` goes through a text with them;
`Scan` is the same as a function, and `MCLexer` and `MCMain` start from what it
yields, so the sources of `Lexer` are those a text can have. An unclosed string
at the end of the content makes the code read one character past the
`string_view`: `BehindTheEnd` is the set of characters that can stand there.
`main` and the tests pass strings that end in a NUL, a view into a larger buffer
may have a quote there; `undefined` becomes TRUE in either case and nothing
is said of what comes after.

`LexicalGrammar` is the abstract specification. It has one language per token
type, given by what its lexemes look like, and takes the longest lexeme at the
front; it knows no order of patterns and no state while it reads. Where
`docs/grammar.ebnf` and the patterns differ in scope (a double may begin with
zeros, a string may hold any character) the languages are those of the patterns
and of the tests in `test/lexer/LexerTest.cpp`. What is compared is whether
the order of the ladder, the lookahead behind keywords and the flag in
`lexStandardString` add up to them.

`Numbers` is `parse_int_unsafe` digit by digit, with the width of the result as a
constant. Overflow of a signed integer is undefined behaviour: the value wraps as
the builds let it, and `undefined` records it.

### Lexer

The source is a sequence of lexemes, the stretches `lexNext`'s ladder of patterns
recognises, each with a type and a size. `UNLEXABLE` stands for a stretch that no
pattern matches. A public operation is not atomic in the model: `Call` starts it,
each `LexForPeek` lexes one token that is missing (so an error can come after the
first of two), and an action of its own ends it. `lexNext` is the pair
`LexInto`/`LexFails`; whitespace is consumed in both. `position_` starts at any
value of `Positions`, since the code never sets it, and wraps at `Word`.
`undefined` records a `pop_back` on an empty vector, after which nothing more is
said. `produced`, `delivered`, `seen` and `origin` are history, and so is
`unwrapped`, where `position_` would be if it had no width: areas can be in order
only until it wraps, and that is what `AreasOrdered` says.

`TokenStream` is the abstract specification. `Lexer` implements it under the
identity on `produced`, `delivered` and `seen`, for a client that peeks one token
at a time (`MaxPeek = 1`), which is what the parser and `main` are.

### Main

`Main` is the one composition with the real client: its steps are joined with
those of `Lexer` for `peek` and `pop`, so `main` is at `peek`, at the test of
what came back, at `pop` or done while the Lexer's own steps run in between.
`printed` is history. `MCMain` runs it on the lexemes of lines, since `getline`
leaves no line end in the text.

### Parser

The parser's classes call each other recursively, so a method becomes a group of
labelled steps of one pushdown machine (`ParserCore`): a frame holds the label,
the method's locals and the trees it has built; a step looks at one token at
most, takes one at most, and goes on, calls or returns. `ret` is what the last
call returned until the caller uses it. A tree is a sequence of nodes in postfix
order, each with its kind, number of children, number of nodes (`size`, so that
the nodes below one are those directly before it) and area; areas count tokens, so
that an area says exactly which tokens a node covers. `Labels` names all steps,
class by class.

`ParserCore` sees the lexer as the stream that `TokenStream` states and
`StreamRefinement` proves. The stream is read on demand: `LexNext` chooses the
next token only when a step needs it, so one state stands for all continuations
of what was read. That this reading is a behaviour of `TokenStream` is a property
(`ReadsAStream`): `read` is what was produced, its first `taken` tokens are what
was delivered, and a step that gave tokens back would break it. Where the lexer has no token (`stuck`), the step whose code
calls `peek_and_pop` unguarded becomes `PopNothing`, which sets `undefined`.

A client calls one of the public methods (`Entries`): `type()`, `expression()`,
`identifier()`, `let()`, `statement()`, `for_element()`, as the tests do, or one of
the other methods a `Parser` inherits. `Parser`'s `Spec` is that client on every
source; `MCParser` keeps the steps and narrows the sources to shapes
(`ShapedNext`), so each of its behaviours is one of `Spec`.

`AST` states, class by class, of which kinds the children of a node are, in the
order of the constructor. The C++ compiler checks this for each constructor call;
what it does not check, and the model does, is that the list of trees a method
has built by then is cut up as the node's arity says.

`dropped` is history: it becomes TRUE where an alternative of
`simple_expression` fails after it has taken tokens and the next is tried behind
them (`SimpleExpressionParser.hpp:59-110`). The comparison with the grammar is
about returns with `dropped = FALSE`; what the others can be is what run
`if_dropped` shows.

### Grammar

`TypeGrammar` and `ExpressionGrammar` build the set of all sentences of each
length with their trees, from the shorter ones. They share no algorithm with the
parser: precedence is a condition on which trees may stand next to an operator,
and there is no notion of a next token. Where `docs/grammar.ebnf` and the parser
differ in scope the grammar is restricted to what the parser sets out to do:
calls in round and curly brackets with an optional comma at the end, tuples,
lambdas without parameter types, `if` with a condition in parentheses and an
`else`, blocks with `=>` before their value, unions in parentheses, `(a | b)`, where
line 103 of the document has them without (`type()` stops in front of the `|`, as
`TypeParser.hpp:289` and the tests under `test/parser/` have it). Ambiguities of the document
(precedence, how far `=>` reaches) are resolved as the tests under
`test/parser/` have it.

### A convention

Directly above some definitions stands another of the same shape, named for what
is wrong with it: `PopTwo` above `Pop`, `LetReturnsAreaOfRhs` above `LetReturns`.
These are faulty variants. No specification uses them; each shows that some
property fails if the code had that bug. They are listed under `mutants`.


## 3. Runs

| run | question | bounds |
|---|---|---|
| `scanner` | does every text fall into the longest lexemes of the lexical grammar, whatever stands next to them; do integers keep their value? | texts of at most 4 or 5 pieces from 6 families, all pairs of pieces; a quote or a NUL behind the end; 8 bit integers |
| `lexer` | does a one-token client see the source in order, with the right areas, and final errors; does the Lexer implement `TokenStream`? | texts of at most 5 pieces of 5 kinds; `Word` 16, start 0 or just below the wrap; 6 tokens |
| `lexer_lookahead` | does a client that also peeks and pops two or three tokens, as `LexerTest.cpp` does, lose or double one, also when an error ends `peek<N>` half way? | at most 3 pieces, 5 tokens |
| `main` | does `main` print the tokens of a line up to the first error, never pop an empty vector, and end? | lines of at most 6 pieces, 7 tokens |
| `type_parser` | does `type()` return exactly the types of the grammar, the longest ones, and always return? | every sequence of at most 7 tokens of 11 types, with unlexable stretches |
| `type_errors` | how far from the token at fault is the one an error of `type()` names? | every sequence of at most 6 tokens of 6 types, against types of at most 13 tokens |
| `expression` | the same of `expression()`, for operators, for the constructs around them, and for if/elif/else, blocks, parenthesised lists and lambdas | 5 tokens: 13 operators with names; 3 operators with literals, parentheses, commas, arrows; 12, 8 and 9 tokens over the tokens of the longer forms |
| `statement` | are results trees of the declared nodes with areas that nest and cover the tokens taken and no others, do errors name the token the parser is at, is the call stack bounded, are tokens read as the stream delivers them, and does every call return, in statements, for elements and parameters with types? | five entries; a fixed opening of up to 13 tokens and any 4 tokens behind it, or of up to 3 tokens and any 3, of 15 types, with unlexable stretches |
| `lookahead_order` | finding: queries after `peek<2>` | 2 pieces |
| `typed_parameter` | finding: `(a, b : T) => c` | that one source and its beginnings |
| `if_dropped` | finding: `if` without a parenthesis | `if` and 5 tokens |
| `no_token` | finding: a statement list without a token | `{ for` and 5 tokens |

### What the passing runs show

* `MaximalMunch`: `Scanner` implements `LexicalGrammar`: the first pattern that
  matches takes the longest lexeme there is, an error is reported only where none
  begins, and only a quote that is never closed makes `lexNext` read behind the
  end.
* `Rescans`: the tokens of a text, written apart by a blank each (a comment by a line
  end), are scanned one after the other as the same tokens: no keyword or number needs
  its neighbour to be one.
* `IntegersKeepTheirValue`: the conversion is that of decimal notation, and
  overflows for exactly the literals that are too large, not earlier.
* `PrintsTheSource`, `PrintsInOrder`, `PopsWhatItSaw`, `MainEnds`: of patterns,
  Lexer and `main` together: each token up to the first error is printed once and
  in order, before the next one is lexed, pop never meets an empty vector, and the
  loop ends although END_OF_FILE has no end.
* `TypeOK`, `CoreTypeOK`: the state keeps its types. For the lexer it says that
  positions wrap; for the parser that no step takes a token that was not read.
* `InSourceOrder`, `StreamSpec`, `EachTokenOnce`: the vector never loses,
  repeats or, for the client it has, reorders a token.
* `ErrorIsFinal`, `UndefinedOnlyIfStuck`: an error is met again at the same
  place by every later operation, and only such an error leads to `pop_back` on
  an empty vector.
* `AreasOnALine`, `AreasOrdered`: areas of tokens on one line are as wide and as far
  apart as their texts; until `position_` wraps areas never overlap, the double move at
  newlines included, so `combine` of two nodes is the stretch from one to the
  other. Behind a newline the distance is wrong by the newline's length; the properties say as much as
  is true.
* `ReturnsTypesOfTheGrammar`, `ReturnsExpressionsOfTheGrammar`: trees and areas
  are those of the grammar. `RejectsNoTypeOfTheGrammar`,
  `RejectsNoExpressionOfTheGrammar`: no sentence, and no source that begins like
  one, is rejected before the token that spoils it. `TakesTheLongestType`,
  `TakesTheLongestExpression`: the parser does not stop early.
* `BuildsDeclaredNodes`, `AreasNest`, `AreasWithin`: for the parts without a grammar
  here: what any method returns, not only the outermost, is one tree in which every
  node has the children its class declares and is as large as they are together,
  covers the areas of all nodes below it, and covers a token the method took and
  none it did not take. The one exception to nesting is in the code: `setType`
  (`LParExpressionParser.hpp:166`) leaves a parameter's area as it was.
* `ErrorsAreFresh`: an error that surfaces names the last token taken or the next
  one. The exception is `let` about a missing `=`, which names the `let`
  (`LetStmtParser.hpp:68`).
* `ErrorsMoveOnByLevel`: which token that is in a type. `type()` drops the error of the
  method it called, pops one more token and names that one (`TypeParser.hpp:37-50`), so
  the error is off by exactly one token for each type in parentheses that was not
  complete, and names the token at fault in a type without any. Nothing in the
  repository says which token it should be.
* `DepthBounded`: no method comes back to itself without a token taken, so the
  depth of the call stack is at most four times that of the source. The recursion of the
  private `type(already_parsed)`, a tail call that takes a token each time, is a loop
  in the model and adds no frame.
* `ReadsAStream`: the parser's reading refines `TokenStream`.
* `Terminates`: every call returns, at the end of the source and at an error too.

### Why the bounds are enough

*Scanner.* A pattern looks at most at a prefix, a character behind it and, in
strings, at the parity of backslashes. Each family holds the pieces one group of
patterns competes for: numbers (`01.1e+1` needs seven pieces and is left out; five
hold each part next to each other), quotes with three backslashes and a
quote, words that begin with a keyword, two adjacent operators of two characters,
comments with line ends. All pairs of pieces are there as well. Eight bits are
enough for a literal of four digits to overflow once and twice.

*Lexer.* Every branch of `lexNext` (space, newline, other lexeme, end, error)
occurs before and after every other with 5 pieces, and the vector never holds
more tokens than `MaxPeek`, so one more token than pieces lets END_OF_FILE come
twice. `Word = 16` and start 12 wrap in the middle of a source; start 0 does not
wrap, so `AreasOrdered` is checked to the end of a source and up to a wrap.

*Types.* Seven tokens hold every construct, the longest short form being
`(a,b)=>c`, the shorter ones inside each other, `((a))=>b`, `(a&b)?`, `(a::b|c)`,
and lists of three, so that each loop turns twice. For the errors six tokens hold
`((((((` and `(a,b)=>` with what spoils it, and thirteen the shortest type any six
tokens begin, so that a beginning is not taken for a mistake because its type is
too long.

*Expressions.* Five tokens hold two infix operators with a name between them,
one infix and two prefix operators, and so every pair of operators in either
order, which is what precedence climbing decides on. The longer forms get shapes
of their own (`CompoundShapes`), twelve tokens being `if (a) b` with an `elif` and an
`else`, or with a nested `if` that competes for the `else`.

*main.* Six pieces hold three tokens with blanks between them, or an error behind
three tokens.

*Statements.* The openings in `StatementOpenings` put the parser in front of each
place where a statement, a for element or a typed parameter can go on, and four
free tokens let it take every exit; `DirectOpenings` does so for the entries
called directly.

### Fairness

`Terminates` is checked under weak fairness of the whole next-state relation. The
parser is one thread that nothing blocks: fairness says only that the program
goes on running. `MainEnds` assumes the same of `main` and the Lexer's steps it
calls (`MainSpec`). The lexer's properties need none. `CHECK_DEADLOCK FALSE` is set
because a client may stop and a parser ends.

### Findings

1. **`lookahead_order`** After `peek<2>`, `next_is` and the other queries answer
   from the *last* token of the vector, where `Lexer.hpp:79` says "the next
   token". The parser and `main` peek one token at a time; `LexerTest.cpp` peeks
   two and three and then pops them all.
2. **`typed_parameter`** `(a, b : T) => c` is rejected, since `b` is first parsed
   as an expression and `simple_lambda` drops an identifier before a colon
   (`SimpleLambdaOrIdentifierParser.hpp:42-45`). Parameters with types are
   reached only where the element before the colon does not end in a bare
   identifier taken by that method.
3. **`if_dropped`** `if` without a parenthesis returns `nullopt` with the `if`
   taken, and the alternatives go on behind it: `if {a}` parses as a block.
4. **`no_token`** A statement list at an unlexable stretch calls `peek_and_pop` on
   an empty vector (`StatementParser.hpp:65`) before it can return the error its
   comment speaks of.


## 4. Proofs

Each theorem holds for every value of the constants: any set of sources, any
start positions, any width of a position, any set of public methods to call. No
bound of the runs is used.

| theorem | module | says | also assumes |
|---|---|---|---|
| `TypeCorrect` | `Lexer_proofs` | `Spec => []TypeOK` | |
| `ErrorsAreFinal` | | `Spec => ErrorIsFinal` | |
| `AreasKeepTheirDistance` | | `Spec => []AreasOnALine` | |
| `UndefinedOnlyBehindErrors` | | `Spec => []UndefinedOnlyIfStuck` | |
| `AreasStayOrdered` | | `Spec => []AreasOrdered` | |
| `TokensComeOnce` | | `Spec => []EachTokenOnce`, however many tokens are peeked or popped at a time | |
| `SourceOrder` | | `Spec => []InSourceOrder` | `MaxPeek = 1` |
| `StreamRefinement` | | `Spec => StreamSpec` | `MaxPeek = 1` |
| `QueriesAskTheNext` | | `Spec => AsksTheNextToken` | `MaxPeek = 1` |
| `MainIsAClient` | `Main_proofs` | `MainSpec => Spec`: `main` is one of the clients above | |
| `MainPopsWhatItSaw` | | `MainSpec => []PopsWhatItSaw` | |
| `MainPrintsInOrder` | | `MainSpec => []PrintsInOrder` | |
| `MainPrintsTheSource` | | `MainSpec => []PrintsTheSource` | |
| `ParserTypeCorrect` | `Parser_proofs` | `Spec => []CoreTypeOK` | |
| `NodesCoverTheirTokens` | | `Spec => []AreasWithin` | |
| `ReadsTheStream` | | `Spec => ReadsAStream` | |
| `DepthIsBounded` | `ParserCalls_proofs` | `Spec => []DepthBounded` | |
| `ErrorsNameTokensAtHand` | | `Spec => []ErrorsAreFresh` | |
| `NodesNest` | `ParserNest_proofs` | `Spec => []AreasNest` | |
| `TreesAreDeclared` | `ParserTrees_proofs` | `Spec => []BuildsDeclaredNodes` | |
| `TakesTheLongestLexeme` | `Scanner_proofs` | `Spec => MaximalMunch`: `Scanner` implements `LexicalGrammar` | |
| `LiteralsKeepTheirValue` | | `Spec => []IntegersKeepTheirValue` | |
| `TokensStandAlone` | | `Spec => []Rescans` | |

`MaxPeek = 1` is what the parser and `main` do. Without it `SourceOrder`,
`StreamRefinement` and `QueriesAskTheNext` are false; run `lookahead_order` shows the
last of them fail with `MaxPeek = 2`.

The assumptions are those the modules name: `ContentsAssumption`,
`PositionsAssumption`, `MaxPeekAssumption`, `TypesAssumption` and
`MaxTokensAssumption` of `Lexer`; `AlphabetAssumption`, `MaxTokensAssumption` and
`UnlexableAssumption` of `ParserCore`; `EntriesAssumption` of `Parser`, which says that
the client calls public methods; `SourceTextsAssumption` of `Scanner`, that a text is
a sequence of pieces; `MaxIntAssumption` of `Numbers`, that the largest integer has
at least one digit. TLC evaluates them in the runs.

### Along data

The library's induction theorems take an operator as a parameter and cannot be
instantiated here. What can be is its theorem that `<` is well-founded on the
naturals. `Induction` derives two things from it: that a set of numbers of which
every one has a smaller one is empty (`NoCounterexample`), so what would be an
induction becomes "a least counterexample has a smaller one"; and that a
recursive function exists (`RunsExist`), as what is recursive in TLA+ is the
choice of *some* function that solves the equation. With the uniqueness that
`NoCounterexample` gives, the definitions along a text, a source, a literal or a
tree can be unfolded: sums of sizes, the value of digits, the ends of the parts of a
node.

### The lexer

* *Type correctness* is inductive as it stands. The lemmas about `lexNext` state
  the types of what `LexInto` and `LexFails` leave, so every action cites them.
* *Errors.* `Stuck` says that behind whitespace there is an unlexable stretch.
  `LexFails` may drop the whitespace; what is behind it, and `Start`, the
  position behind it, are the same before and after. That is the whole argument,
  and it needs from `ContentsAssumption` that two whitespace lexemes never
  follow each other, which holds because the pattern is greedy.
* *Undefined behaviour.* `UndefinedOnlyIfStuck` is not inductive: from a state
  with `undefined` and an operation in progress that operation could go on.
  `UndefinedInv` adds that `call` is idle then, as `PeekAndPopFails` leaves it,
  and `Call` and `Pop` do not start behind undefined behaviour.
* *Areas.* `AreasOrdered` says nothing of where the next token will start.
  `AreasInv` adds that `position_` is `unwrapped` as long as that is below `Word`,
  and that the last token ends at or before it. A newline moves `position_` twice,
  which makes a gap and never an overlap.
* *Distance.* `AreasOnALine` compares tokens that were produced long ago with sums
  over the source, and says nothing of what is left. `SourceInv` adds that what
  is left is the source behind some place (`LeftIs`; an error moves that place too,
  over the whitespace before it), that the tokens produced are those before that
  place (`TokensAre`), and that each of them, and `position_` itself, is modulo
  `Word` as far from each earlier one on its line as the sums say, and each token as wide
  as its text (`AreasAre`).
  The last is a relation between two places that goes on with each lexeme but a
  newline (`OnLineFurther`), so the two moves at a newline disturb nothing.
* *Source order.* `delivered \o lexed_ = produced` is not inductive alone: `pop`
  takes from the back, which is the oldest token only if the vector holds one.
  `OrderInv` adds `Len(lexed_) <= 1`, which holds with `MaxPeek = 1`, because
  `LexForPeek` runs only while the vector is shorter than the call asks for, and
  `PopTokenTurn` refills only what it emptied.
* *Each token once*, for every `MaxPeek`. Several tokens are popped from the back,
  so `delivered` is not in order and the concatenation is no help. `OnceInv` speaks
  of sets and counts: as many tokens popped or held as were produced, their
  numbers those from 1 on, the vector ascending. A move between the two sides
  keeps the union, and a new token has the next number, larger than all.
* *Refinement.* From `OrderInv` every step is a `Produce`, a `Look`, a `Take` or
  a stutter. A turn of `pop_token` takes a token and lexes the next in one step,
  which is why `Take` may yield. `QueriesAskTheNext` rests on the same
  invariant: a vector of one has one back.

### main

`MainIsAClient` carries the lexer's theorems over: every step of `main` is one of
the lexer's or none. `MainInv` adds to `OrderInv` what the place in the loop says of
the vector (empty before the peek, filled before the pop), that only a
`peek<1>` is ever in progress, and that `printed` is what was popped, or one token
more between printing and popping. `PopsWhatItSaw` and `PrintsInOrder` are
corollaries; neither is inductive, since both say nothing at the place where the
peek is made. `PrintsTheSource` is about the end of the loop only: `PrintInv` says
why it stopped there (an error, or END_OF_FILE in the vector and not printed), and
`SourceInv` that what was printed until then is the source up to that place.

### The scanner

For the longest lexeme the invariant is only that what is left is a text; the work is
in `FirstRuleTakes`, which speaks of one text of any length. For what was taken,
`LexemesInv` says that each lexeme is one of its type by the grammar, except the
string that a quote never closed may have made behind the end.

* *Along a text.* `Span` is the least place at which a
  run ends, the closing quote the least at which the loop can break, and what
  would be an induction is that a least counterexample has a smaller one
  (`NoCounterexample`). That is how the flag `last_was_slash`, a recursive function
  along the text, is shown to be the grammar's parity of backslashes
  (`LastWasSlashIs`): parity solves the flag's equation (`EscapedStep`), so the
  equation has a solution, and there is no first place where they differ.
* *One type at a time.* For each type of token, its pattern takes a lexeme of the
  type, and the longest of that type at the front of the text: `IdentifierTaken`,
  `KeywordTaken`, `IntegerTaken`, `DoubleTaken`, `StringTaken`, `CommentTaken`,
  `SymbolTaken`. Keywords are the exception: `if` begins `iffy` and the pattern
  does not take it, but then the identifier is longer (`Taken`).
* *The order of the ladder.* Two types whose lexemes begin with the same piece are
  two words, two numbers or two symbols, the comment being one (`Rivals`). Words that
  match are equally long; a double is no shorter than its integer and is tried first
  (`WordsAndNumbersInOrder`); a symbol of two pieces is tried before the one its
  first piece is (`PairsInOrder`). Hence of two rules that match the earlier takes
  no less (`EarlierTakesMore`), and the first takes the most. That an identifier
  is no keyword also comes from the order: the keyword would have matched before.
* *Integers.* By `LexemesInv` what the scanner called an `INTEGER` has the form of
  one, no leading zero being what the ladder leaves of it. `parse_int_unsafe` goes
  through the digits from the front, `Number` from the back with place values. As
  long as it fits, the value so far is what arithmetic without a limit makes of the
  digits (`ReadsPlainly`), and the place values give the same (`WeighsPlainly`). The
  value never falls, so the first overflow is one of the whole literal too
  (`ParsesTheNumber`).
* *Tokens that stand alone.* No lexeme goes on behind a token and the blank or line
  end that ends it (`EndsThere`), so the longest lexeme there is the token, and a
  text is a lexeme of one type only (`OneType`): with `FirstRuleTakes` the first rule
  that matches takes it, and with its type (`TokenApart`). Behind it only the
  separator is space, as no token begins with any (`SeparatorApart`). `WrittenApart` is
  recursive along the lexemes; `ApartIs` unfolds it.

### The parser

The invariants are stated over the labels, so that a frame at a label has what
the code behind that label relies on.

* *Types and areas.* `CoreTypeOK` is not inductive: a step that takes the area of a
  tree's root needs the tree. `Inv` says of every frame that its nodes, and the
  area it remembers, lie between the token its method began at and those taken by
  now, that it has a tree where it is going to use one (`WithTree`), an area where
  it remembers one (`WithArea`), and an operator where one was read; and of what a
  call returned, that it is a tree whose areas lie between the token that call
  began at and `taken`. As tokens are only ever taken, all of it grows with
  `taken` (`FramesGrow`), so a step needs to look at the top frame only. Some
  lemmas about the operators that build trees (`GrownIn`, `ConcatIn`, `ParametersIn`,
  `WidenedIn`), one per form of step (a step goes on, calls, returns or fails),
  and then each step of each class cites the form it is.
* *Reading.* Each step takes no token or the next one, which is a stutter or a
  `Take` of `TokenStream` with `delivered` = the first `taken` of `read`.
* *Depth and errors.* `Shallow` bounds each frame, not only their number: with
  `Rank` (statement, expression, simple expression, alternative) the i-th frame is
  at most `4 * start + Rank`. A call either goes to a higher rank or comes from a
  step in `Ahead`, which has taken a token since its method began. `BehindLet` says
  that a `let` in progress has a `let` where it began, which is what the one error
  that looks back is about. What a step may do is in `Steps` (goes on, calls, leaves
  with a value, an error or nothing); every step of every method is one of these,
  shown class by class, and the invariant `CallInv` is proved of `Steps` once.
* *Nesting.* That the root of each result covers all its nodes (`Whole`) is not
  enough, since a method combines the area of the token or tree it *began* with and
  the one it *ends* with, and the trees between them must lie between. `NestInv`
  adds to `Inv` that what a caller holds ends before what it gets begins (`Apart`),
  that an area a frame remembers starts no later than its trees, and in lists
  of names without parentheses that the first tree starts first and the last ends
  last. `LambdaParameter` is excepted where the property excepts it and nowhere
  else: its area still lies between those of its neighbours.

* *Trees.* `BuildsDeclaredNodes` is about trees that are done. `TreesInv` says of
  every frame, by its label, which trees stand next to each other in it
  (`Forest`, `Holding`): how many, of which kinds, and that the method's counter
  is their number. Two pieces of memory decide what becomes of them: the token
  the frame remembers (`Remembering`; an `if` returns an `IfExpr` and takes
  elifs, an `elif` neither), and what a caller at its label makes of a result,
  which has to include all that the method it waits for can give (`Answers`,
  with `Gives` and `Expects`). Two methods take the last node off again,
  `simple_lambda`'s identifier in a list and the identifier before a colon, so there
  the last tree is one node. That a tuple has two elements comes from elsewhere: a list
  with one element is at the separator behind it, so it takes that one and another
  element (`AtSeparator`). A *row* is the places where trees end, each as far from
  the next as its root's `size`; rows can be moved, joined and split (`RowMoves`,
  `RowsJoin`, `ForestsJoin`, `ForestGrows`), and where a step fits a form
  (`Adds`, `Turns`) the lemma about the form does the rest.

`Inv`, `CallInv`, `NestInv`, `TreesInv`, `OnceInv`, `AreasInv`, `SourceInv`, `MainInv`,
`PrintInv` and `LexemesInv` were checked by TLC, as invariants of the runs' instances,
before they were proved.

### What is only model-checked

* *Liveness*: `Terminates` and `MainEnds`, which need fairness and `ENABLED`.
* *Comparisons with a grammar*: the three properties each of `type()` and
  `expression()`, and `ErrorsMoveOnByLevel`. `TypeGrammar` and `ExpressionGrammar`
  build sets of sentences with trees length by length, with a fold of the community
  modules; what a fold computes for every length is an induction over data.


## 5. What is not modelled

* **Single characters.** The letters of a keyword are one piece, and bytes above
  127, for which `std::isalpha` (`Lexer.hpp:200`) is called with a negative
  argument where `char` is signed, are left out.
* **Doubles.** `parse_double_unsafe` returns 0.0 for every literal, and nothing says
  otherwise but a TODO.
* **Comments and newlines in the parser.** No method skips a `LINE_COMMENT_START`, so
  it is a token like any other that spoils what it stands in.
* **AST classes.** They have constructors, accessors and comparison. A node's
  kind, area, and the kinds of its children are modelled, the rest has no behaviour. `Forward`'s
  moved-from state is an ownership question of C++.
* **Imports, namespaces, function definitions** have AST classes that no parser
  method builds.
* **Code that is never reached.** `block()` never succeeds, because `stmt_list`
  loops until something fails, so what statements do with a block
  (`StatementParser.hpp` 94-105, 130-136, 183-212, 217-240, 261-294) has no step, and
  no node of class `WhileStmt`, `IfStmt` or `ForStmt` is ever built;
  `statement()` commits to `ifStmt` at the token `if`, so a block that begins with
  an if expression is rejected as well;
  `lambda_parameter(Identifier)` is never called.
* **Wording**: expected tokens in errors, `get_description`, the printing of
  `main`, and the build files.


## 6. Plan

Order: what all else stands on first.

1. *Lexer* with its abstract stream and proofs (done).
2. *Parser core and types*, compared with the grammar (done).
3. *Expressions* with everything that can be nested in them, compared with the
   grammar (done).
4. *Statements, for elements, typed parameters*: trees, areas, termination (done).
5. *Scanner*, with the lexical grammar it refines, and the conversion of integers
   (done).
6. *More entry points*: `let()`, `statement()`, `for_element()`, `identifier()`
   called directly (done).
7. *Composition*: `main` over the Lexer over the patterns; `ParserCore`'s reading of
   the source as an instance of `TokenStream` (done).
8. *Proofs about the parser*: types, areas, reading, depth, errors, nesting (done).
9. *Lookahead*: `EachTokenOnce` for every `MaxPeek`, and the order of areas (done).
10. *main*: `PopsWhatItSaw` and `PrintsInOrder` for every source (done).
11. *Trees*: for every source, of which parts each node is built (done).
12. *Scanner*: the longest lexeme, for every text (done).
13. *Sums*: areas on a line, what `main` has printed, the value of literals, for every
    source (done).
14. *Tokens that stand alone*, for every text (done).

What is left is what section 4 lists as only model-checked.
