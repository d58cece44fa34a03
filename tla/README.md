# parsec++ in TLA+

A verification project for parsec++ (`include/parsecpp/`), a header-only C++23
port of Haskell's Parsec. The library's promises are about *bookkeeping that
must survive every composition*: whether a parser consumed input, which `State`
the next parser runs on, which of many errors is reported. No one function can
break them alone, and unit tests see few of the compositions. That is what is
modelled, model-checked and proved here.

Paths below are relative to the repository; `.hpp` files are in
`include/parsecpp/`.

## 1. The system

### Components

| Component | State it keeps | Operations | Hard behaviour | What makes it correct |
|---|---|---|---|---|
| **Parser core** `parser.hpp`, `state.hpp`, `result.hpp`, `run_parser` | `Parser` is an immutable closure; a `State` (input, index, position, user state) is passed by value; a `ParseResult` is `Ok`/`Err` and `consumed` | `bind`, `map`, `label`, `operator\|`, `operator>`, `skip`, `operator&` | flags and errors of two parts merged at hand-inlined places; backtracking only over empty failures | the flag tells the truth; a failure that consumed is final; the next part runs on the right `State` |
| **Primitive parsers** `prim.hpp` | none; loops have locals | `pure`, `fail`, `token_prim`, `try_parse`, `look_ahead`, `many_accum` and its users, `tokens`, `take_while(1)`, `lazy` | loops that could run for ever; several ways to move a position | progress, termination, one position per cursor |
| **lazy's initialisation** `prim.hpp:298-316` | `LazyState`: `once_flag`, parser, producer, shared by all copies and threads | first call makes the parser | threads meeting in `call_once`; a producer that throws while others wait | one parser, made once, seen by all; nobody stuck |
| **Combinators** `combinator.hpp` | locals of loops: up to three `State`s, three flags, two errors | `choice`, `count`, `sep_by`.., `end_by`.., `sep_end_by`.., `chainl`.., `chainr`.., `many_till`, `not_followed_by`, `eof` | resuming from the right one of several `State`s; OR-ing the right flags | each is equivalent to its Parsec definition |
| **Character parsers** `char.hpp` | none | `satisfy`, `one_of`, `letter`, `spaces`, `end_of_line`, .. | none of their own | as their parts |
| **Positions** `pos.hpp` | line, column | `update_pos_char`, `update_pos_string`; `detail::scan_pos` in `prim.hpp` | three implementations of one function, with tabs and newlines | they agree however text is split |
| **Errors** `error.hpp` | position, vector of messages | `unknown`, `with_message`, `merge`, `add_message`, `set_messages`, `format` | merging by furthest position; `std::set_union`'s and `std::lower_bound`'s preconditions | the furthest failure and all its messages survive, in whatever order errors meet |
| **Expression parsers** `expr.hpp` | none | `make_level_parser`, `build_expression_parser` | precedence, mixed associativity on a level, ambiguity check, one symbol in several roles | exactly the table's language, each text grouped as the table says |
| **Token parsers** `token.hpp` | `LanguageDef` | lexemes, white space with nested comments, identifiers, reserved names, numbers, literals | comment scanner over overlapping markers; numbers out of range throw; failing after consuming | white space stops exactly at the next token; words are taken whole; numbers and literals mean what they spell |
| **Language definitions** `language.hpp` | tables | - | markers that start one another | constants of the token parsers |
| **Examples** `examples/` | none | calculator, JSON | alternatives that commit to blanks; recursion through `lazy` | the expressions and the JSON a reader expects |

### How they interact

Everything is calls and returns on one thread: a combinator calls its parts with
a `State`, each answers with a `ParseResult`, and the combinator makes its own
from theirs. Nothing is shared between two parses but the `LazyState` of a lazy
parser, the one place where threads meet. A function given to `map` may throw
(`stoll` and `stod` do); nothing catches it, so it leaves `run_parser`.

## 2. Modules

| Module | Models |
|---|---|
| `SourcePos` | `SourcePos`'s order, `update_pos_char`, `update_pos_string`, `scan_pos`. `PosAt` is the reference the properties compare with. |
| `ParseError` | messages and their order, `merge` with `std::set_union` as the two-pointer walk it is, on unsorted input too. |
| `Parsers` | parser values as records, one constructor per C++ factory; the factories that only compose others compose records in the same way. All of `char.hpp`. |
| `ParserMachine` | running a parser: the C++ call stack, one call or return at a time. |
| `ParserProperties` | `ParserMachine` observed by two history variables, and its properties. |
| `ParserLaws` | two parsers run on the same input, and the laws that relate them. |
| `TokenParsers`, `Languages` | `token.hpp` and `language.hpp`: parsers as operators of a `LanguageDef`, and what their functions make of values. |
| `ExprParsers` | `expr.hpp`: the parser of an operator table. |
| `Examples` | the grammars of `calculator.cpp` and `json_parser.cpp`. |
| `ParserTasks` | `ParserMachine` run on tasks: a parser, its texts, and what a property compares with. |
| `WhiteSpace` | where a stretch of characters, a comment, and white space end in a text, by the language's definition alone. |
| `WordTokens` | which word a text starts with, and what identifiers, operators and reserved words are. |
| `TokenProperties`, `ExprProperties` | what a language, a table or a format says of a text, defined without parsers, and the properties that compare. |
| `ErrorMachine` | a few `ParseError`s and everything `error.hpp` does to them, in any order. |
| `MessageSets` | what a `ParseError` promises: a position and a set of things said of it. |
| `LazyInit` | `lazy`'s `LazyState` between threads. |
| `OnceCell` | what `lazy` promises: a cell that is filled once. |
| `ParserMachineProofs` | theorems: what `consumed` means for a success. |
| `OperatorLemmas` | lemmas: induction on numbers; the three ways to move a position agree on texts of every length; what `merge` makes of two errors. |
| `LiveStateProofs` | theorems: positions and user state in every live `State`. |
| `FailureProofs` | theorems: the type invariant, where errors point, what alternatives keep, what `consumed` means for a failure, and predictive parsing. |
| `WhiteSpaceProofs` | theorem: white space ends at the next token. |
| `WordProofs` | theorem: words are taken whole, and reserved words by their own parsers alone. |
| `ErrorMachineProofs` | theorems: errors implement `MessageSets`, and reports do not depend on any order. |
| `LazyInitProofs` | theorems about `lazy`. |
| `MCParserMachine`, `MCParserLaws`, `MCTokens`, `MCExpressions`, `MCErrors`, `MCLazyInit` | instances for TLC. |

`Parsers` <- `ParserMachine` <- `ParserProperties` <- `ParserTasks`, with
`TokenParsers`, `ExprParsers`, `Languages` and `Examples` as further constructors
of `Parsers`: a token parser or an expression parser runs on the same machine,
through the same combinators, as any other, and is not described a second time.

### How `ParserMachine` corresponds to the code

* `input`, `st`: the `State` the parser `node` is called on. `input` is one
  variable because all `State`s view the same text. `source_name` is left out.
* `mode = "call"`: `node` is about to run on `st`. `mode = "return"`: it returned
  `res` (a `ParseResult`). `mode = "threw"`: a function given to `map` threw; the
  stack is unwound, since nothing in the library catches.
* `stack`: the suspended combinators. A frame holds the combinator (`node`), the
  `State` it was called on (`entry`) and the locals of its function body:
  `sofar` is accumulated value, `State`, last ghost error and `consumed_overall`
  together; `held` is the separator's or operator's result while the next item
  runs; `phase` is the place in the body; `i` the loop counter.
* A parser that calls no other is one action (`CallTokenPrim`, `CallTokens`, ..).
  A combinator's first call is `CallComposite`; what its body does with each
  part's result is one action `ReturnToX`, a disjunct per branch of the body.
* `sep_end_by1`, `chainl1` and `scan_op_chain` are the same loop written three
  times in C++; they share `FirstItem`, `Separator` and `NextItem` and differ in
  what a missing item after a separator means (`NoMoreItems`, `MissingOperand`).
* `bind`, `operator>` and `skip` inline the same code three times; they share
  `SequenceOn` and `SequenceEnd`. The inlined short-circuit of the merge
  (`parser.hpp:47-55`) is `merge`'s own first two lines.
* The functions passed to `bind` and `map` inside the library are records that
  `continue` and `transform` interpret; a client's, those of `token.hpp` and of the
  examples among them, are the constants `UserContinuation`, `UserTransform` and
  `UserThrows` (whether the function throws).
* The body of `make_white_space`'s block comment (`token.hpp:231-303`) is a loop
  of its own over four sub-parsers, the parser `comment_rest`. Its frame's `phase`
  is the sub-parser that runs, its `i` the nesting depth (`Nesting`).
* Values are flattened to what they spell, so that order and grouping of what
  was parsed can still be told apart: a binary operator's application spells its
  operands in parentheses. An operator's parser returns its symbol in place of its
  function. An `int64_t` is a sequence of its value; a `double` is `<< m, e >>` for
  m * 10^e. Their ranges are the constants `LLongMax` and `DoubleExp`, small enough
  that short numerals cross them.
* `client_token` is a client's own `Parser`, the one way user state ever changes.

The step relation is deterministic apart from the choice of grammar and input,
as the code is.

### How `ErrorMachine` corresponds

Slots hold errors as parsers' locals do. `merge`'s `std::set_union` is the walk
with two pointers and `add_message`'s `std::lower_bound` the halving that the
standard library runs, so that what they do to vectors that are not sorted, whose
result the standard leaves open, is what the build does. `asked` records the last
operation with its arguments; it lets the refinement tell a merge that lost a
message from a `set_messages` that was meant to. `std::sort` followed by
`std::unique` is its postcondition, `SortedOnce`: the strictly sorted vector of the
same messages, which exists (`SortExists`).

## 3. Runs

| Run | Question | Result |
|---|---|---|
| `parser_machine` | do flags, cursors, positions, user state and errors stay consistent through every composition, and does every parse end? | passes, about 529,000 states |
| `parser_laws` | do the hand-written loops, inlined binds and scans parse as their definitions? do the monad, alternative and lookahead laws hold? | passes, about 1.4 million states |
| `tokens` | does white space end at the next token, is a word taken whole, does a number or literal mean what it spells? does every parse end? | passes, about 595,000 states |
| `expressions` | does a table's parser accept its language, grouped as the table says? do the calculator and JSON, and where do they throw? | passes, about 457,000 states |
| `errors` | can the order in which errors meet, or a vector out of order, change a report? | passes, about 41,000 states |
| `lazy_init` | can threads or a throwing producer break `lazy`? | passes, 171 states |
| `sorted_messages` | are the vectors given to `merge` sorted (`error.hpp:71`)? | **violated** |
| `tokens_consume` | does a mismatched `string_` consume what matched (`README.md:148`)? | **violated** |
| `empty_text` | does `many`'s guard (`prim.hpp:137`) stop a body that accepts the empty string? | **violated** |
| `juxtaposition` | is `chainl1` Parsec's for an operator that takes no input (`README.md:3`)? | **violated** |
| `reserved_name` | does `identifier` take nothing where it meets a reserved name (`README.md:3`)? | **violated** |
| `blanks` | do the examples take arithmetic and JSON (`README.md:51`, `:54`) with blanks in it? | **violated** |

### Properties of `parser_machine`

* `EmptySuccessKeepsState`, `ConsumedMeansProgress`: what `consumed` means for a
  success, in both directions.
* `FailureReportsConsumption`, `CommittedFailurePropagates`: what it means for a
  failure, and that a failure that consumed ends every enclosing alternative and
  loop, however deep, up to a `try_parse`.
* `PredictiveParsing`: until a `try_parse` or a `look_ahead` is called no input
  is ever gone over twice. This follows from the four above only together.
* `PositionsFollowInput`, `UserStateFollowsInput`: in every `State` that is
  alive anywhere on the stack, position and user state are those of its cursor.
* `ErrorsPointAhead`, `FurthestErrorSurvives`: no error or ghost error points
  back behind its parser's start or past the input, and alternatives do not lose
  the furthest failure or its messages.
* `FailuresSpeak`: no failure is silent. A failure's message is lost when a merge
  prefers a ghost error that says nothing or a combinator returns only the one of
  two errors it holds; `format` would print "Unknown parse error".
* `Termination`, `TypeOK`.

### `parser_laws`

The left side is the library's parser, the right side what it stands for.
`SameParse` compares success, flag, value and `State`; `SameFailure` the reported
messages, for the laws where Parsec has the same errors. Most laws are checked a
second time followed by `eof`, which brings the ghost errors of a success to
light. Two families are not, because the code deliberately or by construction
differs there and their error texts then differ: `choice` keeps the errors of
alternatives before one that consumed, `operator|` drops them; `sep_end_by1`,
`chainl1` and `scan_op_chain` keep only their last item's ghost errors.

### Properties of `tokens`

They compare with the language definition, not with another parser.
* `WhiteSpaceEndsAtNextToken`, at every call of `white_space`, inside any parse:
  the cursor stops behind all blanks and comments and before anything else, with
  nested comments, comments that do not nest, markers that share characters or are
  equal, a line marker that starts the block marker; an unclosed comment is a
  failure that consumed, reported at the end of the input.
* `WordOrReserved`: the four word parsers against one definition of a word.
  `reserved` takes its name exactly where no letter goes on behind it. A name that
  is a word is then taken by its own `reserved` alone; a name need not be one:
  `haskell_def` reserves `_ccall_` and `_casm_`, which its identifiers, starting with
  a letter, never are (`language.hpp:30`, `:80`).
* `IntegersDenote`, `FloatsDenote`: which numerals are accepted, which throw, and
  their exact values. -2^63 throws, for the sign is applied after `stoll`.
* `LiteralEndsAtItsQuote`: the closing quote, and the value between.
* `SpacingIsIrrelevant`: phrases of several tokens under several spacings.
* `Termination`, with the comment scanner's loop in it.

### Properties of `expressions`

`TableMeaning` builds the pairs of a text and its value up from the operands, by
the grammar a table describes. `MeansWhatTheTableSays` and the two example
properties then say: exactly these texts are accepted, each with this value. An
`ASSUME` checks that each text has one meaning. What the grammar had to say in
order to be the code's:
* the operators of one level nest: left-associative ones bind tightest, then
  right-associative ones, then at most one non-associative one. Parsec reports
  such a mixture as ambiguous; here only the non-associative tail is checked
  (`AmbiguityIsReported`), and the left and right parts of `ambig_op`, made from
  operators that the loops before have already taken, never succeed;
* at most one prefix and one postfix operator stand around a term;
* an operator of a tighter level that starts one of a looser level takes its
  first character and is then missing its operand.
The tables include one whose inner level has an operator that starts one of the
outer level (`shadowed`: the outer `**` is never found behind `*`), and one where
`reserved_op` keeps two such operators apart (`loose_powers`).

`CalculatorMeans` and `JsonMeans` describe the grammars as they are written, blanks
included: each of the calculator's operators is `spaces() > char_(..)`, so the first
of a level commits to the blanks, and behind a blank only `*` is found; an object's
member skips no blanks behind it, while an array's item does. That documentation
promises more is what `BlanksAreTaken` says (finding 6).
Both also say exactly which texts make `stod` throw out of `run_parser`: those in
which an operand is reached (`Breaks`) that is no number, as a lone dot is, or that
`double` does not hold, with or without an exponent, whatever follows it.

### Properties of `errors`

* `ImplementsMessageSets`: `merge` is the union of sets, `add_message` an insertion,
  even on the unsorted vectors that `tokens` and `label` build.
* `ReportIgnoresOrder`: `format` of three errors merged is the same under every
  order and bracketing.
* `DisorderNeverShows`: `format` of an unsorted vector is that of the sorted one.
* `KeepsSorted`: while all are sorted, every operation keeps them so; only a
  parser's own failure (finding 1) ever breaks it.
`format` writes "end of input" only when it is the only unexpected text; beside
another it is an empty text.

### Bounds

The grammars are every combinator over every pair of nine leaves (five that
consume whenever they succeed, four that need not), eight shapes of depth three
to four over five leaves, and some larger ones among them the recursive grammar
of `tests/test_prim.cpp` and block comments, nested and not. Every branch of every combinator
needs at most two parts and three rounds of a loop, and a wrong flag or `State`
shows one level further out, which the nested shapes supply. Inputs are all
strings of `a` and `b` up to length 3 and some longer ones with newlines, tabs
(before and after a tab stop) and the letter that counts in the user state.
Nothing else is bounded: the stack and the errors are as the grammar makes them.
`tokens`: all texts of up to three to five pieces (markers, characters, digits)
per parser, and longer ones where a range or a nesting is crossed.
Range errors of `double` are reached with `DoubleExp` = 3 in `expressions`: a
number must begin between the hundreds and the hundredths, so `1111` and `0.001`
throw without an exponent. `expressions`: all texts of up to three to five characters, all longer texts of a
table's language up to the length at which the next nesting of an operator has
appeared (six or seven), and these with one character more. A language's meanings
are known up to a length, and no other text is longer. Values in JSON nest to
depth two. `errors`: two slots and a third error, two positions of which the later
has the smaller column, a message of each type, and at most `MaxMessages` = 4
messages, one more than any vector needs to show an insertion at each place. Of
the reserved tables of `language.hpp` a few names each: those that start one
another.
Three threads in `lazy_init` are one that runs the producer, one that waits and
one that comes late; attempts after exceptions are not bounded.

### Fairness

`Termination`, in `parser_machine` and `tokens`, assumes `WF_vars(Step)`: the thread
that called `run_parser` keeps running. Grammars whose loops consume input in each round are chosen, since
`sep_end_by1`, `chainl1` and `many_till` have no guard and do run for ever on
others. `EveryCallReturns` assumes weak fairness of each thread that is inside a
call, nothing of the scheduler's choice in `call_once`; because a thread may
then be overtaken for ever by others whose producers throw, the property's
premise is that exceptions stop at some time.

Deadlock is checked in every run; the end of a parse is a stuttering step.

## 4. Findings

1. `tokens` builds its error as {`Expect`, `SysUnExpect`} (`prim.hpp:218`) and
   `label` appends an `Expect` after a `Msg` (`parser.hpp:104`): neither is in
   the order of `MessageType`. `ParseError::merge` (`error.hpp:71`) says that
   "both vectors are sorted + deduplicated", and `std::set_union` requires it.
2. `tokens` never consumes when it fails. The README (line 148) and a comment in
   `tests/test_prim.cpp` explain `try_parse` by the opposite.
3. `tokens("")` reports consumed input without consuming any, so it passes
   `many`'s guard and `skip_many(string_(""))` never returns.
4. `chainl1` and `scan_op_chain` fail when an operator that took no input is
   followed by no operand; Parsec's `rest x = do {..} <|> return x` succeeds.
5. `identifier` and `operator_` fail on a reserved name after they consumed it
   (`token.hpp:317`, `token.hpp:338`); Parsec's are a `lexeme (try ..)`. An
   alternative to `identifier` is therefore never tried on a reserved word.
6. `README.md:51` has the calculator take arithmetic expressions; it rejects `1 +1`
   and any other operator but `*` behind a blank (`calculator.cpp:31`), and with them
   a line that ends in a blank, although `main` skips blanks there
   (`calculator.cpp:72`). `README.md:54` calls `json_parser` a JSON parser; it rejects
   a blank before the comma behind an object's member, as in `{"a":1 ,"b":2}`
   (`json_parser.cpp:118`). The run `blanks` ends at the first text it meets, the
   calculator's; `CalculatorMeans` and `JsonMeans`, which hold, say what is taken.

Noted without a run: `calculator.cpp:7` promises unary minus, while its table has no
prefix operator and `CalculatorMeans` shows that `-1` is rejected; `README.md:54` has
`json_parser` read its input from `stdin`, which `main` does not;
`LanguageDef::case_sensitive` is never read; the comments of `tests/test_expr.cpp:102`
and `:107` have a table go from lowest to highest precedence, while the first row
binds tightest (`expr.hpp:128`), as `README.md:104` says and `MeansWhatTheTableSays`
confirms.

## 5. Proofs

Every safety property of `parser_machine`, `errors` and `lazy_init`, invariant or
action property, is a theorem, and so are those of `tokens` about white space and
about words: they hold for every grammar, every language, every input of any
length, every client, every number of threads and errors, and not only for the
instances of the runs.

| Theorem | Property | Premises |
|---|---|---|
| `ParserMachineProofs!EmptySuccess` | `EmptySuccessKeepsState` | none |
| `ParserMachineProofs!Progress` | `ConsumedMeansProgress` | `TextsNotEmpty` |
| `LiveStateProofs!PositionsFollow` | `PositionsFollowInput` | `TextsAreStrings` |
| `LiveStateProofs!UserStateFollows` | `UserStateFollowsInput` | `TextsAreStrings`, `CountedByClients` |
| `OperatorLemmas!MergeKeepsFurthest` | about `merge` itself | none |
| `FailureProofs!TypesOK` | `TypeOK` | `TextsAreStrings`, `MessagesAreStrings` |
| `FailureProofs!ErrorsAhead` | `ErrorsPointAhead` | the same |
| `FailureProofs!FailuresAreTold` | `FailuresSpeak` | the same |
| `FailureProofs!FurthestSurvives` | `FurthestErrorSurvives` | the same |
| `FailureProofs!FailureReports` | `FailureReportsConsumption` | `TextsNotEmpty`, `CommentsAreComments` |
| `FailureProofs!CommittedPropagates` | `CommittedFailurePropagates` | `TextsAreStrings`, `MessagesAreStrings`, `CommentsAreComments` |
| `FailureProofs!ParsesPredictively` | `PredictiveParsing` | `TextsAreStrings`, `CommentsAreComments` |
| `WhiteSpaceProofs!NextTokenFound` | `WhiteSpaceEndsAtNextToken` | `TextsAreStrings`, `CommentsAreComments` |
| `WordProofs!WordsTaken` | `WordOrReserved` | `WordFunctions` |
| `ErrorMachineProofs!ImplementsSets` | `ImplementsMessageSets` | none |
| `ErrorMachineProofs!StaysSorted` | `KeepsSorted` | none |
| `ErrorMachineProofs!ReportsIgnoreOrder` | `ReportIgnoresOrder` | none |
| `ErrorMachineProofs!DisorderHidden` | `DisorderNeverShows` | none |
| `LazyInitProofs!LazyTypes`, `OneParser`, `NeverReplaced` | `TypeOK`, `ParsesTheOneParser`, `ParserNeverReplaced` | none |
| `LazyInitProofs!LazyImplementsOnceCell` | `ImplementsOnceCell` | none |

### Assumptions and premises

The constants' assumptions: inputs are sequences of codes; `TypesAssumption`, the
errors and messages that parsers fail with are of their types;
`LanguagesAssumption`, a language is one that `TokenParser`'s constructor takes: its
markers are strings, and a block comment has both or neither; `AcceptsAssumption` and
`WordTasksAssumption`, a language's letters are parsers of one character, labels of
them or alternatives of two, `Accepts` is what they accept, and a task for words runs
the parser that it is named after. The letters of all six definitions of
`language.hpp` are so. Of a reserved name nothing is assumed: it is any string,
a word of the language or not. A grammar is data
that a client's functions may still make while a parse runs, so what is assumed of
it is a premise on the behaviour, `Spec /\ []P => []Q`, and speaks of the parser
that is being called:

* `TextsAreStrings`, `MessagesAreStrings`: the texts of `tokens`, `fail` and `label`
  are sequences of codes. In C++ they are `std::string`s.
* `TextsNotEmpty`: no `tokens` parser has an empty string. This is finding 3: the
  two theorems are false without it. `ParsesPredictively` needs no such premise.
* `CommentsAreComments`: the loop of a block comment is one that `block_comment`
  made. In C++ it is a lambda inside `make_white_space`.
* `CountedByClients`: the characters that count in the user state are taken by a
  client's own `Parser` and by no other. It only fixes what the client of the
  property counts.
* `WordFunctions`: the client's functions include `token.hpp`'s, the two lambdas
  behind a word and the one that drops a value. `WordsTaken` needs no premise on the
  grammar: its invariant says which parsers run, and what they are made of.

The run `parser_machine` satisfies the first five (TLC checked each as an invariant of
it), so none excludes what the runs explore; `Tracks`, `Predicts`, `AllPlaced` and
`Sound`, below, hold on it too by TLC, besides being proved. The run `tokens`
satisfies the two premises of `NextTokenFound` in the same way; its functions are
`TokenParsers`' own, which is `WordFunctions`.

### The argument for the machine

A combinator's result depends on its locals, which came from parts that returned
long before, so no property is inductive. All the proofs speak of the stack, and
each invariant rests on the one before:

1. `Consumption(strict)` (`ParserMachineProofs`): of every frame on the stack, the
   `State` it gathered lies from its own `State` as its flag says, of a pair under
   way the same from there, and of neighbouring frames, the inner one was called
   on the `State` the outer one had reached. One lemma for each of the four ways
   the machine steps (`ReturnOK`, `CallOK`, `ResumeOK`, `FinishOK`), one per
   combinator, which composes moves (`MovesOn`). `strict` also compares cursors,
   which takes `TextsNotEmpty`.
2. `AllPlaced`: every live `State` is at the position of its cursor. A step of a
   combinator makes no new `State` (`CallerKeepsStates`, from the same cases), so
   only the parsers that read input matter (`LeafTakes`); that each of their ways
   of moving a position is `PosAt` of the new cursor is in `OperatorLemmas`. The user
   state is the same argument (`AllCount`), with a set of counted cursors.
3. `SoundRun` adds `Sound`: of every suspended combinator, what it has gathered,
   ghost error included, points between its `State` and the end of the input, no
   failure is unknown, and its phase and counter are its own. `merge` keeps this
   (`MergePoints`), since it returns one of the two positions.
   `FurthestErrorSurvives` follows in one step from `MergeKeepsFurthest`.
4. `Tracks`: which parser runs for which frame. It is needed since two bodies read
   a part's failure without its flag: `not_followed_by` and the loop of a block
   comment. They lose no consumed input only because the parts they make for
   themselves (a `try_parse`, a character, a run of characters) never fail after
   consuming (`NeverCommits`); that is a property of those parts' own executions.
   Flags and commitment are then local (`ReturnReports`, `ReturnPropagates`).
5. `Predicts`: before a `try_parse` or `look_ahead`, a parser is called, a success
   returns and an empty failure backtracks at `furthest`; a failure that consumed
   calls nothing any more. `FurthestStays` ties it to the history variables.

### The argument for white space

`WhiteSpaceEndsAtNextToken` speaks of one parser, but it runs inside any other, on
the same stack, with `try_parse`s and loops of its own parts between. The
invariant is `AllFound`, on top of `Consumption`, `AllPlaced` and `Tracks`:

* `Shown`: whenever a parser returns that white space is made of, it did at its
  cursor what its definition says of the text there: a character, a stretch of
  them, a string, a line comment, a comment from its start marker or from inside,
  a blank or a comment, white space. The parsers are told by their shape (`One`,
  `Loop`, `IsText`) or by what the language makes them (`Comment`, `Gap`), so the
  same is shown of every other parser of that shape, in whatever grammar.
* `Found`: what their suspended frames know so far. A loop has passed accepted
  characters only; the alternatives that the choice tried are absent; of white
  space the next token is the same from here as from its start.
* Inside a block comment the frame has one counter for its depth and no memory of
  where it came from, so what it knows needs a witness. `Nested` says that there is
  a sequence of as many places as the depth, the innermost being the cursor, where
  each is the end of the comment whose text goes on at the one inside it, and the
  outermost is where the whole comment ends. `CommentFound` adds which markers the
  phase has ruled out. Each branch of the loop changes the sequence at its inner
  end (`NestedOn`, `NestedDeeper`, `NestedLess`); running out of text inside it
  makes every one of its places `Unclosed` (`NestedUnclosed`).

`Tracks` says which part a frame waits for, `PartOf`; that it returned as `Shown`
is then what the frame goes by, one lemma per combinator (`SpaceThen` ..
`SpaceComment`), and `SpaceOthers` for those that nothing is said of.

The definitions it is shown against recur on what they return:
`CommentEnd` of a nested comment is `ends[ends[..]]`, `NextToken` is
`next[GapEnd(..)]`. That such functions exist, and never go back, is one lemma
(`ClimbSays`): both are a rule that says of every place to stop there, to go on
farther up, or to go on and then on again from where that ended, and by induction
from the end of the text exactly one function follows a rule.

### The argument for words

`WordOrReserved` compares the end of a run with its text, and on the way the run
makes parsers that its grammar does not hold: `bind`'s continuations go on with
`many(letters)`, then with `pure` or `fail`. The invariant `WordRun` is `SpaceRun`, the
invariant of white space, with

* `Linked`: every parser on the stack and the one that runs are among `Runs(goal, n)`,
  the word's and white space's own, those continuations included, and every frame
  waits for its own next part (`NextPart`, which follows `bind`, `skip`, `operator|`
  and `look_ahead` as well);
* `Rooted`: the outermost is the task's parser, called where the text starts;
* `WordsFound`: what each returned at its cursor (`PartShown`: a letter, the letters
  that follow, the word or its refusal, the end of a reserved one) and what a
  suspended one has found (`WordFound`). The lexeme around it passes white space,
  which is `Shown` of `AllFound`.

Since all that runs is known, nothing but the two `bind`s calls a function and none
throws. What the parsers of a reserved name find is said of any string
(`NameShown`, `KeywordShown`): it stands at the cursor with no letter behind it, or
they fail. For a name that is a word `ReservedIsWord` then ties the two ways to find
it together: the name and no letter behind it, which is how `reserved` looks for it,
and the longest run of letters, which is how `identifier` does.

### The argument for errors

`ErrorsTyped` is inductive and weak: vectors are vectors. All else is about the
operators. `SearchSplits` and `WalkSorts` take `std::lower_bound` and
`std::set_union` through vectors of every length; `AddMessageSays`,
`SetMessagesSays` and `MergeSays` then say that each operation does to the set of
an error's messages what `MessageSets` does, sorted or not, and keeps a sorted
vector sorted. `ReportIgnoresOrder` needs more than that a merge is associative:
errors that say nothing are transparent, wherever they point. `Gathers(e, S)`
therefore says what merging the errors `S` in any order must come to: the furthest
position that one of them says anything of, with all that is said there. It holds
of any bracketing (`MergeGathers`) and determines the result (`GathersUnique`), and
`format` prints by sets alone (`FormatOfSet`).

`DisorderHidden` answers finding 1: `merge`'s precondition is broken by the
library's own errors, and no report can ever show it.

### The argument for `lazy`

The properties speak of threads that parse, but what makes them true happens
inside `call_once`; the inductive invariant `LazyInv` adds that at most one thread
is inside, while the flag says running, and what the shared fields hold at each
point there. Every step is then one of `OnceCell` or a stutter.

### Induction over data

The library's induction theorems take the predicate as an operator, which no
installed prover can instantiate. `NatSetInduction` takes the set of the numbers
that satisfy it instead, and is proved from a least counterexample; recursive
functions exist and are unique by `RecursionExists` and `RecursionUnique`, proved
in the same way. Inductions over two vectors go by the sum of their lengths.

What proving asked of the model, and where it was right to ask:

* `update_pos_string` and `set_union` were `CASE`s whose guards overlapped, which is
  a choice between the arms and not their order. They are `IF`s, as in C++.
* `lower_bound`'s search was a function also of ranges beyond the vector's end, on
  which its recursion leaves its domain; its domain is now the ranges inside. The
  recursive functions take one pair, since the prover knows functions of one
  argument only.
* `label`'s filter of messages is a recursive function in place of a library
  operator with a lambda, and `set_messages` says what a sorted vector is instead
  of using a library operator that sorts.

### Only model-checked

Termination and `EveryCallReturns`: liveness. The laws of `parser_laws`: they
relate the ends of two whole parses, and an invariant for them would have to pair
the stacks of two different programs at every step. Numbers,
literals and spacing of `TokenProperties`, and all of `ExprProperties`: their
references are sums or sets of texts, defined with library folds or recursive
operators, and they speak of one grammar's whole execution. `format`'s agreement with
a set of texts is proved, that `SetToSortSeq` sorts them is the library's.

## 6. Not modelled

* `operator<<`, the punctuation of `format`, `print_json` and what the examples'
  `main` reads and prints: wording and I/O. The examples' arithmetic: values spell
  their grouping instead.
* `parse_or_throw`, which throws `run_parser`'s error as a `parse_exception`, and a
  client's own position function for `token_prim`, of which nothing is known.
* `State::source_name`, which no parser reads, and `case_sensitive`.
* Rounding: a `double` is the decimal it was read from. Overflow of a line or
  column number.
* A producer that re-enters its own lazy parser (undefined in the standard) and a
  default-constructed `Parser`, whose call dereferences null. Exhaustion of the
  C++ stack by deep or left-recursive grammars.
* The `std::invalid_argument` of `TokenParser`'s constructor: languages with one
  comment marker of two (`Constructible`) make no parser.

## 7. Plan

1. Lemmas about the operators of `parser_laws`' two sides where one step suffices
   (`merge` with an unknown error is the other; `Together` on `MessageSets`
   associative for errors that say something).
2. `LiteralEndsAtItsQuote` in the way of `WordRun`: which parsers run for a literal,
   and what `many` of quoted characters has decoded. Its reference has to become a
   recursive function first.
