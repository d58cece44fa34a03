------------------------------ MODULE WordProofs ------------------------------
(***************************************************************************)
(* identifier, operator_, reserved and reserved_op take the word they say, *)
(* for every language, text and table of reserved words.                   *)
(*                                                                         *)
(* A run for a word only ever runs the parsers that token.hpp makes of the *)
(* language, so the invariant names them all.  It says of each what it     *)
(* returns and of its suspended frame what that has found, on top of what  *)
(* is known of white space.                                                *)
(***************************************************************************)
EXTENDS WhiteSpaceProofs, WordTokens

(* The client's functions include the lambdas of token.hpp: the two behind a *)
(* word, and the one that drops a value.                                    *)
WordFunctions ==
  /\ \A k, v : k.fn \in {"word_letters", "word"} =>
                 UserContinuation(k, v) = TokenContinuation(k, v)
  /\ \A f, v : f.fn = "unit" => (UserThrows(f, v) <=> TokenThrows(f, v))

-----------------------------------------------------------------------------
(* The parsers that a word is made of.                                      *)
OneLetter(n) == n \in DOMAIN Accepts

IsKey(g)  == g.kind \in {"reserved", "reserved_op"}
First(g)  == Start(g.lang, g.kind)
Others(g) == Letter(g.lang, g.kind)
Taken(g)  == Table(g.lang, g.kind)

Word(g)    == make_word(First(g), Others(g), Taken(g))
Letters(g) == many(Others(g))
Rest(g, v) == bind(Letters(g), [fn |-> "word", head |-> v, reserved |-> Taken(g)])

IsRest(g, n) == n.op = "bind" /\ n.k.fn = "word" /\ n = Rest(g, n.k.head)

Ahead(g)   == look_ahead(Others(g))
Ends(g)    == not_followed_by(Others(g))
Whole(g)   == then(string_(g.name), Ends(g))
Dropped(g) == map(try_parse(Whole(g)), [fn |-> "unit"])
Keyword(g) == make_reserved_word(g.name, Others(g))

Root(g) == lexeme(g.lang, IF IsKey(g) THEN Keyword(g) ELSE Word(g))

(* All that runs for one, its root apart.                                   *)
OfWord(g, n) ==
  \/ OneLetter(n)
  \/ n.op \in {"pure", "fail"}
  \/ n \in {Word(g), Letters(g)}
  \/ IsRest(g, n)

OfKeyword(g, n) ==
  \/ OneLetter(n)
  \/ n \in {tokens(g.name), string_(g.name)}
  \/ n \in {Ahead(g), try_parse(Ahead(g)), Ends(g),
            Whole(g), try_parse(Whole(g)), Dropped(g), Keyword(g)}

OfSpace(l, n) ==
  \/ One(n) \/ Loop(n) \/ OneAndLoop(n)
  \/ Scans(n) /\ n.f.fn = "unit"
  \/ IsText(n) /\ IsString(TextIn(n))
  \/ TextAndLoop(n) /\ IsString(TextIn(n.p))
  \/ DropsRest(n) /\ IsString(TextIn(n.p.p)) /\ n.f.fn = "unit"
  \/ n \in {Gap(l), white_space(l)}
  \/ l.comment_start # << >> /\ n \in {Comment(l), InComment(l)}

Runs(g, n) ==
  \/ n = Root(g)
  \/ OfSpace(g.lang, n)
  \/ IF IsKey(g) THEN OfKeyword(g, n) ELSE OfWord(g, n)

(* The part that a suspended parser waits for, also of those that PartOf    *)
(* does not follow.                                                         *)
AlsoFollowed == {"bind", "skip", "alt", "look_ahead"}

NextPart(f) ==
  IF f.node.op = "bind" /\ f.phase = "second" THEN continue(f.node.k, f.sofar.val)
  ELSE IF f.node.op \in {"skip", "alt"} /\ f.phase = "second" THEN f.node.q
  ELSE PartOf(f)

-----------------------------------------------------------------------------
(* What such a parser does at i.                                            *)
LetterShown(text, n, i, r) ==
  OneLetter(n) => /\ TookIf(HasAt(text, Accepts[n], i), i + 1, r)
                  /\ r.ok => r.val = << text[i + 1] >>

LettersShown(text, g, n, i, r) ==
  LET j == StretchEnd(text, Accepts[Others(g)], i)
  IN  n = Letters(g) => r.ok /\ r.st.index = j /\ r.val = SubSeq(text, i + 1, j)

ConstantShown(n, i, r) ==
  /\ n.op = "pure" => r.ok /\ r.st.index = i /\ r.val = n.value
  /\ n.op = "fail" => ~r.ok

RestShown(text, g, n, i, r) ==
  IsRest(g, n) =>
    LET j    == StretchEnd(text, Accepts[Others(g)], i)
        word == n.k.head \o SubSeq(text, i + 1, j)
    IN  IF word \in Taken(g) THEN ~r.ok
        ELSE r.ok /\ r.st.index = j /\ r.val = word

WordShown(text, g, n, i, r) ==
  n = Word(g) =>
    LET j    == StretchEnd(text, Accepts[Others(g)], i + 1)
        word == SubSeq(text, i + 1, j)
    IN  IF HasAt(text, Accepts[First(g)], i) /\ word \notin Taken(g)
        THEN r.ok /\ r.st.index = j /\ r.val = word
        ELSE ~r.ok

AheadShown(text, g, n, i, r) ==
  n \in {Ahead(g), try_parse(Ahead(g))} => (r.ok <=> HasAt(text, Accepts[Others(g)], i))

EndsShown(text, g, n, i, r) ==
  n = Ends(g) => IF HasAt(text, Accepts[Others(g)], i) THEN ~r.ok
                 ELSE r.ok /\ r.st.index = i

(* The name, which may be any string, also the empty one.                   *)
NameAt(text, g, i) ==
  i + Len(g.name) <= Len(text) /\ SubSeq(text, i + 1, i + Len(g.name)) = g.name

NameShown(text, g, n, i, r) ==
  n \in {tokens(g.name), string_(g.name)} =>
    IF NameAt(text, g, i) THEN r.ok /\ r.st.index = i + Len(g.name) ELSE ~r.ok

EndsBehind(text, g, i) ==
  NameAt(text, g, i) /\ ~HasAt(text, Accepts[Others(g)], i + Len(g.name))

KeywordShown(text, g, n, i, r) ==
  /\ n \in {Whole(g), try_parse(Whole(g)), Dropped(g), Keyword(g)} =>
       IF EndsBehind(text, g, i) THEN r.ok /\ r.st.index = i + Len(g.name) ELSE ~r.ok
  /\ n \in {try_parse(Whole(g)), Dropped(g), Keyword(g)} /\ ~r.ok => ~r.consumed

PartShown(text, g, n, i, r) ==
  /\ LetterShown(text, n, i, r)
  /\ ConstantShown(n, i, r)
  /\ LettersShown(text, g, n, i, r)
  /\ RestShown(text, g, n, i, r)
  /\ WordShown(text, g, n, i, r)
  /\ IsKey(g) => AheadShown(text, g, n, i, r) /\ EndsShown(text, g, n, i, r)
                 /\ NameShown(text, g, n, i, r) /\ KeywordShown(text, g, n, i, r)

(* The lexeme passes the white space behind what its part took.             *)
LexemeFrom(text, g, i, q, r) ==
  /\ PartShown(text, g, Root(g).p, i, q)
  /\ ~q.ok => ~r.ok /\ r.consumed = q.consumed
  /\ q.ok => LET next == NextToken(text, g.lang)[q.st.index]
             IN  IF next = Unclosed(text) THEN ~r.ok
                 ELSE r.ok /\ r.st.index = next /\ r.val = q.val

LexemeShown(text, g, n, i, r) == n = Root(g) => \E q : LexemeFrom(text, g, i, q, r)

(* What a suspended one has found.                                          *)
WordFound(text, g, f) ==
  LET i    == f.entry.index
      here == f.sofar.st.index
  IN  /\ f.node.op \in {"bind", "then", "skip"} /\ f.phase = "second" =>
           PartShown(text, g, f.node.p, i, f.sofar)
      /\ f.node.op = "alt" /\ OneLetter(f.node) /\ f.phase = "second" =>
           ~HasAt(text, Accepts[f.node.p], i)
      /\ f.node = Letters(g) => /\ here \in i..Len(text)
                                /\ \A k \in i..(here - 1) : HasAt(text, Accepts[Others(g)], k)
                                /\ f.sofar.val = SubSeq(text, i + 1, here)

-----------------------------------------------------------------------------
(* The invariant.                                                           *)
Linked ==
  /\ Runs(goal, node)
  /\ \A k \in 1..Len(stack) :
       /\ Runs(goal, stack[k].node)
       /\ stack[k].node.op \in AlsoFollowed => RunsFor(k) = NextPart(stack[k])

Rooted == IF stack = << >> THEN node = Root(goal) /\ st = Initial
          ELSE stack[1].node = Root(goal) /\ stack[1].entry = Initial

WordsFound ==
  /\ \A k \in 1..Len(stack) : WordFound(input, goal, stack[k])
  /\ mode = "return" => /\ PartShown(input, goal, node, st.index, res)
                        /\ LexemeShown(input, goal, node, st.index, res)

IsNamed(g) == IsKey(g) => g.name \in Seq(Nat)

WordGoal ==
  /\ {First(goal), Others(goal)} \subseteq DOMAIN Accepts
  /\ IsNamed(goal)
  /\ goal.kind \in WordKinds

WordRun == WordGoal /\ SpaceRun /\ mode # "threw" /\ Linked /\ Rooted /\ WordsFound

-----------------------------------------------------------------------------
(* What those parsers are made of.                                          *)
LEMMA LetterShapes ==
  ASSUME NEW n, OneLetter(n)
  PROVE  \/ n.op = "token_prim" /\ Accepts[n] = n.accepts
         \/ n.op = "label" /\ OneLetter(n.p) /\ Accepts[n] = Accepts[n.p]
         \/ n.op = "alt" /\ OneLetter(n.p) /\ OneLetter(n.q)
            /\ Accepts[n] = Accepts[n.p] \cup Accepts[n.q]
BY AcceptsAssumption DEF OneLetter

LEMMA WordShapes ==
  ASSUME NEW g
  PROVE  /\ Word(g).op = "bind" /\ Word(g).p = First(g)
         /\ Word(g).k.fn = "word_letters" /\ Word(g).k.letters = Others(g)
         /\ Word(g).k.reserved = Taken(g)
         /\ Letters(g).op = "many_accum" /\ Letters(g).p = Others(g)
         /\ Letters(g).keep /\ Letters(g).acc = << >>
<1> DEFINE k == [fn |-> "word_letters", letters |-> Others(g), reserved |-> Taken(g)]
<1>1. k.fn = "word_letters" /\ k.letters = Others(g) /\ k.reserved = Taken(g)
  OBVIOUS
<1>2. Word(g) = bind(First(g), k)
  BY DEF Word, make_word
<1> HIDE DEF k
<1>3. Word(g).op = "bind" /\ Word(g).p = First(g) /\ Word(g).k = k
  BY <1>2 DEF bind
<1>4. /\ Letters(g).op = "many_accum" /\ Letters(g).p = Others(g)
      /\ Letters(g).keep /\ Letters(g).acc = << >>
  BY DEF Letters, many, many_accum
<1> QED
  BY <1>1, <1>3, <1>4

LEMMA RestShape ==
  ASSUME NEW g, NEW v
  PROVE  /\ Rest(g, v).op = "bind" /\ Rest(g, v).p = Letters(g)
         /\ Rest(g, v).k.fn = "word" /\ Rest(g, v).k.head = v
         /\ Rest(g, v).k.reserved = Taken(g)
         /\ IsRest(g, Rest(g, v))
<1> DEFINE k == [fn |-> "word", head |-> v, reserved |-> Taken(g)]
<1>1. k.fn = "word" /\ k.head = v /\ k.reserved = Taken(g)
  OBVIOUS
<1>2. Rest(g, v) = bind(Letters(g), k)
  BY DEF Rest
<1> HIDE DEF k
<1>3. Rest(g, v).op = "bind" /\ Rest(g, v).p = Letters(g) /\ Rest(g, v).k = k
  BY <1>2 DEF bind
<1> QED
  BY <1>1, <1>3 DEF IsRest

LEMMA KeywordShapes ==
  ASSUME NEW g
  PROVE  /\ Ahead(g).op = "look_ahead" /\ Ahead(g).p = Others(g)
         /\ try_parse(Ahead(g)).op = "try_parse" /\ try_parse(Ahead(g)).p = Ahead(g)
         /\ Ends(g).op = "not_followed_by" /\ Ends(g).p = Others(g)
         /\ Whole(g).op = "then" /\ Whole(g).p = string_(g.name) /\ Whole(g).q = Ends(g)
         /\ try_parse(Whole(g)).op = "try_parse" /\ try_parse(Whole(g)).p = Whole(g)
         /\ Dropped(g).op = "map" /\ Dropped(g).p = try_parse(Whole(g))
         /\ Dropped(g).f.fn = "unit"
         /\ Keyword(g).op = "label" /\ Keyword(g).p = Dropped(g)
         /\ tokens(g.name).op = "tokens" /\ tokens(g.name).str = g.name
         /\ string_(g.name).op = "label" /\ string_(g.name).p = tokens(g.name)
<1>1. Whole(g).op = "then" /\ Whole(g).p = string_(g.name) /\ Whole(g).q = Ends(g)
  BY DEF Whole, then
<1>2. \A p : try_parse(p).op = "try_parse" /\ try_parse(p).p = p
  BY DEF try_parse
<1>3. /\ Dropped(g).op = "map" /\ Dropped(g).p = try_parse(Whole(g))
      /\ Dropped(g).f.fn = "unit"
  <2> DEFINE f == [fn |-> "unit"]
  <2>1. f.fn = "unit" /\ Dropped(g) = map(try_parse(Whole(g)), f)
    BY DEF Dropped
  <2> HIDE DEF f
  <2> QED
    BY <2>1 DEF map
<1>4. Ahead(g).op = "look_ahead" /\ Ahead(g).p = Others(g)
  BY DEF Ahead, look_ahead
<1>5. Ends(g).op = "not_followed_by" /\ Ends(g).p = Others(g)
  BY DEF Ends, not_followed_by
<1>6. Keyword(g).op = "label" /\ Keyword(g).p = Dropped(g)
  BY DEF Keyword, make_reserved_word, Dropped, Whole, Ends, label
<1>7. /\ tokens(g.name).op = "tokens" /\ tokens(g.name).str = g.name
      /\ string_(g.name).op = "label" /\ string_(g.name).p = tokens(g.name)
  BY DEF tokens, string_, label
<1> QED
  BY <1>1, <1>2, <1>3, <1>4, <1>5, <1>6, <1>7

LEMMA RootShape ==
  ASSUME NEW g
  PROVE  /\ Root(g).op = "skip" /\ Root(g).q = white_space(g.lang)
         /\ Root(g).p = IF IsKey(g) THEN Keyword(g) ELSE Word(g)
BY DEF Root, lexeme, skip

LEMMA WordOps ==
  ASSUME NEW g
  PROVE  /\ Word(g).op = "bind" /\ \A v : Rest(g, v).op = "bind"
         /\ Letters(g).op = "many_accum" /\ Ahead(g).op = "look_ahead"
         /\ try_parse(Ahead(g)).op = "try_parse" /\ Ends(g).op = "not_followed_by"
         /\ Whole(g).op = "then" /\ try_parse(Whole(g)).op = "try_parse"
         /\ Dropped(g).op = "map" /\ Keyword(g).op = "label" /\ Root(g).op = "skip"
         /\ tokens(g.name).op = "tokens" /\ string_(g.name).op = "label"
<1>1. /\ Word(g).op = "bind" /\ \A v : Rest(g, v).op = "bind"
      /\ Letters(g).op = "many_accum"
  BY WordShapes, RestShape
<1>2. /\ Ahead(g).op = "look_ahead"
      /\ try_parse(Ahead(g)).op = "try_parse" /\ Ends(g).op = "not_followed_by"
      /\ Whole(g).op = "then" /\ try_parse(Whole(g)).op = "try_parse"
      /\ Dropped(g).op = "map" /\ Keyword(g).op = "label"
      /\ tokens(g.name).op = "tokens" /\ string_(g.name).op = "label"
  BY KeywordShapes
<1> QED
  BY <1>1, <1>2, RootShape

(* Each combinator is used for few of them.                                 *)
LEMMA RunsShapes ==
  ASSUME NEW g, NEW n, Runs(g, n), IsLanguage(g.lang), IsNamed(g)
  PROVE  /\ n.op \in Followed \cup AlsoFollowed
                     \cup {"token_prim", "tokens", "pure", "fail"}
         /\ n.op = "map" => n.f.fn = "unit"
         /\ n.op = "tokens" => n.str \in Seq(Nat)
         /\ n.op = "comment_rest" => n = InComment(g.lang) /\ g.lang.comment_start # << >>
         /\ n.op = "alt" => OneLetter(n)
         /\ n.op = "skip" => n = Root(g)
         /\ n.op = "bind" => ~IsKey(g) /\ (n = Word(g) \/ IsRest(g, n))
         /\ n.op = "look_ahead" => IsKey(g) /\ n = Ahead(g)
         /\ n.op = "not_followed_by" => IsKey(g) /\ n = Ends(g)
         /\ n.op = "choice" => n = Gap(g.lang)
<1> DEFINE l == g.lang
           Goal == /\ n.op \in Followed \cup AlsoFollowed
                               \cup {"token_prim", "tokens", "pure", "fail"}
                   /\ n.op = "map" => n.f.fn = "unit"
                   /\ n.op = "tokens" => n.str \in Seq(Nat)
                   /\ n.op = "comment_rest" => n = InComment(g.lang)
                                               /\ g.lang.comment_start # << >>
                   /\ n.op = "alt" => OneLetter(n)
                   /\ n.op = "skip" => n = Root(g)
                   /\ n.op = "bind" => ~IsKey(g) /\ (n = Word(g) \/ IsRest(g, n))
                   /\ n.op = "look_ahead" => IsKey(g) /\ n = Ahead(g)
                   /\ n.op = "not_followed_by" => IsKey(g) /\ n = Ends(g)
                   /\ n.op = "choice" => n = Gap(g.lang)
<1> SUFFICES Goal
  OBVIOUS
<1>1. ASSUME n.op \in {"token_prim", "label", "many_accum", "then", "try_parse", "pure",
                       "fail"}
      PROVE  Goal
  BY <1>1 DEF Followed
<1>2. CASE n = Root(g)
  BY <1>2, WordOps DEF AlsoFollowed
<1>3. CASE OneLetter(n)
  BY <1>3, <1>1, LetterShapes DEF AlsoFollowed
<1>4. ASSUME IsText(n), IsString(TextIn(n)) PROVE Goal
  <2>1. n.op = "tokens" => n.str \in Seq(Nat)
    BY <1>4 DEF TextIn, IsString
  <2> QED
    BY <1>4, <2>1 DEF IsText, Followed
<1>5. CASE OfSpace(l, n)
  <2>1. CASE One(n) \/ Loop(n) \/ OneAndLoop(n) \/ TextAndLoop(n)
    BY <1>1, <2>1 DEF One, Loop, OneAndLoop, TextAndLoop
  <2>2. CASE n.op = "map" /\ n.f.fn = "unit"
    BY <2>2 DEF Followed
  <2>3. CASE n = Gap(l)
    <3>1. n.op \in {"label", "choice"}
      BY <2>3, GapOp
    <3> QED
      BY <1>1, <2>3, <3>1 DEF Followed
  <2>4. CASE n = white_space(l)
    BY <1>1, <2>4, SpaceShapes
  <2>5. CASE l.comment_start # << >> /\ n = Comment(l)
    BY <1>1, <2>5, CommentShapes
  <2>6. CASE l.comment_start # << >> /\ n = InComment(l)
    <3>1. n.op = "comment_rest"
      BY <2>6, CommentShapes
    <3> QED
      BY <2>6, <3>1 DEF Followed
  <2> QED
    BY <1>4, <1>5, <2>1, <2>2, <2>3, <2>4, <2>5, <2>6 DEF OfSpace, Scans, DropsRest
<1>6. CASE ~IsKey(g) /\ OfWord(g, n)
  <2>1. CASE n = Word(g) \/ IsRest(g, n)
    <3>1. n.op = "bind"
      BY <2>1, WordOps DEF IsRest
    <3> QED
      BY <1>6, <2>1, <3>1 DEF AlsoFollowed
  <2>2. CASE n = Letters(g)
    <3>1. n.op = "many_accum"
      BY <2>2, WordOps
    <3> QED
      BY <1>1, <3>1
  <2> QED
    BY <1>1, <1>3, <1>6, <2>1, <2>2 DEF OfWord
<1>7. CASE IsKey(g) /\ OfKeyword(g, n)
  <2>1. CASE n = Ahead(g)
    <3>1. n.op = "look_ahead"
      BY <2>1, WordOps
    <3> QED
      BY <1>7, <2>1, <3>1 DEF AlsoFollowed
  <2>2. CASE n = Ends(g)
    <3>1. n.op = "not_followed_by"
      BY <2>2, WordOps
    <3> QED
      BY <1>7, <2>2, <3>1 DEF Followed
  <2>3. CASE n = Dropped(g)
    <3>1. n.op = "map" /\ n.f.fn = "unit"
      BY <2>3, KeywordShapes
    <3> QED
      BY <3>1 DEF Followed
  <2>4. CASE n \in {try_parse(Ahead(g)), Whole(g), try_parse(Whole(g)), Keyword(g)}
    <3>1. n.op \in {"try_parse", "then", "label"}
      BY <2>4, WordOps
    <3> QED
      BY <1>1, <3>1
  <2>5. CASE n = tokens(g.name) \/ n = string_(g.name)
    <3>1. n.op = "label" \/ (n.op = "tokens" /\ n.str = g.name)
      BY <2>5, KeywordShapes
    <3> QED
      BY <1>1, <1>7, <3>1 DEF IsNamed
  <2> QED
    BY <1>3, <1>7, <2>1, <2>2, <2>3, <2>4, <2>5 DEF OfKeyword
<1> QED
  BY <1>2, <1>5, <1>6, <1>7 DEF Runs

LEMMA UnitShapes ==
  /\ \A p : skip_many1(p).f.fn = "unit"
  /\ \A s : line_comment(s).f.fn = "unit"
  /\ \A l : InComment(l).scan_non_markers.f.fn = "unit"
<1>1. ASSUME NEW p PROVE map(p, [fn |-> "unit"]).f.fn = "unit"
  <2> DEFINE f == [fn |-> "unit"]
  <2>1. f.fn = "unit"
    OBVIOUS
  <2> HIDE DEF f
  <2>2. map(p, f).f = f
    BY DEF map
  <2> QED
    BY <2>1, <2>2 DEF f
<1>2. ASSUME NEW p PROVE skip_many1(p).f.fn = "unit"
  BY <1>1 DEF skip_many1
<1>3. ASSUME NEW s PROVE line_comment(s).f.fn = "unit"
  BY <1>1 DEF line_comment
<1>4. ASSUME NEW l PROVE InComment(l).scan_non_markers.f.fn = "unit"
  <2>1. InComment(l).scan_non_markers = skip_many1(none_of(Marks(l)))
    BY DEF InComment, comment_rest, Marks
  <2> QED
    BY <1>2, <2>1
<1> QED
  BY <1>2, <1>3, <1>4

LEMMA SpaceParts ==
  ASSUME NEW l, IsLanguage(l), NEW f, OfSpace(l, f.node), f.node.op \in Followed,
         f.node.op = "choice" => f.i \in 1..Len(f.node.ps),
         f.node.op = "comment_rest" => f.phase \in {"first", "start", "skip", "marker"}
  PROVE  OfSpace(l, PartOf(f))
<1> DEFINE n == f.node
           part == PartOf(f)
<1>1. /\ n.op \in {"map", "label", "try_parse", "many_accum"} => part = n.p
      /\ n.op = "then" => part \in {n.p, n.q}
      /\ n.op = "choice" => part = n.ps[f.i]
  BY DEF PartOf, FirstPart
<1> HIDE DEF part
<1> SUFFICES OfSpace(l, part)
  BY DEF part
<1>2. /\ l.comment_start \in Seq(Nat) /\ l.comment_end \in Seq(Nat)
      /\ l.comment_line \in Seq(Nat)
      /\ l.comment_start # << >> => l.comment_end # << >>
  BY DEF IsLanguage, Constructible
<1>3. CASE One(n)
  BY <1>1, <1>3 DEF One, Followed, OfSpace
<1>4. CASE Loop(n) \/ OneAndLoop(n) \/ Scans(n)
  BY <1>1, <1>4 DEF Loop, OneAndLoop, Scans, OfSpace
<1>5. CASE IsText(n) /\ IsString(TextIn(n))
  <2>1. CASE n.op = "label"
    <3>1. part = n.p /\ IsText(n.p) /\ TextIn(n.p) = TextIn(n)
      BY <1>1, <1>5, <2>1 DEF IsText, TextIn
    <3> QED
      BY <1>5, <3>1 DEF OfSpace
  <2>2. CASE n.op = "try_parse"
    <3>1. part = n.p /\ IsText(n.p) /\ TextIn(n.p) = TextIn(n)
      BY <1>1, <1>5, <2>2 DEF IsText, TextIn
    <3> QED
      BY <1>5, <3>1 DEF OfSpace
  <2> QED
    BY <1>5, <2>1, <2>2 DEF IsText, Followed
<1>6. CASE TextAndLoop(n) /\ IsString(TextIn(n.p))
  BY <1>1, <1>6 DEF TextAndLoop, OfSpace
<1>7. CASE DropsRest(n) /\ IsString(TextIn(n.p.p))
  BY <1>1, <1>7 DEF DropsRest, OfSpace
<1>8. CASE n = white_space(l)
  BY <1>1, <1>8, SpaceShapes DEF OfSpace
<1>9. CASE n = Gap(l)
  <2>1. CASE Plain(l)
    BY <1>3, <1>9, <2>1, SpaceShapes, CharShapes
  <2>2. CASE ~Plain(l)
    <3>1. /\ part = Gap(l).ps[f.i] /\ f.i \in 1..Len(Gap(l).ps)
      BY <1>1, <1>9, <2>2, SpaceShapes
    <3>2. \/ part = skip_many1(space)
          \/ l.comment_line # << >> /\ part = line_comment(l.comment_line)
          \/ l.comment_start # << >> /\ part = Comment(l)
      <4>1. /\ Len(Gap(l).ps) \in {2, 3} /\ Gap(l).ps[1] = skip_many1(space)
            /\ l.comment_line # << >> => Gap(l).ps[2] = line_comment(l.comment_line)
            /\ l.comment_start # << >> => Gap(l).ps[Len(Gap(l).ps)] = Comment(l)
            /\ Len(Gap(l).ps) = 3 <=> l.comment_line # << >> /\ l.comment_start # << >>
        BY <2>2, SpaceShapes
      <4>2. l.comment_line # << >> \/ l.comment_start # << >>
        BY <2>2 DEF Plain
      <4>3. f.i \in {1, 2, 3} /\ f.i <= Len(Gap(l).ps)
        BY <3>1, <4>1
      <4> QED
        BY <3>1, <4>1, <4>2, <4>3
    <3>3. CASE part = skip_many1(space)
      <4>1. Scans(part) /\ part.f.fn = "unit"
        BY <3>3, CharShapes, LoopShapes, UnitShapes
      <4> QED
        BY <4>1 DEF OfSpace
    <3>4. CASE l.comment_line # << >> /\ part = line_comment(l.comment_line)
      <4>1. DropsRest(part) /\ TextIn(part.p.p) = l.comment_line /\ part.f.fn = "unit"
        BY <3>4, LineShape, UnitShapes
      <4> QED
        BY <1>2, <3>4, <4>1 DEF OfSpace, IsString
    <3>5. CASE l.comment_start # << >> /\ part = Comment(l)
      BY <3>5 DEF OfSpace
    <3> QED
      BY <3>2, <3>3, <3>4, <3>5
  <2> QED
    BY <2>1, <2>2
<1>10. CASE l.comment_start # << >> /\ n = Comment(l)
  <2>1. /\ n.op = "then" /\ IsText(n.p) /\ TextIn(n.p) = l.comment_start
        /\ n.q = InComment(l)
    BY <1>10, CommentShapes
  <2>2. part = n.p \/ part = InComment(l)
    BY <1>1, <2>1
  <2> QED
    BY <1>2, <1>10, <2>1, <2>2 DEF OfSpace, IsString
<1>11. CASE l.comment_start # << >> /\ n = InComment(l)
  <2>1. /\ n.op = "comment_rest"
        /\ IsText(n.start_p) /\ TextIn(n.start_p) = l.comment_start
        /\ IsText(n.end_p) /\ TextIn(n.end_p) = l.comment_end
        /\ Scans(n.scan_non_markers) /\ One(n.scan_one_marker)
        /\ n.scan_non_markers.f.fn = "unit"
    BY <1>11, CommentShapes, UnitShapes
  <2>2. part \in {n.start_p, n.end_p, n.scan_non_markers, n.scan_one_marker}
    BY <2>1 DEF part, PartOf, FirstPart
  <2> QED
    BY <1>2, <1>11, <2>1, <2>2 DEF OfSpace, IsString
<1> QED
  BY <1>3, <1>4, <1>5, <1>6, <1>7, <1>8, <1>9, <1>10, <1>11 DEF OfSpace

(* What the two lambdas behind a word go on with.                           *)
LEMMA WordContinues ==
  ASSUME WordFunctions, NEW g, NEW v
  PROVE  /\ continue(Word(g).k, v) = Rest(g, v)
         /\ \A n : IsRest(g, n) =>
              LET word == n.k.head \o v
              IN  continue(n.k, v) = IF word \in Taken(g) THEN fail(TextReserved \o n.k.head \o v)
                                     ELSE pure(word)
<1>1. ASSUME NEW k, k.fn \in {"word_letters", "word"}
      PROVE  continue(k, v) = WordContinuation(k, v)
  <2>1. k.fn # "many_accum" /\ k.fn # "sep_rest" /\ k.fn # "pair"
    BY <1>1
  <2>2. continue(k, v) = UserContinuation(k, v)
    BY <2>1, Zenon DEF continue
  <2> QED
    BY <1>1, <2>2 DEF WordFunctions, TokenContinuation
<1>2. continue(Word(g).k, v) = Rest(g, v)
  <2> DEFINE k == Word(g).k
  <2>1. k.fn = "word_letters" /\ k.letters = Others(g) /\ k.reserved = Taken(g)
    BY WordShapes
  <2> HIDE DEF k
  <2>2. WordContinuation(k, v) =
          bind(many(k.letters), [fn |-> "word", head |-> v, reserved |-> k.reserved])
    BY <2>1 DEF WordContinuation
  <2>3. continue(k, v) = Rest(g, v)
    BY <1>1, <2>1, <2>2 DEF Rest, Letters
  <2> QED
    BY <2>3 DEF k
<1>3. ASSUME NEW n, IsRest(g, n)
      PROVE  continue(n.k, v) = IF n.k.head \o v \in Taken(g)
                                THEN fail(TextReserved \o n.k.head \o v)
                                ELSE pure(n.k.head \o v)
  <2>1. n.k.fn = "word" /\ n.k.reserved = Taken(g)
    BY <1>3, RestShape DEF IsRest
  <2> DEFINE k == n.k
  <2>2. k.fn # "word_letters" /\ k.fn = "word" /\ k.reserved = Taken(g)
    BY <2>1
  <2> HIDE DEF k
  <2>3. WordContinuation(k, v) = IF k.head \o v \in k.reserved
                                 THEN fail(TextReserved \o k.head \o v)
                                 ELSE pure(k.head \o v)
    BY <2>2, Zenon DEF WordContinuation
  <2>4. continue(k, v) = IF k.head \o v \in Taken(g)
                         THEN fail(TextReserved \o k.head \o v)
                         ELSE pure(k.head \o v)
    BY <1>1, <2>2, <2>3
  <2> QED
    BY <2>4 DEF k
<1> QED
  BY <1>2, <1>3

LEMMA NextPartIs ==
  ASSUME NEW f
  PROVE  /\ f.node.op \in {"bind", "skip", "alt"} /\ f.phase # "second" =>
              NextPart(f) = f.node.p
         /\ f.node.op = "bind" /\ f.phase = "second" =>
              NextPart(f) = continue(f.node.k, f.sofar.val)
         /\ f.node.op \in {"skip", "alt"} /\ f.phase = "second" => NextPart(f) = f.node.q
         /\ f.node.op \in {"map", "label", "try_parse", "many_accum", "look_ahead"} =>
              NextPart(f) = f.node.p
         /\ f.node.op = "then" =>
              NextPart(f) = IF f.phase = "second" THEN f.node.q ELSE f.node.p
         /\ f.node.op = "not_followed_by" =>
              NextPart(f) = try_parse(look_ahead(f.node.p))
         /\ f.node.op \in Followed => NextPart(f) = PartOf(f)
BY DEF NextPart, PartOf, FirstPart, Followed

LEMMA CommentOps ==
  ASSUME NEW l
  PROVE  Comment(l).op = "then" /\ InComment(l).op = "comment_rest"
BY CommentShapes

(* Nothing else runs.                                                       *)
LEMMA WordParts ==
  ASSUME WordFunctions, NEW g, OneLetter(First(g)), OneLetter(Others(g)),
         IsLanguage(g.lang),
         NEW f, Runs(g, f.node), f.node.op \in Followed \cup AlsoFollowed,
         f.node.op = "choice" => f.i \in 1..Len(f.node.ps),
         f.node.op = "comment_rest" => f.phase \in {"first", "start", "skip", "marker"}
  PROVE  Runs(g, NextPart(f))
<1> DEFINE n == f.node
           part == NextPart(f)
<1>1. /\ n.op \in {"bind", "skip", "alt"} /\ f.phase # "second" => part = n.p
      /\ n.op = "bind" /\ f.phase = "second" => part = continue(n.k, f.sofar.val)
      /\ n.op \in {"skip", "alt"} /\ f.phase = "second" => part = n.q
      /\ n.op \in {"map", "label", "try_parse", "many_accum", "look_ahead"} => part = n.p
      /\ n.op = "then" => part \in {n.p, n.q}
      /\ n.op = "not_followed_by" => part = try_parse(look_ahead(n.p))
      /\ n.op \in Followed => part = PartOf(f)
  BY NextPartIs
<1> HIDE DEF part
<1> SUFFICES Runs(g, part)
  BY DEF part
<1>2. CASE OneLetter(n)
  <2>1. OneLetter(part)
    BY <1>1, <1>2, LetterShapes DEF Followed, AlsoFollowed
  <2> QED
    BY <2>1 DEF Runs, OfWord, OfKeyword
<1>3. CASE OfSpace(g.lang, n)
  <2>1. n.op \in Followed
    <3>1. One(n) \/ Loop(n) \/ OneAndLoop(n) \/ Scans(n) \/ IsText(n) \/ TextAndLoop(n)
          \/ DropsRest(n) => n.op \notin AlsoFollowed
      BY DEF One, Loop, OneAndLoop, Scans, IsText, TextAndLoop, DropsRest, AlsoFollowed
    <3>2. CASE n = Gap(g.lang)
      <4>1. n.op \in {"label", "choice"}
        BY <3>2, GapOp
      <4> QED
        BY <4>1 DEF Followed
    <3>3. CASE n = white_space(g.lang)
      BY <3>3, SpaceShapes DEF Followed
    <3>4. CASE n = Comment(g.lang) \/ n = InComment(g.lang)
      <4>1. n.op \in {"then", "comment_rest"}
        BY <3>4, CommentOps
      <4> QED
        BY <4>1 DEF Followed
    <3> QED
      BY <1>3, <3>1, <3>2, <3>3, <3>4 DEF OfSpace
  <2>2. OfSpace(g.lang, part)
    BY <1>1, <1>3, <2>1, SpaceParts
  <2> QED
    BY <2>2 DEF Runs
<1>4. CASE n = Root(g)
  <2>1. n.op = "skip" /\ n.q = white_space(g.lang)
        /\ n.p = IF IsKey(g) THEN Keyword(g) ELSE Word(g)
    BY <1>4, RootShape
  <2>2. part \in {n.p, n.q}
    BY <1>1, <2>1
  <2> QED
    BY <2>1, <2>2 DEF Runs, OfSpace, OfWord, OfKeyword
<1>5. CASE ~IsKey(g) /\ OfWord(g, n)
  <2>1. n.op \notin {"pure", "fail"}
    BY DEF Followed, AlsoFollowed
  <2>2. CASE n = Word(g)
    <3>1. n.op = "bind" /\ n.p = First(g)
      BY <2>2, WordShapes
    <3>2. part = First(g) \/ part = Rest(g, f.sofar.val)
      BY <1>1, <2>2, <3>1, WordContinues
    <3>3. IsRest(g, Rest(g, f.sofar.val))
      BY RestShape
    <3> QED
      BY <1>5, <3>2, <3>3 DEF Runs, OfWord
  <2>3. CASE n = Letters(g)
    <3>1. n.op = "many_accum" /\ n.p = Others(g)
      BY <2>3, WordShapes
    <3> QED
      BY <1>1, <1>5, <3>1 DEF Runs, OfWord
  <2>4. CASE IsRest(g, n)
    <3>1. n.op = "bind" /\ n.p = Letters(g)
      BY <2>4, RestShape DEF IsRest
    <3>2. \A w : fail(w).op = "fail" /\ pure(w).op = "pure"
      BY DEF fail, pure
    <3>3. continue(n.k, f.sofar.val).op \in {"pure", "fail"}
      <4> DEFINE v == f.sofar.val
      <4>1. continue(n.k, v) = IF n.k.head \o v \in Taken(g)
                               THEN fail(TextReserved \o n.k.head \o v)
                               ELSE pure(n.k.head \o v)
        BY <2>4, WordContinues
      <4> QED
        BY <3>2, <4>1
    <3>4. part = Letters(g) \/ part.op \in {"pure", "fail"}
      BY <1>1, <3>1, <3>3
    <3> QED
      BY <1>5, <3>4 DEF Runs, OfWord
  <2> QED
    BY <1>2, <1>5, <2>1, <2>2, <2>3, <2>4 DEF OfWord
<1>6. CASE IsKey(g) /\ OfKeyword(g, n)
  <2>1. CASE n = tokens(g.name) \/ n = string_(g.name)
    <3>1. n.op = "label" /\ n.p = tokens(g.name)
      BY <2>1, KeywordShapes DEF Followed, AlsoFollowed
    <3> QED
      BY <1>1, <1>6, <3>1 DEF Runs, OfKeyword
  <2>2. CASE n = Ahead(g)
    <3>1. part = Others(g)
      BY <1>1, <2>2, KeywordShapes
    <3> QED
      BY <1>6, <3>1 DEF Runs, OfKeyword
  <2>3. CASE n = try_parse(Ahead(g))
    <3>1. part = Ahead(g)
      BY <1>1, <2>3, KeywordShapes
    <3> QED
      BY <1>6, <3>1 DEF Runs, OfKeyword
  <2>4. CASE n = Ends(g)
    <3>1. part = try_parse(Ahead(g))
      BY <1>1, <2>4, KeywordShapes DEF Ahead
    <3> QED
      BY <1>6, <3>1 DEF Runs, OfKeyword
  <2>5. CASE n = Whole(g)
    <3>1. part = string_(g.name) \/ part = Ends(g)
      BY <1>1, <2>5, KeywordShapes
    <3> QED
      BY <1>6, <3>1 DEF Runs, OfKeyword
  <2>6. CASE n = try_parse(Whole(g))
    <3>1. part = Whole(g)
      BY <1>1, <2>6, KeywordShapes
    <3> QED
      BY <1>6, <3>1 DEF Runs, OfKeyword
  <2>7. CASE n = Dropped(g)
    <3>1. part = try_parse(Whole(g))
      BY <1>1, <2>7, KeywordShapes
    <3> QED
      BY <1>6, <3>1 DEF Runs, OfKeyword
  <2>8. CASE n = Keyword(g)
    <3>1. part = Dropped(g)
      BY <1>1, <2>8, KeywordShapes
    <3> QED
      BY <1>6, <3>1 DEF Runs, OfKeyword
  <2> QED
    BY <1>2, <1>6, <2>1, <2>2, <2>3, <2>4, <2>5, <2>6, <2>7, <2>8 DEF OfKeyword
<1> QED
  BY <1>3, <1>4, <1>5, <1>6 DEF Runs

-----------------------------------------------------------------------------
(* Which of them runs, and for whom.                                        *)

(* A caller returns, or goes on with its next part.                         *)
LEMMA CallerGoes ==
  ASSUME SpaceRun, ReturnToCaller, mode = "return", stack # << >>,
         Top.node.op \in Followed \cup AlsoFollowed
  PROVE  \/ Throw /\ Top.node.op = "map" /\ UserThrows(Top.node.f, res.val)
         \/ \E r : Finish(r)
         \/ \E f, part, s :
              /\ Resume(f, part, s) /\ f.node = Top.node /\ f.entry = Top.entry
              /\ Top.node.op \in AlsoFollowed => part = NextPart(f)
<1> DEFINE Goal == \/ Throw /\ Top.node.op = "map" /\ UserThrows(Top.node.f, res.val)
                   \/ \E r : Finish(r)
                   \/ \E f, part, s :
                        /\ Resume(f, part, s) /\ f.node = Top.node /\ f.entry = Top.entry
                        /\ Top.node.op \in AlsoFollowed => part = NextPart(f)
<1> SUFFICES Goal
  OBVIOUS
<1>1. DOMAIN Top = {"node", "entry", "phase", "i", "sofar", "held"}
      /\ Top.sofar.ok /\ DOMAIN Top.sofar = {"ok", "consumed", "val", "st", "err"}
  BY SpaceCaller DEF FrameOK, IsOk
<1>2. ASSUME NEW r, Finish(r) PROVE Goal
  BY <1>2
<1>3. ASSUME NEW f, NEW part, NEW s, Resume(f, part, s), f.node = Top.node,
             f.entry = Top.entry, Top.node.op \in AlsoFollowed => part = NextPart(f)
      PROVE  Goal
  BY <1>3
<1> HIDE DEF Goal
<1>4. ASSUME NEW second, SequenceOn(second),
             \/ Top.node.op = "then"
             \/ Top.node.op = "bind" /\ second = continue(Top.node.k, res.val)
             \/ Top.node.op = "skip" /\ second = Top.node.q
      PROVE  Goal
  <2> DEFINE f == [Top EXCEPT !.phase = "second", !.sofar = res]
  <2>1. f.node = Top.node /\ f.entry = Top.entry /\ f.phase = "second" /\ f.sofar = res
    BY <1>1
  <2> HIDE DEF f
  <2>2. Top.node.op \in AlsoFollowed => second = NextPart(f)
    BY <1>4, <2>1 DEF NextPart, AlsoFollowed
  <2>3. ASSUME Resume(f, second, res.st) PROVE Goal
    BY <1>3, <2>1, <2>2, <2>3
  <2> QED
    BY <1>2, <1>4, <2>3 DEF SequenceOn, f
<1>5. ASSUME NEW v, SequenceEnd(v) PROVE Goal
  BY <1>2, <1>5 DEF SequenceEnd
<1>6. CASE ReturnToBind
  BY <1>4, <1>5, <1>6 DEF ReturnToBind, ReturningTo
<1>7. CASE ReturnToThen
  BY <1>4, <1>5, <1>7 DEF ReturnToThen, ReturningTo
<1>8. CASE ReturnToSkip
  BY <1>4, <1>5, <1>8 DEF ReturnToSkip, ReturningTo
<1>9. CASE ReturnToMap
  <2>1. ~(Throw /\ Top.node.op = "map" /\ UserThrows(Top.node.f, res.val)) => \E r : Finish(r)
    BY <1>9 DEF ReturnToMap, ReturningTo, Throws
  <2> QED
    BY <2>1 DEF Goal
<1>10. CASE ReturnToLabel \/ ReturnToTryParse \/ ReturnToLookAhead \/ ReturnToNotFollowedBy
  BY <1>2, <1>10 DEF ReturnToLabel, ReturnToTryParse, ReturnToLookAhead,
     ReturnToNotFollowedBy
<1>11. CASE ReturnToAlt
  <2>1. ASSUME NEW e, Resume([Top EXCEPT !.phase = "second", !.sofar.err = e],
                             Top.node.q, Top.entry)
        PROVE  Goal
    <3> DEFINE f == [Top EXCEPT !.phase = "second", !.sofar.err = e]
    <3>1. f.node = Top.node /\ f.entry = Top.entry /\ f.phase = "second"
      BY <1>1
    <3> HIDE DEF f
    <3>2. Top.node.q = NextPart(f)
      BY <1>11, <3>1 DEF NextPart, ReturnToAlt, ReturningTo
    <3> QED
      BY <1>3, <2>1, <3>1, <3>2 DEF f
  <2> QED
    BY <1>2, <1>11, <2>1 DEF ReturnToAlt
<1>12. CASE ReturnToManyAccum
  <2>1. Top.node.op \notin AlsoFollowed
    BY <1>12 DEF ReturnToManyAccum, ReturningTo, AlsoFollowed
  <2>2. ASSUME NEW g, NEW s, Resume([Top EXCEPT !.sofar = g], Top.node.p, s) PROVE Goal
    <3> DEFINE f == [Top EXCEPT !.sofar = g]
    <3>1. f.node = Top.node /\ f.entry = Top.entry
      BY <1>1
    <3> HIDE DEF f
    <3> QED
      BY <1>3, <2>1, <2>2, <3>1 DEF f
  <2> QED
    BY <1>2, <1>12, <2>2 DEF ReturnToManyAccum
<1>13. CASE ReturnToChoice
  <2>1. Top.node.op \notin AlsoFollowed
    BY <1>13 DEF ReturnToChoice, ReturningTo, AlsoFollowed
  <2>2. ASSUME NEW i, NEW e, NEW part, NEW s,
               Resume([Top EXCEPT !.i = i, !.sofar.err = e], part, s)
        PROVE  Goal
    <3> DEFINE f == [Top EXCEPT !.i = i, !.sofar.err = e]
    <3>1. f.node = Top.node /\ f.entry = Top.entry
      BY <1>1
    <3> HIDE DEF f
    <3> QED
      BY <1>3, <2>1, <2>2, <3>1 DEF f
  <2> QED
    BY <1>2, <1>13, <2>2 DEF ReturnToChoice
<1>14. CASE ReturnToCommentRest
  <2>1. Top.node.op \notin AlsoFollowed
    BY <1>14 DEF ReturnToCommentRest, ReturningTo, AlsoFollowed
  <2>2. ASSUME NEW phase, NEW part, NEW s, Resume([Top EXCEPT !.phase = phase], part, s)
        PROVE  Goal
    <3> DEFINE f == [Top EXCEPT !.phase = phase]
    <3>1. f.node = Top.node /\ f.entry = Top.entry
      BY <1>1
    <3> HIDE DEF f
    <3> QED
      BY <1>3, <2>1, <2>2, <3>1 DEF f
  <2>3. ASSUME NEW i, NEW g, NEW part, NEW s,
               Resume([Top EXCEPT !.phase = "first", !.i = i, !.sofar = g], part, s)
        PROVE  Goal
    <3> DEFINE f == [Top EXCEPT !.phase = "first", !.i = i, !.sofar = g]
    <3>1. f.node = Top.node /\ f.entry = Top.entry
      BY <1>1
    <3> HIDE DEF f
    <3> QED
      BY <1>3, <2>1, <2>3, <3>1 DEF f
  <2>4. ASSUME NEW phase, NEW part, ScanOn(phase, part) PROVE Goal
    BY <2>2, <2>4 DEF ScanOn
  <2>5. SkipInComment => Goal
    BY <1>2, <2>4 DEF SkipInComment
  <2> QED
    BY <1>2, <1>14, <2>3, <2>4, <2>5 DEF ReturnToCommentRest
<1>15. ~(\/ ReturnToCount \/ ReturnToSepEndBy1 \/ ReturnToChainl1 \/ ReturnToScanOpChain
         \/ ReturnToManyTill)
  BY DEF ReturnToCount, ReturnToSepEndBy1, ReturnToChainl1, ReturnToScanOpChain,
     ReturnToManyTill, ReturningTo, Followed, AlsoFollowed
<1> QED
  BY <1>6, <1>7, <1>8, <1>9, <1>10, <1>11, <1>12, <1>13, <1>14, <1>15 DEF ReturnToCaller

(* The part that a suspended parser waits for is one of them.               *)
LEMMA WordGoes ==
  ASSUME WordFunctions, WordGoal, IsLanguage(lang),
         NEW f, Runs(goal, f.node), f.node.op \in Followed \cup AlsoFollowed,
         f.node.op = "choice" /\ f.node = Gap(lang) => f.i \in 1..Len(f.node.ps),
         f.node.op = "comment_rest" /\ lang.comment_start # << >> /\ f.node = InComment(lang)
           => f.phase \in {"first", "start", "skip", "marker"}
  PROVE  Runs(goal, NextPart(f)) /\ NextPart(f).op # "lazy"
<1>1. /\ f.node.op = "choice" => f.node = Gap(lang)
      /\ f.node.op = "comment_rest" =>
           lang.comment_start # << >> /\ f.node = InComment(lang)
  BY RunsShapes DEF WordGoal, lang
<1>2. OneLetter(First(goal)) /\ OneLetter(Others(goal))
  BY DEF WordGoal, OneLetter
<1>3. Runs(goal, NextPart(f))
  BY <1>1, <1>2, WordParts DEF lang
<1>4. NextPart(f).op # "lazy"
  BY <1>3, RunsShapes DEF WordGoal, lang, Followed, AlsoFollowed
<1> QED
  BY <1>3, <1>4

LEMMA WordCalls ==
  ASSUME WordFunctions, WordRun, CallComposite, UNCHANGED goal
  PROVE  Linked' /\ Rooted' /\ mode' # "threw"
<1> DEFINE f == NewFrame(node, st)
<1>1. /\ Len(stack') = Len(stack) + 1 /\ Len(stack) \in Nat
      /\ \A k \in 1..Len(stack) : stack'[k] = stack[k]
      /\ stack'[Len(stack) + 1] = f
  BY Shapes DEF WordRun, SpaceRun
<1>2. node' = FirstPart(node) /\ mode' = "call" /\ node.op \in Composite
      /\ stack' = Append(stack, f)
  BY DEF CallComposite
<1>3. f.node = node /\ f.phase = "first" /\ f.i = 1 /\ f.entry = st
  BY DEF NewFrame
<1> HIDE DEF f
<1>4. Runs(goal, node) /\ IsLanguage(lang) /\ IsNamed(goal)
  BY DEF WordRun, WordGoal, Linked, SpaceRun
<1>5. node.op \in Followed \cup AlsoFollowed
  BY <1>2, <1>4, RunsShapes DEF Composite, lang
<1>6. NextPart(f) = FirstPart(node)
  BY <1>3, <1>5 DEF NextPart, PartOf, FirstPart
<1>7. Runs(goal, FirstPart(node))
  <2>1. f.node.op = "choice" /\ f.node = Gap(lang) => f.i \in 1..Len(f.node.ps)
    <3>1. space.op = "label"
      BY CharShapes
    <3>2. f.node.op = "choice" /\ f.node = Gap(lang) => Len(f.node.ps) \in {2, 3}
      BY <3>1, SpaceShapes
    <3>3. \A n \in {2, 3} : 1 \in 1..n
      OBVIOUS
    <3> QED
      BY <1>3, <3>2, <3>3, Zenon
  <2> QED
    BY <1>3, <1>4, <1>5, <1>6, <2>1, WordGoes DEF WordRun
<1>8. ASSUME NEW k \in 1..Len(stack')
      PROVE  /\ Runs(goal, stack'[k].node)
             /\ stack'[k].node.op \in AlsoFollowed => RunsFor(k)' = NextPart(stack'[k])
  <2>1. CASE k = Len(stack')
    <3>1. stack'[k] = f /\ RunsFor(k)' = FirstPart(node)
      BY <1>1, <1>2, <2>1 DEF RunsFor
    <3> QED
      BY <1>3, <1>4, <1>6, <3>1
  <2>2. CASE k # Len(stack')
    <3>1. k \in 1..Len(stack)
      BY <1>1, <2>2
    <3>2. RunsFor(k)' = stack'[k + 1].node
      BY <2>2 DEF RunsFor
    <3>3. RunsFor(k)' = RunsFor(k)
      <4>1. CASE k = Len(stack)
        BY <1>1, <1>3, <3>2, <4>1 DEF RunsFor
      <4>2. CASE k # Len(stack)
        <5>1. k + 1 \in 1..Len(stack)
          BY <1>1, <3>1, <4>2
        <5> QED
          BY <1>1, <3>2, <4>2, <5>1 DEF RunsFor
      <4> QED
        BY <4>1, <4>2
    <3> QED
      BY <1>1, <3>1, <3>3 DEF WordRun, Linked
  <2> QED
    BY <2>1, <2>2
<1>9. Linked'
  BY <1>2, <1>7, <1>8 DEF Linked
<1>10. Rooted'
  <2>1. stack' # << >>
    BY <1>1, <1>2, EmptySeq
  <2>2. CASE stack = << >>
    <3>1. stack'[1] = f
      BY <1>1, <2>2, EmptySeq
    <3> QED
      BY <1>3, <2>1, <2>2, <3>1 DEF WordRun, Rooted
  <2>3. CASE stack # << >>
    <3>1. 1 \in 1..Len(stack)
      BY <2>3, Shapes DEF WordRun, SpaceRun
    <3> QED
      BY <1>1, <2>1, <2>3, <3>1 DEF WordRun, Rooted
  <2> QED
    BY <2>2, <2>3
<1> QED
  BY <1>2, <1>9, <1>10

LEMMA WordResumes ==
  ASSUME WordFunctions, WordRun, SpaceRun', stack # << >>, UNCHANGED goal,
         NEW f, NEW part, NEW s, Resume(f, part, s),
         f.node = Top.node, f.entry = Top.entry,
         Top.node.op \in Followed \cup AlsoFollowed,
         Top.node.op \in AlsoFollowed => part = NextPart(f)
  PROVE  Linked' /\ Rooted' /\ mode' # "threw"
<1>1. /\ Len(stack') = Len(stack) /\ Len(stack) \in Nat \ {0}
      /\ \A k \in 1..(Len(stack) - 1) : stack'[k] = stack[k]
      /\ stack'[Len(stack)] = f /\ Top = stack[Len(stack)]
  BY Shapes DEF WordRun, SpaceRun
<1>2. node' = part /\ mode' = "call" /\ input' = input /\ lang' = lang
  BY DEF Resume, lang
<1>3. Found(input, lang, f) /\ WaitsFor(f, part)
  <2>1. Len(stack) \in 1..Len(stack') /\ RunsFor(Len(stack))' = part
    BY <1>1, <1>2 DEF RunsFor
  <2> QED
    BY <1>1, <1>2, <2>1 DEF SpaceRun, AllFound, Tracks, FrameFollowed
<1>4. Runs(goal, Top.node) /\ IsLanguage(lang)
  BY <1>1 DEF WordRun, Linked, SpaceRun
<1>5. Runs(goal, NextPart(f)) /\ NextPart(f).op # "lazy"
  BY <1>3, <1>4, WordGoes DEF Found, CommentFound, WordRun
<1>6. part = NextPart(f)
  <2>1. Top.node.op \in Followed => NextPart(f) = PartOf(f)
    BY NextPartIs
  <2> QED
    BY <1>3, <1>5, <2>1 DEF WaitsFor
<1>7. ASSUME NEW k \in 1..Len(stack')
      PROVE  /\ Runs(goal, stack'[k].node)
             /\ stack'[k].node.op \in AlsoFollowed => RunsFor(k)' = NextPart(stack'[k])
  <2>1. CASE k = Len(stack)
    BY <1>1, <1>2, <1>4, <1>6, <2>1 DEF RunsFor
  <2>2. CASE k # Len(stack)
    <3>1. k \in 1..(Len(stack) - 1) /\ k \in 1..Len(stack) /\ k + 1 \in 1..Len(stack)
      BY <1>1, <2>2
    <3>2. stack'[k] = stack[k] /\ stack'[k + 1].node = stack[k + 1].node
      BY <1>1, <3>1
    <3>3. RunsFor(k)' = RunsFor(k)
      BY <1>1, <2>2, <3>2 DEF RunsFor
    <3> QED
      BY <3>1, <3>2, <3>3 DEF WordRun, Linked
  <2> QED
    BY <2>1, <2>2
<1>8. Linked'
  BY <1>2, <1>5, <1>6, <1>7 DEF Linked
<1>9. Rooted'
  <2>1. stack' # << >>
    BY <1>1, EmptySeq
  <2>2. stack'[1].node = stack[1].node /\ stack'[1].entry = stack[1].entry
    BY <1>1
  <2> QED
    BY <2>1, <2>2 DEF WordRun, Rooted
<1> QED
  BY <1>2, <1>8, <1>9

LEMMA WordFinishes ==
  ASSUME WordRun, stack # << >>, UNCHANGED goal, NEW r, Finish(r)
  PROVE  Linked' /\ Rooted' /\ mode' # "threw"
<1>1. /\ Len(stack') = Len(stack) - 1 /\ Len(stack) \in Nat \ {0}
      /\ \A k \in 1..(Len(stack) - 1) : stack'[k] = stack[k]
      /\ Top = stack[Len(stack)]
  BY Shapes DEF WordRun, SpaceRun
<1>2. node' = Top.node /\ st' = Top.entry /\ mode' = mode
  BY DEF Finish
<1>3. Runs(goal, Top.node)
  BY <1>1 DEF WordRun, Linked
<1>4. ASSUME NEW k \in 1..Len(stack')
      PROVE  /\ Runs(goal, stack'[k].node)
             /\ stack'[k].node.op \in AlsoFollowed => RunsFor(k)' = NextPart(stack'[k])
  <2>1. k \in 1..(Len(stack) - 1) /\ k \in 1..Len(stack) /\ k # Len(stack)
    BY <1>1
  <2>2. RunsFor(k)' = RunsFor(k)
    <3>1. CASE k = Len(stack')
      <4>1. k + 1 = Len(stack)
        BY <1>1, <3>1
      <4> QED
        BY <1>1, <1>2, <2>1, <3>1, <4>1 DEF RunsFor
    <3>2. CASE k # Len(stack')
      <4>1. k + 1 \in 1..(Len(stack) - 1)
        BY <1>1, <2>1, <3>2
      <4> QED
        BY <1>1, <2>1, <3>2, <4>1 DEF RunsFor
    <3> QED
      BY <3>1, <3>2
  <2> QED
    BY <1>1, <2>1, <2>2 DEF WordRun, Linked
<1>5. Linked'
  BY <1>2, <1>3, <1>4 DEF Linked
<1>6. Rooted'
  <2>1. CASE stack' = << >>
    <3>1. Len(stack) = 1
      BY <1>1, <2>1, EmptySeq
    <3> QED
      BY <1>1, <1>2, <2>1, <3>1 DEF WordRun, Rooted
  <2>2. CASE stack' # << >>
    <3>1. Len(stack') # 0
      <4>1. stack' = Below /\ Consumption(FALSE)
        BY DEF Finish, WordRun, SpaceRun
      <4>2. PICK S : stack \in Seq(S)
        BY <4>1 DEF Consumption, FramesOK
      <4>3. PICK T : Below \in Seq(T)
        BY <4>1, FramesPop DEF Consumption, FramesOK, Below
      <4> QED
        BY <2>2, <4>1, <4>3, EmptySeq
    <3>2. 1 \in 1..(Len(stack) - 1)
      BY <1>1, <3>1
    <3> QED
      BY <1>1, <2>2, <3>2 DEF WordRun, Rooted
  <2> QED
    BY <2>1, <2>2
<1> QED
  BY <1>2, <1>5, <1>6 DEF WordRun

LEMMA WordReturns ==
  ASSUME WordRun, UNCHANGED goal, UNCHANGED << stack, node, st >>, mode' # "threw"
  PROVE  Linked' /\ Rooted' /\ mode' # "threw"
<1>1. \A k \in 1..Len(stack) : RunsFor(k)' = RunsFor(k)
  BY DEF RunsFor
<1> QED
  BY <1>1 DEF WordRun, Linked, Rooted

-----------------------------------------------------------------------------
(* What one step does to what they have found.                              *)
LEMMA NoteResume ==
  ASSUME WordRun, UNCHANGED goal, stack # << >>,
         NEW f, NEW part, NEW s, Resume(f, part, s), WordFound(input, goal, f)
  PROVE  WordsFound'
<1>1. /\ Len(stack') = Len(stack) /\ Len(stack) \in Nat \ {0}
      /\ \A k \in 1..(Len(stack) - 1) : stack'[k] = stack[k]
      /\ stack'[Len(stack)] = f
  BY Shapes DEF WordRun, SpaceRun
<1>2. mode' = "call" /\ input' = input
  BY DEF Resume
<1>3. ASSUME NEW k \in 1..Len(stack') PROVE WordFound(input, goal, stack'[k])
  <2>1. (k = Len(stack) \/ k \in 1..(Len(stack) - 1)) /\ k \in 1..Len(stack)
    BY <1>1
  <2> QED
    BY <1>1, <2>1 DEF WordRun, WordsFound
<1> QED
  BY <1>2, <1>3 DEF WordsFound

LEMMA NoteFinish ==
  ASSUME WordRun, UNCHANGED goal, stack # << >>, NEW r, Finish(r),
         PartShown(input, goal, Top.node, Top.entry.index, r),
         LexemeShown(input, goal, Top.node, Top.entry.index, r)
  PROVE  WordsFound'
<1>1. /\ Len(stack') = Len(stack) - 1 /\ Len(stack) \in Nat \ {0}
      /\ \A k \in 1..(Len(stack) - 1) : stack'[k] = stack[k]
  BY Shapes DEF WordRun, SpaceRun
<1>2. node' = Top.node /\ st' = Top.entry /\ res' = r /\ input' = input
  BY DEF Finish
<1>3. ASSUME NEW k \in 1..Len(stack') PROVE WordFound(input, goal, stack'[k])
  <2>1. k \in 1..Len(stack) /\ k \in 1..(Len(stack) - 1)
    BY <1>1
  <2> QED
    BY <1>1, <2>1 DEF WordRun, WordsFound
<1> QED
  BY <1>2, <1>3 DEF WordsFound

LEMMA NoteReturn ==
  ASSUME WordRun, UNCHANGED goal, NEW r, Return(r),
         PartShown(input, goal, node, st.index, r),
         LexemeShown(input, goal, node, st.index, r)
  PROVE  WordsFound'
<1>1. stack' = stack /\ node' = node /\ st' = st /\ res' = r /\ input' = input
  BY DEF Return
<1> QED
  BY <1>1 DEF WordRun, WordsFound

(* Each combinator has its own to show.                                     *)
LEMMA ShownByOp ==
  ASSUME NEW text, NEW g, NEW n, NEW i, NEW r,
         n.op \in {"token_prim", "label", "alt"} => LetterShown(text, n, i, r),
         n.op \in {"pure", "fail"} => ConstantShown(n, i, r),
         n.op = "many_accum" => LettersShown(text, g, n, i, r),
         n.op = "bind" => RestShown(text, g, n, i, r) /\ WordShown(text, g, n, i, r),
         IsKey(g) /\ n.op \in {"look_ahead", "try_parse"} => AheadShown(text, g, n, i, r),
         IsKey(g) /\ n.op = "not_followed_by" => EndsShown(text, g, n, i, r),
         IsKey(g) /\ n.op \in {"tokens", "label"} => NameShown(text, g, n, i, r),
         IsKey(g) /\ n.op \in {"then", "try_parse", "map", "label"} =>
           KeywordShown(text, g, n, i, r),
         n.op = "skip" => LexemeShown(text, g, n, i, r)
  PROVE  PartShown(text, g, n, i, r) /\ LexemeShown(text, g, n, i, r)
<1>1. LetterShown(text, n, i, r)
  <2>1. OneLetter(n) => n.op \in {"token_prim", "label", "alt"}
    BY LetterShapes
  <2> QED
    BY <2>1 DEF LetterShown
<1>2. ConstantShown(n, i, r)
  BY DEF ConstantShown
<1>3. LettersShown(text, g, n, i, r) /\ WordShown(text, g, n, i, r)
      /\ RestShown(text, g, n, i, r)
  <2>1. Letters(g).op = "many_accum" /\ Word(g).op = "bind"
    BY WordOps
  <2> QED
    BY <2>1 DEF LettersShown, WordShown, RestShown, IsRest
<1>4. IsKey(g) => AheadShown(text, g, n, i, r)
  <2>1. Ahead(g).op = "look_ahead" /\ try_parse(Ahead(g)).op = "try_parse"
    BY WordOps
  <2> QED
    BY <2>1 DEF AheadShown
<1>5. IsKey(g) => EndsShown(text, g, n, i, r)
  <2>1. Ends(g).op = "not_followed_by"
    BY WordOps
  <2> QED
    BY <2>1 DEF EndsShown
<1>6. IsKey(g) => KeywordShown(text, g, n, i, r)
  <2>1. n \in {Whole(g), try_parse(Whole(g)), Dropped(g), Keyword(g)} =>
          n.op \in {"then", "try_parse", "map", "label"}
    BY WordOps
  <2> QED
    BY <2>1 DEF KeywordShown
<1>7. LexemeShown(text, g, n, i, r)
  <2>1. Root(g).op = "skip"
    BY WordOps
  <2> QED
    BY <2>1 DEF LexemeShown
<1>8. IsKey(g) => NameShown(text, g, n, i, r)
  <2>1. n \in {tokens(g.name), string_(g.name)} => n.op \in {"tokens", "label"}
    BY WordOps
  <2> QED
    BY <2>1 DEF NameShown
<1> QED
  BY <1>1, <1>2, <1>3, <1>4, <1>5, <1>6, <1>7, <1>8 DEF PartShown

LEMMA FoundByOp ==
  ASSUME NEW text, NEW g, NEW f, f.node.op \notin {"bind", "then", "skip", "alt", "many_accum"}
  PROVE  WordFound(text, g, f)
<1>1. Letters(g).op = "many_accum"
  BY WordOps
<1> QED
  BY <1>1 DEF WordFound

(* A caller, and the part of it that returned.                              *)
LEMMA WordCaller ==
  ASSUME WordFunctions, WordRun, mode = "return", stack # << >>,
         Top.node.op \in Followed \cup AlsoFollowed
  PROVE  /\ node = NextPart(Top) /\ Runs(goal, Top.node)
         /\ PartShown(input, goal, node, st.index, res)
         /\ Shown(input, lang, node, st.index, res)
         /\ Found(input, lang, Top) /\ WordFound(input, goal, Top)
         /\ FrameOK(FALSE, input, Top) /\ Top.sofar.ok
         /\ IsOk(FALSE, input, res) \/ IsErr(res)
         /\ st = Top.sofar.st
         /\ Top.node.op \in Stays \/ (Top.phase = "first" /\ Top.node.op \notin Repeats) =>
              st = Top.entry
<1>1. /\ Found(input, lang, Top) /\ Shown(input, lang, node, st.index, res)
      /\ WaitsFor(Top, node) /\ st = CalledOn(Top) /\ FrameOK(FALSE, input, Top)
      /\ IsOk(FALSE, input, res) \/ IsErr(res)
  BY SpaceCaller DEF WordRun
<1>2. Len(stack) \in 1..Len(stack) /\ Top = stack[Len(stack)]
  BY Shapes DEF WordRun, SpaceRun
<1>3. RunsFor(Len(stack)) = node
  BY DEF RunsFor
<1>4. /\ Runs(goal, Top.node)
      /\ Top.node.op \in AlsoFollowed => node = NextPart(Top)
      /\ WordFound(input, goal, Top) /\ PartShown(input, goal, node, st.index, res)
  BY <1>2, <1>3 DEF WordRun, Linked, WordsFound
<1>5. node = NextPart(Top)
  <2>1. NextPart(Top).op # "lazy"
    BY <1>1, <1>4, WordGoes DEF WordRun, SpaceRun, Found, CommentFound
  <2>2. Top.node.op \in Followed => NextPart(Top) = PartOf(Top)
    BY NextPartIs
  <2> QED
    BY <1>1, <1>4, <2>1, <2>2 DEF WaitsFor
<1>6. st = Top.sofar.st /\ Top.sofar.ok
  BY <1>1 DEF CalledOn, FrameOK, ItemLoops, Followed, AlsoFollowed, IsOk
<1>7. Top.node.op \in Stays \/ (Top.phase = "first" /\ Top.node.op \notin Repeats) =>
         st = Top.entry
  BY <1>1, <1>6 DEF FrameOK, AtEntry
<1> QED
  BY <1>1, <1>4, <1>5, <1>6, <1>7

-----------------------------------------------------------------------------
(* One letter more, and the first letter and the others.                    *)
LEMMA LettersGoOn ==
  ASSUME NEW text \in Seq(Nat), NEW i \in 0..Len(text), NEW j \in i..Len(text)
  PROVE  /\ SubSeq(text, i + 1, i) = << >>
         /\ j < Len(text) =>
              SubSeq(text, i + 1, j) \o << text[j + 1] >> = SubSeq(text, i + 1, j + 1)
         /\ i < j => << text[i + 1] >> \o SubSeq(text, i + 2, j) = SubSeq(text, i + 1, j)
<1>1. Len(text) \in Nat
  BY LenProperties
<1>2. SubSeq(text, i + 1, i) = << >>
  BY <1>1, SubSeqEmpty
<1>3. ASSUME j < Len(text)
      PROVE  SubSeq(text, i + 1, j) \o << text[j + 1] >> = SubSeq(text, i + 1, j + 1)
  <2>1. i + 1 \in 1..Len(text) /\ j + 1 \in (i + 1)..Len(text) /\ (j + 1) - 1 = j
    BY <1>1, <1>3
  <2>2. SubSeq(text, i + 1, j + 1) = SubSeq(text, i + 1, (j + 1) - 1) \o << text[j + 1] >>
    BY <2>1, SubSeqRecursiveSecond, Zenon
  <2> QED
    BY <2>1, <2>2
<1>4. ASSUME i < j
      PROVE  << text[i + 1] >> \o SubSeq(text, i + 2, j) = SubSeq(text, i + 1, j)
  <2>1. i + 1 \in 1..Len(text) /\ j \in (i + 1)..Len(text) /\ (i + 1) + 1 = i + 2
    BY <1>1, <1>4
  <2>2. SubSeq(text, i + 1, j) = << text[i + 1] >> \o SubSeq(text, (i + 1) + 1, j)
    BY <2>1, SubSeqRecursiveFirst, Zenon
  <2> QED
    BY <2>1, <2>2
<1> QED
  BY <1>2, <1>3, <1>4

(* What tokens compares with a name.                                        *)
LEMMA MatchesNames ==
  ASSUME input \in Seq(Nat), NEW g, g.name \in Seq(Nat), NEW i \in 0..Len(input)
  PROVE  Matches(g.name, i) <=> NameAt(input, g, i)
<1>1. Len(input) \in Nat /\ Len(g.name) \in Nat /\ i \in Nat
  BY LenProperties
<1>2. Matches(g.name, i) => i + Len(g.name) <= Len(input)
  BY <1>1, MatchTakes
<1>3. i + Len(g.name) <= Len(input) =>
        SmallerOf(i + Len(g.name), Len(input)) = i + Len(g.name)
  BY DEF SmallerOf
<1> QED
  BY <1>2, <1>3 DEF Matches, substr, NameAt

(* Leaves and calls.                                                        *)
LEMMA WordLeaf ==
  ASSUME WordRun, SpaceRun', CallLeaf, UNCHANGED goal
  PROVE  WordsFound'
<1>1. ASSUME NEW r, Return(r),
             node.op = "token_prim" => LetterShown(input, node, st.index, r),
             node.op \in {"pure", "fail"} => ConstantShown(node, st.index, r),
             IsKey(goal) /\ node.op = "tokens" => NameShown(input, goal, node, st.index, r),
             node.op \in {"pure", "fail", "client_token", "token_prim", "tokens",
                          "take_while", "take_while1"}
      PROVE  WordsFound'
  <2>1. /\ PartShown(input, goal, node, st.index, r)
        /\ LexemeShown(input, goal, node, st.index, r)
    BY <1>1, ShownByOp
  <2> QED
    BY <1>1, <2>1, NoteReturn
<1>2. CASE CallPure
  <2> DEFINE r == Ok(FALSE, node.value, st, unknown(st.pos))
  <2>1. ConstantShown(node, st.index, r) /\ Return(r) /\ node.op = "pure"
    BY <1>2 DEF ConstantShown, Ok, CallPure, Calling
  <2> HIDE DEF r
  <2> QED
    BY <1>1, <2>1
<1>3. CASE CallFail
  <2>1. ASSUME NEW e, Return(Err(FALSE, e)) PROVE WordsFound'
    <3>1. ConstantShown(node, st.index, Err(FALSE, e)) /\ node.op = "fail"
      BY <1>3 DEF ConstantShown, Err, CallFail, Calling
    <3> QED
      BY <1>1, <2>1, <3>1
  <2> QED
    BY <1>3, <2>1 DEF CallFail
<1>4. CASE CallTokenPrim
  <2>1. node.op = "token_prim"
    BY <1>4 DEF CallTokenPrim, Calling
  <2>2. ASSUME NEW r, Return(r), r.ok => r.val = << input[st.index + 1] >>
        PROVE  WordsFound'
    <3>1. /\ stack' = stack /\ node' = node /\ st' = st /\ res' = r /\ input' = input
          /\ mode' = "return" /\ lang' = lang
      BY <2>2 DEF Return, lang
    <3>2. CharShown(input, node, st.index, r)
      BY <3>1 DEF SpaceRun, AllFound, Shown
    <3>3. TookIf(HasAt(input, node.accepts, st.index), st.index + 1, r)
      BY <2>1, <3>2 DEF CharShown, One, CharsIn
    <3>4. OneLetter(node) => Accepts[node] = node.accepts
      BY <2>1, LetterShapes
    <3>5. LetterShown(input, node, st.index, r)
      BY <2>2, <3>3, <3>4 DEF LetterShown
    <3> QED
      BY <1>1, <2>1, <2>2, <3>5
  <2>3. \A e : ~Err(FALSE, e).ok
    BY DEF Err
  <2>4. \A v, s, e : Ok(TRUE, v, s, e).val = v
    BY DEF Ok
  <2> QED
    BY <1>4, <2>2, <2>3, <2>4 DEF CallTokenPrim
<1>5. CASE CallClientToken
  BY <1>1, <1>5 DEF CallClientToken, Calling
<1>6. CASE CallTokens
  <2>1. node.op = "tokens"
    BY <1>6 DEF CallTokens, Calling
  <2>2. /\ input \in Seq(Nat) /\ st.index \in 0..Len(input)
        /\ IsKey(goal) => goal.name \in Seq(Nat)
    BY LiveUnfold DEF WordRun, WordGoal, IsNamed, SpaceRun, Consumption, AllPlaced, IsLive,
       Placed
  <2>3. ASSUME IsKey(goal) PROVE Matches(goal.name, st.index) <=> NameAt(input, goal, st.index)
    BY <2>2, <2>3, MatchesNames
  <2>4. tokens(goal.name).str = goal.name /\ string_(goal.name).op = "label"
    BY KeywordShapes
  <2>5. ASSUME NEW v, NEW p, NEW e,
               Return(Ok(TRUE, v, [st EXCEPT !.index = @ + Len(node.str), !.pos = p], e)),
               Matches(node.str, st.index)
        PROVE  WordsFound'
    <3> DEFINE t == [st EXCEPT !.index = @ + Len(node.str), !.pos = p]
               r == Ok(TRUE, v, t, e)
    <3>1. t.index = st.index + Len(node.str)
      BY LiveUnfold DEF WordRun, SpaceRun, AllPlaced, IsLive, Placed, Consumption
    <3>2. r.ok /\ r.st = t
      BY DEF Ok
    <3>3. Return(r)
      BY <2>5
    <3> HIDE DEF r, t
    <3>4. IsKey(goal) => NameShown(input, goal, node, st.index, r)
      BY <2>1, <2>3, <2>4, <2>5, <3>1, <3>2 DEF NameShown
    <3> QED
      BY <1>1, <2>1, <3>3, <3>4
  <2>6. ASSUME NEW e, Return(Err(FALSE, e)), ~Matches(node.str, st.index) PROVE WordsFound'
    <3>1. ~Err(FALSE, e).ok
      BY DEF Err
    <3>2. IsKey(goal) => NameShown(input, goal, node, st.index, Err(FALSE, e))
      BY <2>1, <2>3, <2>4, <2>6, <3>1 DEF NameShown
    <3> QED
      BY <1>1, <2>1, <2>6, <3>2
  <2> QED
    BY <1>6, <2>5, <2>6 DEF CallTokens
<1>7. CASE CallTakeWhile \/ CallTakeWhile1
  BY <1>1, <1>7 DEF CallTakeWhile, CallTakeWhile1, Calling
<1> QED
  BY <1>2, <1>3, <1>4, <1>5, <1>6, <1>7 DEF CallLeaf

LEMMA WordCall ==
  ASSUME WordRun, CallComposite, UNCHANGED goal
  PROVE  WordsFound'
<1> DEFINE f == NewFrame(node, st)
<1>1. /\ Len(stack') = Len(stack) + 1 /\ Len(stack) \in Nat
      /\ \A k \in 1..Len(stack) : stack'[k] = stack[k]
      /\ stack'[Len(stack) + 1] = f
  BY Shapes DEF WordRun, SpaceRun
<1>2. mode' = "call" /\ input' = input
  BY DEF CallComposite
<1>3. /\ f.node = node /\ f.phase = "first" /\ f.entry = st /\ f.sofar.st = st
      /\ f.node.op = "many_accum" => f.sofar.val = f.node.acc
  BY DEF NewFrame, Ok
<1>4. input \in Seq(Nat) /\ st.index \in 0..Len(input) /\ Len(input) \in Nat
  BY LiveUnfold, LenProperties
     DEF WordRun, SpaceRun, Consumption, AllPlaced, IsLive, Placed
<1> HIDE DEF f
<1>5. WordFound(input, goal, f)
  <2>1. Letters(goal).op = "many_accum" /\ Letters(goal).acc = << >>
    BY WordShapes
  <2>2. /\ st.index \in st.index..Len(input)
        /\ \A k \in st.index..(st.index - 1) : FALSE
        /\ SubSeq(input, st.index + 1, st.index) = << >>
    BY <1>4, LettersGoOn
  <2> QED
    BY <1>3, <2>1, <2>2 DEF WordFound
<1>6. ASSUME NEW k \in 1..Len(stack') PROVE WordFound(input, goal, stack'[k])
  <2>1. k \in 1..Len(stack) \/ k = Len(stack) + 1
    BY <1>1
  <2> QED
    BY <1>1, <1>5, <2>1 DEF WordRun, WordsFound
<1> QED
  BY <1>2, <1>6 DEF WordsFound

(* A label, around a letter or around a reserved word.                      *)
LEMMA WordLabel ==
  ASSUME WordFunctions, WordRun, ReturnToLabel, UNCHANGED goal
  PROVE  WordsFound'
<1> DEFINE n == Top.node
           i == Top.entry.index
<1>1. n.op = "label" /\ mode = "return" /\ stack # << >>
  BY DEF ReturnToLabel, ReturningTo
<1>2. PartShown(input, goal, n.p, i, res) /\ (IsOk(FALSE, input, res) \/ IsErr(res))
  <2>1. NextPart(Top) = n.p
    BY <1>1, NextPartIs
  <2> QED
    BY <1>1, <2>1, WordCaller DEF Followed, Stays
<1>3. ASSUME NEW r, r.ok <=> res.ok, res.ok => r = res, ~r.ok /\ r.consumed => res.consumed,
             Finish(r)
      PROVE  WordsFound'
  <2>1. LetterShown(input, n, i, r)
    <3> SUFFICES ASSUME OneLetter(n) PROVE LetterShown(input, n, i, r)
      BY DEF LetterShown
    <3>1. OneLetter(n.p) /\ Accepts[n] = Accepts[n.p]
      BY <1>1, LetterShapes
    <3>2. LetterShown(input, n.p, i, res)
      BY <1>2 DEF PartShown
    <3> QED
      BY <1>3, <3>1, <3>2 DEF LetterShown, TookIf
  <2>2. IsKey(goal) => KeywordShown(input, goal, n, i, r)
    <3>1. n \in {Whole(goal), try_parse(Whole(goal)), Dropped(goal), Keyword(goal)} =>
            n = Keyword(goal) /\ n.p = Dropped(goal)
      BY <1>1, WordOps, KeywordShapes
    <3> QED
      BY <1>2, <1>3, <3>1 DEF PartShown, KeywordShown
  <2>3. IsKey(goal) => NameShown(input, goal, n, i, r)
    <3>1. n \in {tokens(goal.name), string_(goal.name)} => n.p = tokens(goal.name)
      BY <1>1, WordOps, KeywordShapes
    <3> QED
      BY <1>2, <1>3, <3>1 DEF PartShown, NameShown
  <2> QED
    BY <1>1, <1>3, <2>1, <2>2, <2>3, ShownByOp, NoteFinish
<1>4. ASSUME NEW e, Finish(Err(FALSE, e)), FailedEmpty PROVE WordsFound'
  <2>1. ~Err(FALSE, e).ok /\ ~Err(FALSE, e).consumed
    BY DEF Err
  <2> QED
    BY <1>3, <1>4, <2>1 DEF FailedEmpty
<1>5. Finish(res) => WordsFound'
  BY <1>3
<1> QED
  BY <1>4, <1>5 DEF ReturnToLabel

(* A letter that is one of two.                                             *)
LEMMA WordAlt ==
  ASSUME WordFunctions, WordRun, ReturnToAlt, UNCHANGED goal
  PROVE  WordsFound'
<1> DEFINE n == Top.node
           i == Top.entry.index
<1>1. n.op = "alt" /\ mode = "return" /\ stack # << >>
  BY DEF ReturnToAlt, ReturningTo
<1>2. /\ Runs(goal, n) /\ WordFound(input, goal, Top) /\ FrameOK(FALSE, input, Top)
      /\ IsOk(FALSE, input, res) \/ IsErr(res)
      /\ st = Top.entry /\ PartShown(input, goal, node, i, res)
      /\ node = NextPart(Top)
  BY <1>1, WordCaller DEF AlsoFollowed, Stays
<1>3. /\ OneLetter(n) /\ OneLetter(n.p) /\ OneLetter(n.q)
      /\ Accepts[n] = Accepts[n.p] \cup Accepts[n.q]
  BY <1>1, <1>2, RunsShapes, LetterShapes DEF WordRun, WordGoal, SpaceRun, lang
<1>4. HasAt(input, Accepts[n], i) <=> HasAt(input, Accepts[n.p], i)
                                      \/ HasAt(input, Accepts[n.q], i)
  BY <1>3 DEF HasAt
<1>5. LetterShown(input, node, i, res)
  BY <1>2 DEF PartShown
<1>6. ASSUME NEW r, Finish(r), LetterShown(input, n, i, r) PROVE WordsFound'
  BY <1>1, <1>6, ShownByOp, NoteFinish
<1>7. CASE Top.phase = "first"
  <2>1. node = n.p /\ OneLetter(node)
    BY <1>1, <1>2, <1>3, <1>7, NextPartIs
  <2>2. ASSUME ~FailedEmpty, Finish(res) PROVE WordsFound'
    <3>1. LetterShown(input, n, i, res)
      BY <1>4, <1>5, <2>1, <2>2 DEF LetterShown, TookIf, FailedEmpty
    <3> QED
      BY <1>6, <2>2, <3>1
  <2>3. ASSUME FailedEmpty, NEW e, NEW part, NEW s,
               Resume([Top EXCEPT !.phase = "second", !.sofar.err = e], part, s)
        PROVE  WordsFound'
    <3> DEFINE f == [Top EXCEPT !.phase = "second", !.sofar.err = e]
    <3>1. f.node = n /\ f.entry = Top.entry
      BY <1>2 DEF FrameOK
    <3> HIDE DEF f
    <3>2. ~HasAt(input, Accepts[n.p], i)
      BY <1>5, <2>1, <2>3 DEF LetterShown, TookIf, FailedEmpty
    <3>3. Letters(goal).op = "many_accum"
      BY WordOps
    <3>4. WordFound(input, goal, f)
      BY <1>1, <3>1, <3>2, <3>3 DEF WordFound
    <3> QED
      BY <1>1, <2>3, <3>4, NoteResume DEF f
  <2> QED
    BY <1>7, <2>2, <2>3 DEF ReturnToAlt
<1>8. CASE Top.phase = "second"
  <2>1. node = n.q /\ OneLetter(node)
    BY <1>1, <1>2, <1>3, <1>8, NextPartIs
  <2>2. ~HasAt(input, Accepts[n.p], i)
    BY <1>1, <1>2, <1>3, <1>8 DEF WordFound
  <2>3. LetterShown(input, n, i, res)
    <3>1. HasAt(input, Accepts[n], i) <=> HasAt(input, Accepts[node], i)
      BY <1>4, <2>1, <2>2
    <3>2. TookIf(HasAt(input, Accepts[n], i), i + 1, res)
      BY <1>5, <2>1, <3>1 DEF LetterShown, TookIf
    <3> QED
      BY <1>5, <2>1, <3>2 DEF LetterShown
  <2>4. ASSUME NEW e, Finish([res EXCEPT !.err = e]) PROVE WordsFound'
    <3> DEFINE r == [res EXCEPT !.err = e]
    <3>1. /\ r.ok = res.ok /\ r.consumed = res.consumed
          /\ res.ok => r.st = res.st /\ r.val = res.val
      BY <1>2 DEF IsOk, IsErr
    <3>2. Finish(r)
      BY <2>4
    <3> HIDE DEF r
    <3>3. LetterShown(input, n, i, r)
      BY <2>3, <3>1 DEF LetterShown, TookIf
    <3> QED
      BY <1>6, <3>2, <3>3
  <2> QED
    BY <1>6, <1>8, <2>3, <2>4 DEF ReturnToAlt
<1> QED
  BY <1>7, <1>8 DEF ReturnToAlt

(* The letters behind the first.                                            *)
LEMMA WordMany ==
  ASSUME WordFunctions, WordRun, ReturnToManyAccum, UNCHANGED goal
  PROVE  WordsFound'
<1> DEFINE n == Top.node
           i == Top.entry.index
           here == Top.sofar.st.index
           S == Accepts[Others(goal)]
<1>1. n.op = "many_accum" /\ mode = "return" /\ stack # << >>
  BY DEF ReturnToManyAccum, ReturningTo
<1>2. /\ WordFound(input, goal, Top) /\ FrameOK(FALSE, input, Top) /\ Top.sofar.ok
      /\ IsOk(FALSE, input, res) \/ IsErr(res)
      /\ st = Top.sofar.st /\ PartShown(input, goal, node, here, res)
      /\ node = NextPart(Top)
  BY <1>1, WordCaller DEF Followed
<1>3. /\ input \in Seq(Nat) /\ Len(input) \in Nat
      /\ here \in 0..Len(input) /\ i \in 0..Len(input)
      /\ res.ok => res.st.index \in 0..Len(input)
  BY <1>1, SpaceCaller DEF WordRun, Placed
<1>4. /\ DOMAIN Top = {"node", "entry", "phase", "i", "sofar", "held"}
      /\ DOMAIN Top.sofar = {"ok", "consumed", "val", "st", "err"}
  BY <1>2 DEF FrameOK, IsOk
<1>5. node = n.p
  BY <1>1, <1>2, NextPartIs
<1>6. ASSUME NEW r, Finish(r), LettersShown(input, goal, n, i, r) PROVE WordsFound'
  BY <1>1, <1>6, ShownByOp, NoteFinish
<1>7. ASSUME NEW f, NEW part, NEW s, Resume(f, part, s), f.node = n, n # Letters(goal)
      PROVE  WordsFound'
  <2>1. WordFound(input, goal, f)
    BY <1>1, <1>7 DEF WordFound
  <2> QED
    BY <1>1, <1>7, <2>1, NoteResume
<1>8. CASE n # Letters(goal)
  <2>1. ASSUME NEW r, Finish(r) PROVE WordsFound'
    BY <1>6, <1>8, <2>1 DEF LettersShown
  <2>2. ASSUME NEW g, NEW part, NEW s, Resume([Top EXCEPT !.sofar = g], part, s)
        PROVE  WordsFound'
    <3> DEFINE f == [Top EXCEPT !.sofar = g]
    <3>1. f.node = n
      BY <1>4
    <3> QED
      BY <1>7, <1>8, <2>2, <3>1
  <2> QED
    BY <2>1, <2>2 DEF ReturnToManyAccum
<1>9. CASE n = Letters(goal)
  <2>1. n.p = Others(goal) /\ n.keep /\ OneLetter(n.p)
    BY <1>9, WordShapes DEF WordRun, WordGoal, OneLetter
  <2>2. /\ TookIf(HasAt(input, S, here), here + 1, res)
        /\ res.ok => res.val = << input[here + 1] >>
    BY <1>2, <1>5, <2>1 DEF PartShown, LetterShown
  <2>3. /\ here \in i..Len(input)
        /\ \A k \in i..(here - 1) : HasAt(input, S, k)
        /\ Top.sofar.val = SubSeq(input, i + 1, here)
    BY <1>2, <1>9 DEF WordFound
  <2>4. ASSUME FailedEmpty, NEW e, Finish([Top.sofar EXCEPT !.err = e]) PROVE WordsFound'
    <3> DEFINE r == [Top.sofar EXCEPT !.err = e]
    <3>1. r.ok = Top.sofar.ok /\ r.st.index = here /\ r.val = Top.sofar.val
      BY <1>4
    <3>2. Finish(r)
      BY <2>4
    <3> HIDE DEF r
    <3>3. StretchEnd(input, S, i) = here
      <4>1. ~HasAt(input, S, here)
        BY <2>2, <2>4 DEF TookIf, FailedEmpty
      <4> QED
        BY <1>3, <2>3, <4>1, StretchEndIs
    <3>4. LettersShown(input, goal, n, i, r)
      BY <1>2, <2>3, <3>1, <3>3 DEF LettersShown
    <3> QED
      BY <1>6, <3>2, <3>4
  <2>5. ASSUME res.ok, res.consumed, NEW e, NEW part, NEW s,
               Resume([Top EXCEPT !.sofar = Ok(TRUE, Top.sofar.val \o res.val, res.st, e)],
                      part, s)
        PROVE  WordsFound'
    <3> DEFINE v == Top.sofar.val \o res.val
               g == Ok(TRUE, v, res.st, e)
               f == [Top EXCEPT !.sofar = g]
    <3>1. f.node = n /\ f.entry = Top.entry /\ f.sofar = g
      BY <1>4
    <3>2. g.st = res.st /\ g.val = v
      BY DEF Ok
    <3>3. Resume(f, part, s)
      BY <2>5
    <3> HIDE DEF f, g, v
    <3>4. HasAt(input, S, here) /\ res.st.index = here + 1 /\ here < Len(input)
      BY <2>2, <2>5 DEF TookIf, HasAt
    <3>5. v = SubSeq(input, i + 1, here + 1)
      <4>1. SubSeq(input, i + 1, here) \o << input[here + 1] >>
              = SubSeq(input, i + 1, here + 1)
        BY <1>3, <2>3, <3>4, LettersGoOn
      <4> QED
        BY <2>2, <2>3, <2>5, <4>1, Zenon DEF v
    <3>6. \A k \in i..((here + 1) - 1) : HasAt(input, S, k)
      <4>1. \A k \in i..((here + 1) - 1) : k \in i..(here - 1) \/ k = here
        BY <1>3, <2>3
      <4> QED
        BY <2>3, <3>4, <4>1, Zenon
    <3>7. here + 1 \in i..Len(input)
      BY <1>3, <2>3, <3>4
    <3>8. WordFound(input, goal, f)
      BY <1>1, <3>1, <3>2, <3>4, <3>5, <3>6, <3>7 DEF WordFound
    <3> QED
      BY <1>1, <3>3, <3>8, NoteResume
  <2>6. ~FailedConsumed /\ ~(res.ok /\ ~res.consumed)
    BY <2>2 DEF TookIf, FailedConsumed
  <2>7. (IF n.keep THEN Top.sofar.val \o res.val ELSE Top.sofar.val)
          = Top.sofar.val \o res.val
    BY <2>1, Zenon
  <2> QED
    BY <2>4, <2>5, <2>6, <2>7 DEF ReturnToManyAccum
<1> QED
  BY <1>8, <1>9

(* The word: its first letter and the others, and the word of both.         *)
LEMMA WordBind ==
  ASSUME WordFunctions, WordRun, ReturnToBind, UNCHANGED goal
  PROVE  WordsFound'
<1> DEFINE n == Top.node
           i == Top.entry.index
           here == Top.sofar.st.index
           S == Accepts[Others(goal)]
           end(j) == StretchEnd(input, S, j)
<1>1. n.op = "bind" /\ mode = "return" /\ stack # << >>
  BY DEF ReturnToBind, ReturningTo
<1>2. /\ Runs(goal, n) /\ WordFound(input, goal, Top) /\ FrameOK(FALSE, input, Top)
      /\ Top.sofar.ok
      /\ st = Top.sofar.st /\ PartShown(input, goal, node, here, res)
      /\ node = NextPart(Top)
      /\ Top.phase = "first" => st = Top.entry
  BY <1>1, WordCaller DEF AlsoFollowed, Repeats
<1>3. n = Word(goal) \/ IsRest(goal, n)
  BY <1>1, <1>2, RunsShapes DEF WordRun, WordGoal, SpaceRun, lang
<1>4. DOMAIN Top = {"node", "entry", "phase", "i", "sofar", "held"}
  BY <1>2 DEF FrameOK
<1>5. /\ input \in Seq(Nat) /\ Len(input) \in Nat
      /\ here \in 0..Len(input) /\ i \in 0..Len(input)
  BY <1>1, SpaceCaller DEF WordRun, Placed
<1>6. ASSUME NEW r, Finish(r), WordShown(input, goal, n, i, r), RestShown(input, goal, n, i, r)
      PROVE  WordsFound'
  BY <1>1, <1>6, ShownByOp, NoteFinish
<1>7. /\ OneLetter(First(goal)) /\ Word(goal).p = First(goal)
      /\ \A m : IsRest(goal, m) => m.p = Letters(goal) /\ m # Word(goal)
  <2>1. Word(goal).k.fn = "word_letters"
    BY WordShapes
  <2> QED
    BY <2>1, WordShapes, RestShape DEF WordRun, WordGoal, OneLetter, IsRest
<1>8. CASE Top.phase = "first"
  <2>1. node = n.p /\ PartShown(input, goal, node, i, res)
    BY <1>1, <1>2, <1>8, NextPartIs
  <2>2. ASSUME ~res.ok, Finish(res) PROVE WordsFound'
    <3>1. CASE n = Word(goal)
      <4>1. ~HasAt(input, Accepts[First(goal)], i)
        BY <1>7, <2>1, <2>2, <3>1 DEF PartShown, LetterShown, TookIf
      <4>2. WordShown(input, goal, n, i, res)
        BY <2>2, <4>1 DEF WordShown
      <4>3. RestShown(input, goal, n, i, res)
        BY <1>7, <3>1 DEF RestShown
      <4> QED
        BY <1>6, <2>2, <4>2, <4>3
    <3>2. CASE IsRest(goal, n)
      BY <1>7, <2>1, <2>2, <3>2 DEF PartShown, LettersShown
    <3> QED
      BY <1>3, <3>1, <3>2
  <2>3. ASSUME res.ok, NEW part, NEW s,
               Resume([Top EXCEPT !.phase = "second", !.sofar = res], part, s)
        PROVE  WordsFound'
    <3> DEFINE f == [Top EXCEPT !.phase = "second", !.sofar = res]
    <3>1. f.node = n /\ f.entry = Top.entry /\ f.sofar = res
      BY <1>4
    <3> HIDE DEF f
    <3>2. Letters(goal).op = "many_accum"
      BY WordOps
    <3>3. WordFound(input, goal, f)
      BY <1>1, <2>1, <3>1, <3>2 DEF WordFound
    <3> QED
      BY <1>1, <2>3, <3>3, NoteResume DEF f
  <2> QED
    BY <1>8, <2>2, <2>3 DEF ReturnToBind, SequenceOn, SequenceEnd
<1>9. CASE Top.phase = "second"
  <2>1. /\ node = continue(n.k, Top.sofar.val)
        /\ PartShown(input, goal, n.p, i, Top.sofar)
    BY <1>1, <1>2, <1>9, NextPartIs DEF WordFound
  <2>2. CASE n = Word(goal)
    <3> DEFINE j == end(i + 1)
               word == SubSeq(input, i + 1, j)
    <3>1. HasAt(input, Accepts[First(goal)], i) /\ here = i + 1
          /\ Top.sofar.val = << input[i + 1] >>
      BY <1>2, <1>7, <2>1, <2>2 DEF PartShown, LetterShown, TookIf
    <3>2. node = Rest(goal, << input[i + 1] >>)
      BY <2>1, <2>2, <3>1, WordContinues
    <3>3. IsRest(goal, node) /\ node.k.head = << input[i + 1] >>
      BY <3>2, RestShape
    <3>4. RestShown(input, goal, node, i + 1, res)
      BY <1>2, <3>1 DEF PartShown
    <3>5. i < Len(input) /\ i + 1 \in 0..Len(input)
      BY <1>5, <3>1 DEF HasAt
    <3>6. j \in (i + 1)..Len(input)
      BY <1>5, <3>5, StretchEndSays
    <3>7. << input[i + 1] >> \o SubSeq(input, i + 2, j) = word
      <4>1. j \in i..Len(input) /\ i < j
        BY <1>5, <3>6
      <4> QED
        BY <1>5, <4>1, LettersGoOn
    <3>8. (i + 1) + 1 = i + 2
      BY <1>5
    <3> HIDE DEF j
    <3>9. IF word \in Taken(goal) THEN ~res.ok
          ELSE res.ok /\ res.st.index = j /\ res.val = word
      BY <3>3, <3>4, <3>7, <3>8 DEF RestShown, j
    <3>10. ASSUME NEW r, Finish(r), r.ok <=> res.ok,
                  res.ok => r.st = res.st /\ r.val = res.val
           PROVE  WordsFound'
      <4>1. WordShown(input, goal, n, i, r)
        BY <3>1, <3>9, <3>10 DEF WordShown, j
      <4>2. RestShown(input, goal, n, i, r)
        BY <1>7, <2>2 DEF RestShown
      <4> QED
        BY <1>6, <3>10, <4>1, <4>2
    <3>11. ASSUME NEW c, NEW e, Finish(Ok(c, res.val, res.st, e)), res.ok PROVE WordsFound'
      BY <3>10, <3>11 DEF Ok
    <3>12. ASSUME NEW c, NEW e, Finish(Err(c, e)), ~res.ok PROVE WordsFound'
      BY <3>10, <3>12 DEF Err
    <3> QED
      BY <1>9, <3>11, <3>12 DEF ReturnToBind, SequenceOn, SequenceEnd
  <2>3. CASE IsRest(goal, n)
    <3> DEFINE j == end(i)
               v == SubSeq(input, i + 1, j)
               word == n.k.head \o v
    <3>1. here = j /\ Top.sofar.val = v
      BY <1>7, <2>1, <2>3 DEF PartShown, LettersShown
    <3>2. node = IF word \in Taken(goal) THEN fail(TextReserved \o n.k.head \o v) ELSE pure(word)
      BY <2>1, <2>3, <3>1, WordContinues
    <3>3. \A w : fail(w).op = "fail" /\ pure(w).op = "pure" /\ pure(w).value = w
      BY DEF fail, pure
    <3>4. ConstantShown(node, j, res)
      BY <1>2, <3>1 DEF PartShown
    <3> HIDE DEF j
    <3>5. IF word \in Taken(goal) THEN ~res.ok
          ELSE res.ok /\ res.st.index = j /\ res.val = word
      <4> HIDE DEF word
      <4> QED
        BY <3>2, <3>3, <3>4 DEF ConstantShown
    <3>6. ASSUME NEW r, Finish(r), r.ok <=> res.ok,
                 res.ok => r.st = res.st /\ r.val = res.val
          PROVE  WordsFound'
      <4>1. RestShown(input, goal, n, i, r)
        BY <3>5, <3>6 DEF RestShown, j
      <4>2. WordShown(input, goal, n, i, r)
        BY <1>7, <2>3 DEF WordShown
      <4> QED
        BY <1>6, <3>6, <4>1, <4>2
    <3>7. ASSUME NEW c, NEW e, Finish(Ok(c, res.val, res.st, e)), res.ok PROVE WordsFound'
      BY <3>6, <3>7 DEF Ok
    <3>8. ASSUME NEW c, NEW e, Finish(Err(c, e)), ~res.ok PROVE WordsFound'
      BY <3>6, <3>8 DEF Err
    <3> QED
      BY <1>9, <3>7, <3>8 DEF ReturnToBind, SequenceOn, SequenceEnd
  <2> QED
    BY <1>3, <2>2, <2>3
<1> QED
  BY <1>8, <1>9 DEF ReturnToBind, SequenceOn, SequenceEnd

(* The lexeme, and the white space behind it.                               *)
LEMMA WordSkip ==
  ASSUME WordFunctions, WordRun, ReturnToSkip, UNCHANGED goal
  PROVE  WordsFound'
<1> DEFINE n == Top.node
           i == Top.entry.index
           q == Top.sofar
           next == NextToken(input, lang)
<1>1. n.op = "skip" /\ mode = "return" /\ stack # << >>
  BY DEF ReturnToSkip, ReturningTo
<1>2. /\ Runs(goal, n) /\ WordFound(input, goal, Top) /\ FrameOK(FALSE, input, Top)
      /\ Top.sofar.ok /\ Shown(input, lang, node, st.index, res)
      /\ st = Top.sofar.st /\ PartShown(input, goal, node, st.index, res)
      /\ node = NextPart(Top)
      /\ Top.phase = "first" => st = Top.entry
  BY <1>1, WordCaller DEF AlsoFollowed, Repeats
<1>3. n = Root(goal) /\ n.q = white_space(lang)
  BY <1>1, <1>2, RunsShapes, RootShape DEF WordRun, WordGoal, SpaceRun, lang
<1>4. DOMAIN Top = {"node", "entry", "phase", "i", "sofar", "held"}
  BY <1>2 DEF FrameOK
<1>5. ASSUME NEW r, Finish(r), LexemeShown(input, goal, n, i, r) PROVE WordsFound'
  BY <1>1, <1>5, ShownByOp, NoteFinish
<1>6. CASE Top.phase = "first"
  <2>1. PartShown(input, goal, n.p, i, res)
    BY <1>1, <1>2, <1>6, NextPartIs
  <2>2. ASSUME ~res.ok, Finish(res) PROVE WordsFound'
    <3>1. LexemeFrom(input, goal, i, res, res)
      BY <1>3, <2>1, <2>2 DEF LexemeFrom
    <3> QED
      BY <1>5, <2>2, <3>1 DEF LexemeShown
  <2>3. ASSUME res.ok, NEW part, NEW s,
               Resume([Top EXCEPT !.phase = "second", !.sofar = res], part, s)
        PROVE  WordsFound'
    <3> DEFINE f == [Top EXCEPT !.phase = "second", !.sofar = res]
    <3>1. f.node = n /\ f.entry = Top.entry /\ f.sofar = res
      BY <1>4
    <3> HIDE DEF f
    <3>2. Letters(goal).op = "many_accum"
      BY WordOps
    <3>3. WordFound(input, goal, f)
      BY <1>1, <2>1, <3>1, <3>2 DEF WordFound
    <3> QED
      BY <1>1, <2>3, <3>3, NoteResume DEF f
  <2> QED
    BY <1>6, <2>2, <2>3 DEF ReturnToSkip, SequenceOn, SequenceEnd
<1>7. CASE Top.phase = "second"
  <2>1. node = white_space(lang) /\ PartShown(input, goal, Root(goal).p, i, q)
    BY <1>1, <1>2, <1>3, <1>7, NextPartIs DEF WordFound
  <2>2. PassesTo(input, next[q.st.index], res)
    BY <1>2, <2>1 DEF Shown, SpaceShown
  <2>3. ASSUME NEW r, Finish(r), r.ok <=> res.ok, res.ok => r.st = res.st /\ r.val = q.val
        PROVE  WordsFound'
    <3>1. IF next[q.st.index] = Unclosed(input) THEN ~r.ok
          ELSE r.ok /\ r.st.index = next[q.st.index] /\ r.val = q.val
      BY <2>2, <2>3 DEF PassesTo
    <3>2. LexemeFrom(input, goal, i, q, r)
      BY <1>2, <2>1, <3>1 DEF LexemeFrom, lang
    <3> QED
      BY <1>5, <2>3, <3>2 DEF LexemeShown
  <2>4. ASSUME NEW c, NEW e, Finish(Ok(c, q.val, res.st, e)), res.ok PROVE WordsFound'
    BY <2>3, <2>4 DEF Ok
  <2>5. ASSUME NEW c, NEW e, Finish(Err(c, e)), ~res.ok PROVE WordsFound'
    BY <2>3, <2>5 DEF Err
  <2> QED
    BY <1>7, <2>4, <2>5 DEF ReturnToSkip, SequenceOn, SequenceEnd
<1> QED
  BY <1>6, <1>7 DEF ReturnToSkip, SequenceOn, SequenceEnd

(* A reserved word: the name, and no letter behind it.                      *)
LEMMA WordThen ==
  ASSUME WordFunctions, WordRun, ReturnToThen, UNCHANGED goal
  PROVE  WordsFound'
<1> DEFINE n == Top.node
           i == Top.entry.index
           here == Top.sofar.st.index
           len == Len(goal.name)
<1>1. n.op = "then" /\ mode = "return" /\ stack # << >>
  BY DEF ReturnToThen, ReturningTo
<1>2. /\ WordFound(input, goal, Top) /\ FrameOK(FALSE, input, Top) /\ Top.sofar.ok
      /\ st = Top.sofar.st /\ PartShown(input, goal, node, here, res)
      /\ node = NextPart(Top)
      /\ Top.phase = "first" => st = Top.entry
  BY <1>1, WordCaller DEF Followed, Repeats
<1>3. DOMAIN Top = {"node", "entry", "phase", "i", "sofar", "held"}
  BY <1>2 DEF FrameOK
<1>4. ASSUME NEW r, Finish(r), IsKey(goal) => KeywordShown(input, goal, n, i, r)
      PROVE  WordsFound'
  BY <1>1, <1>4, ShownByOp, NoteFinish
<1>5. n \notin {try_parse(Whole(goal)), Dropped(goal), Keyword(goal)}
  BY <1>1, WordOps
<1>6. n = Whole(goal) => n.p = string_(goal.name) /\ n.q = Ends(goal)
  BY KeywordShapes
<1>7. CASE Top.phase = "first"
  <2>1. PartShown(input, goal, n.p, i, res)
    BY <1>1, <1>2, <1>7, NextPartIs
  <2>2. ASSUME ~res.ok, Finish(res) PROVE WordsFound'
    <3>1. ASSUME n = Whole(goal), IsKey(goal) PROVE ~EndsBehind(input, goal, i)
      BY <1>6, <2>1, <2>2, <3>1 DEF PartShown, NameShown, EndsBehind
    <3>2. IsKey(goal) => KeywordShown(input, goal, n, i, res)
      BY <1>5, <2>2, <3>1 DEF KeywordShown
    <3> QED
      BY <1>4, <2>2, <3>2
  <2>3. ASSUME res.ok, NEW part, NEW s,
               Resume([Top EXCEPT !.phase = "second", !.sofar = res], part, s)
        PROVE  WordsFound'
    <3> DEFINE f == [Top EXCEPT !.phase = "second", !.sofar = res]
    <3>1. f.node = n /\ f.entry = Top.entry /\ f.sofar = res
      BY <1>3
    <3> HIDE DEF f
    <3>2. Letters(goal).op = "many_accum"
      BY WordOps
    <3>3. WordFound(input, goal, f)
      BY <1>1, <2>1, <3>1, <3>2 DEF WordFound
    <3> QED
      BY <1>1, <2>3, <3>3, NoteResume DEF f
  <2> QED
    BY <1>7, <2>2, <2>3 DEF ReturnToThen, SequenceOn, SequenceEnd
<1>8. CASE Top.phase = "second"
  <2>1. node = n.q /\ PartShown(input, goal, n.p, i, Top.sofar)
    BY <1>1, <1>2, <1>8, NextPartIs DEF WordFound
  <2>2. ASSUME NEW r, Finish(r), r.ok <=> res.ok, res.ok => r.st = res.st
        PROVE  WordsFound'
    <3>1. ASSUME n = Whole(goal), IsKey(goal)
          PROVE  IF EndsBehind(input, goal, i) THEN r.ok /\ r.st.index = i + len ELSE ~r.ok
      <4>1. NameAt(input, goal, i) /\ here = i + len
        BY <1>2, <1>6, <2>1, <3>1 DEF PartShown, NameShown
      <4>2. EndsShown(input, goal, Ends(goal), i + len, res)
        BY <1>2, <1>6, <2>1, <3>1, <4>1 DEF PartShown
      <4> QED
        BY <2>2, <4>1, <4>2 DEF EndsShown, EndsBehind
    <3>2. IsKey(goal) => KeywordShown(input, goal, n, i, r)
      BY <1>5, <3>1 DEF KeywordShown
    <3> QED
      BY <1>4, <2>2, <3>2
  <2>3. ASSUME NEW c, NEW v, NEW e, Finish(Ok(c, v, res.st, e)), res.ok PROVE WordsFound'
    BY <2>2, <2>3 DEF Ok
  <2>4. ASSUME NEW c, NEW e, Finish(Err(c, e)), ~res.ok PROVE WordsFound'
    BY <2>2, <2>4 DEF Err
  <2> QED
    BY <1>8, <2>3, <2>4 DEF ReturnToThen, SequenceOn, SequenceEnd
<1> QED
  BY <1>7, <1>8 DEF ReturnToThen, SequenceOn, SequenceEnd

LEMMA WordMap ==
  ASSUME WordFunctions, WordRun, ReturnToMap, UNCHANGED goal
  PROVE  WordsFound'
<1> DEFINE n == Top.node
           i == Top.entry.index
<1>1. n.op = "map" /\ mode = "return" /\ stack # << >>
  BY DEF ReturnToMap, ReturningTo
<1>2. PartShown(input, goal, n.p, i, res) /\ (IsOk(FALSE, input, res) \/ IsErr(res))
  <2>1. NextPart(Top) = n.p
    BY <1>1, NextPartIs
  <2> QED
    BY <1>1, <2>1, WordCaller DEF Followed, Stays
<1>3. ASSUME NEW r, Finish(r), r.ok <=> res.ok, res.ok => r.st = res.st,
             r.consumed <=> res.consumed
      PROVE  WordsFound'
  <2>1. n \in {Whole(goal), try_parse(Whole(goal)), Dropped(goal), Keyword(goal)} =>
          n = Dropped(goal) /\ n.p = try_parse(Whole(goal))
    BY <1>1, WordOps, KeywordShapes
  <2>2. IsKey(goal) => KeywordShown(input, goal, n, i, r)
    BY <1>2, <1>3, <2>1 DEF PartShown, KeywordShown
  <2> QED
    BY <1>1, <1>3, <2>2, ShownByOp, NoteFinish
<1>4. Finish(res) => WordsFound'
  BY <1>3
<1>5. ASSUME res.ok, NEW v, Finish([res EXCEPT !.val = v]) PROVE WordsFound'
  <2> DEFINE r == [res EXCEPT !.val = v]
  <2>1. r.ok = res.ok /\ r.consumed = res.consumed /\ r.st = res.st
    BY <1>2, <1>5 DEF IsOk, IsErr
  <2> HIDE DEF r
  <2> QED
    BY <1>3, <1>5, <2>1 DEF r
<1>6. Throw => WordsFound'
  <2>1. Throw => mode' = "threw" /\ Len(stack') = 0
    BY DEF Throw
  <2> QED
    BY <2>1 DEF WordsFound
<1> QED
  BY <1>4, <1>5, <1>6 DEF ReturnToMap

LEMMA WordTry ==
  ASSUME WordFunctions, WordRun, ReturnToTryParse, UNCHANGED goal
  PROVE  WordsFound'
<1> DEFINE n == Top.node
           i == Top.entry.index
<1>1. n.op = "try_parse" /\ mode = "return" /\ stack # << >>
  BY DEF ReturnToTryParse, ReturningTo
<1>2. PartShown(input, goal, n.p, i, res)
  <2>1. NextPart(Top) = n.p
    BY <1>1, NextPartIs
  <2> QED
    BY <1>1, <2>1, WordCaller DEF Followed, Stays
<1>3. ASSUME NEW r, Finish(r), r.ok <=> res.ok, res.ok => r = res, ~r.ok => ~r.consumed
      PROVE  WordsFound'
  <2>1. /\ n \in {Whole(goal), try_parse(Whole(goal)), Dropped(goal), Keyword(goal)} =>
             n = try_parse(Whole(goal)) /\ n.p = Whole(goal)
        /\ n \in {Ahead(goal), try_parse(Ahead(goal))} => n.p = Ahead(goal)
    BY <1>1, WordOps, KeywordShapes
  <2>2. IsKey(goal) => KeywordShown(input, goal, n, i, r)
    BY <1>2, <1>3, <2>1 DEF PartShown, KeywordShown
  <2>3. IsKey(goal) => AheadShown(input, goal, n, i, r)
    BY <1>2, <1>3, <2>1 DEF PartShown, AheadShown
  <2> QED
    BY <1>1, <1>3, <2>2, <2>3, ShownByOp, NoteFinish
<1>4. ASSUME ~FailedConsumed, Finish(res) PROVE WordsFound'
  BY <1>3, <1>4 DEF FailedConsumed
<1>5. ASSUME FailedConsumed, NEW e, Finish(Err(FALSE, e)) PROVE WordsFound'
  <2>1. ~Err(FALSE, e).ok /\ ~Err(FALSE, e).consumed
    BY DEF Err
  <2> QED
    BY <1>3, <1>5, <2>1 DEF FailedConsumed
<1> QED
  BY <1>4, <1>5 DEF ReturnToTryParse

LEMMA WordAhead ==
  ASSUME WordFunctions, WordRun, ReturnToLookAhead, UNCHANGED goal
  PROVE  WordsFound'
<1> DEFINE n == Top.node
           i == Top.entry.index
<1>1. n.op = "look_ahead" /\ mode = "return" /\ stack # << >>
  BY DEF ReturnToLookAhead, ReturningTo
<1>2. PartShown(input, goal, n.p, i, res) /\ Runs(goal, n)
  <2>1. NextPart(Top) = n.p
    BY <1>1, NextPartIs
  <2> QED
    BY <1>1, <2>1, WordCaller DEF AlsoFollowed, Stays
<1>3. n = Ahead(goal) /\ n.p = Others(goal) /\ OneLetter(n.p)
  <2>1. IsLanguage(goal.lang) /\ OneLetter(Others(goal)) /\ IsNamed(goal)
    BY DEF WordRun, SpaceRun, lang, WordGoal, OneLetter
  <2>2. n = Ahead(goal)
    BY <1>1, <1>2, <2>1, RunsShapes
  <2> QED
    BY <2>1, <2>2, KeywordShapes
<1>4. LetterShown(input, n.p, i, res)
  BY <1>2 DEF PartShown
<1>5. ASSUME NEW r, Finish(r), r.ok <=> res.ok PROVE WordsFound'
  <2>1. AheadShown(input, goal, n, i, r)
    BY <1>3, <1>4, <1>5 DEF LetterShown, TookIf, AheadShown
  <2> QED
    BY <1>1, <1>5, <2>1, ShownByOp, NoteFinish
<1>6. ASSUME res.ok, NEW v, NEW s, NEW e, Finish(Ok(FALSE, v, s, e)) PROVE WordsFound'
  BY <1>5, <1>6 DEF Ok
<1> QED
  BY <1>5, <1>6 DEF ReturnToLookAhead

LEMMA WordEnds ==
  ASSUME WordFunctions, WordRun, ReturnToNotFollowedBy, UNCHANGED goal
  PROVE  WordsFound'
<1> DEFINE n == Top.node
           i == Top.entry.index
<1>1. n.op = "not_followed_by" /\ mode = "return" /\ stack # << >>
  BY DEF ReturnToNotFollowedBy, ReturningTo
<1>2. /\ PartShown(input, goal, try_parse(look_ahead(n.p)), i, res) /\ Runs(goal, n)
  <2>1. NextPart(Top) = try_parse(look_ahead(n.p))
    BY <1>1, NextPartIs
  <2> QED
    BY <1>1, <2>1, WordCaller DEF Followed, Stays
<1>3. IsKey(goal) /\ n = Ends(goal) /\ try_parse(look_ahead(n.p)) = try_parse(Ahead(goal))
  <2>1. IsLanguage(goal.lang) /\ IsNamed(goal)
    BY DEF WordRun, WordGoal, SpaceRun, lang
  <2>2. IsKey(goal) /\ n = Ends(goal)
    BY <1>1, <1>2, <2>1, RunsShapes
  <2>3. n.p = Others(goal)
    BY <2>2, KeywordShapes
  <2> QED
    BY <2>2, <2>3 DEF Ahead
<1>4. res.ok <=> HasAt(input, Accepts[Others(goal)], i)
  BY <1>2, <1>3 DEF PartShown, AheadShown
<1>5. ASSUME NEW r, Finish(r), IF res.ok THEN ~r.ok ELSE r.ok /\ r.st.index = i
      PROVE  WordsFound'
  <2>1. EndsShown(input, goal, n, i, r)
    BY <1>4, <1>5 DEF EndsShown
  <2> QED
    BY <1>1, <1>5, <2>1, ShownByOp, NoteFinish
<1>6. ASSUME ~res.ok, NEW v, NEW e, Finish(Ok(FALSE, v, Top.entry, e)) PROVE WordsFound'
  BY <1>5, <1>6 DEF Ok
<1>7. ASSUME res.ok, NEW e, Finish(Err(FALSE, e)) PROVE WordsFound'
  BY <1>5, <1>7 DEF Err
<1> QED
  BY <1>6, <1>7 DEF ReturnToNotFollowedBy

(* White space's own, of which nothing more is said.                        *)
LEMMA WordSpace ==
  ASSUME WordRun, ReturnToChoice \/ ReturnToCommentRest, UNCHANGED goal
  PROVE  WordsFound'
<1>1. Top.node.op \in {"choice", "comment_rest"} /\ mode = "return" /\ stack # << >>
  BY DEF ReturnToChoice, ReturnToCommentRest, ReturningTo
<1>2. DOMAIN Top = {"node", "entry", "phase", "i", "sofar", "held"}
  BY <1>1, SpaceCaller DEF FrameOK, WordRun
<1>3. ASSUME NEW r, Finish(r) PROVE WordsFound'
  BY <1>1, <1>3, ShownByOp, NoteFinish
<1>4. ASSUME NEW f, NEW part, NEW s, Resume(f, part, s), f.node = Top.node PROVE WordsFound'
  BY <1>1, <1>4, FoundByOp, NoteResume
<1>5. ASSUME NEW i, NEW e, NEW part, NEW s,
             Resume([Top EXCEPT !.i = i, !.sofar.err = e], part, s)
      PROVE  WordsFound'
  BY <1>2, <1>4, <1>5
<1>6. ASSUME NEW phase, NEW part, NEW s, Resume([Top EXCEPT !.phase = phase], part, s)
      PROVE  WordsFound'
  BY <1>2, <1>4, <1>6
<1>7. ASSUME NEW i, NEW g, NEW part, NEW s,
             Resume([Top EXCEPT !.phase = "first", !.i = i, !.sofar = g], part, s)
      PROVE  WordsFound'
  BY <1>2, <1>4, <1>7
<1> DEFINE Goal == WordsFound'
<1> HIDE DEF Goal
<1> SUFFICES Goal
  BY DEF Goal
<1>8. ReturnToChoice => Goal
  BY <1>3, <1>5 DEF ReturnToChoice, Goal
<1>9. ASSUME NEW phase, NEW part, ScanOn(phase, part) PROVE Goal
  BY <1>6, <1>9 DEF ScanOn, Goal
<1>10. SkipInComment => Goal
  BY <1>3, <1>9 DEF SkipInComment, Goal
<1>11. ReturnToCommentRest => Goal
  BY <1>3, <1>7, <1>9, <1>10 DEF ReturnToCommentRest, Goal
<1> QED
  BY <1>8, <1>11

-----------------------------------------------------------------------------
(* Every step.                                                              *)
LEMMA WordTexts ==
  ASSUME WordRun
  PROVE  TextsAreStrings /\ CommentsAreComments
<1>1. Runs(goal, node) /\ IsLanguage(goal.lang) /\ IsNamed(goal)
  BY DEF WordRun, WordGoal, Linked, SpaceRun, lang
<1>2. /\ node.op = "tokens" => node.str \in Seq(Nat)
      /\ node.op = "comment_rest" => node = InComment(goal.lang)
  BY <1>1, RunsShapes
<1> QED
  BY <1>2 DEF TextsAreStrings, CommentsAreComments, InComment

(* A caller of theirs goes on with another, or returns.                     *)
LEMMA WordReturnTo ==
  ASSUME WordFunctions, WordRun, SpaceRun', ReturnToCaller, UNCHANGED goal
  PROVE  Linked' /\ Rooted' /\ WordsFound' /\ mode' # "threw"
<1>1. mode = "return" /\ stack # << >>
  BY DEF ReturnToCaller, ReturningTo, ReturnToBind, ReturnToThen, ReturnToSkip,
     ReturnToMap, ReturnToLabel, ReturnToAlt, ReturnToTryParse, ReturnToLookAhead,
     ReturnToManyAccum, ReturnToChoice, ReturnToCount, ReturnToSepEndBy1,
     ReturnToChainl1, ReturnToScanOpChain, ReturnToNotFollowedBy, ReturnToManyTill,
     ReturnToCommentRest
<1>2. Runs(goal, Top.node) /\ IsLanguage(goal.lang) /\ IsNamed(goal)
  <2>1. Len(stack) \in 1..Len(stack) /\ Top = stack[Len(stack)]
    BY <1>1, Shapes DEF WordRun, SpaceRun
  <2> QED
    BY <2>1 DEF WordRun, WordGoal, Linked, SpaceRun, lang
<1>3. /\ Top.node.op \in Followed \cup AlsoFollowed
                          \cup {"token_prim", "tokens", "pure", "fail"}
      /\ Top.node.op = "map" => Top.node.f.fn = "unit"
  BY <1>2, RunsShapes
<1>4. ~ReturnToCount /\ ~ReturnToSepEndBy1 /\ ~ReturnToChainl1 /\ ~ReturnToScanOpChain
      /\ ~ReturnToManyTill
  BY <1>3 DEF ReturnToCount, ReturnToSepEndBy1, ReturnToChainl1, ReturnToScanOpChain,
     ReturnToManyTill, ReturningTo, Followed, AlsoFollowed
<1>5. WordsFound'
  BY <1>4, WordBind, WordThen, WordSkip, WordMap, WordLabel, WordAlt, WordTry, WordAhead,
     WordMany, WordSpace, WordEnds DEF ReturnToCaller
<1>6. Top.node.op \in Followed \cup AlsoFollowed
  BY <1>3, <1>4 DEF ReturnToCaller, ReturningTo, ReturnToBind, ReturnToThen, ReturnToSkip,
     ReturnToMap, ReturnToLabel, ReturnToAlt, ReturnToTryParse, ReturnToLookAhead,
     ReturnToManyAccum, ReturnToChoice, ReturnToNotFollowedBy, ReturnToCommentRest,
     Followed, AlsoFollowed
<1>7. ~(Top.node.op = "map" /\ UserThrows(Top.node.f, res.val))
  BY <1>3 DEF WordFunctions, TokenThrows
<1>8. Linked' /\ Rooted' /\ mode' # "threw"
  <2>1. \/ \E r : Finish(r)
        \/ \E f, part, s :
             /\ Resume(f, part, s) /\ f.node = Top.node /\ f.entry = Top.entry
             /\ Top.node.op \in AlsoFollowed => part = NextPart(f)
    BY <1>1, <1>6, <1>7, CallerGoes DEF WordRun
  <2>2. ASSUME NEW r, Finish(r) PROVE Linked' /\ Rooted' /\ mode' # "threw"
    BY <1>1, <2>2, WordFinishes
  <2>3. ASSUME NEW f, NEW part, NEW s, Resume(f, part, s), f.node = Top.node,
               f.entry = Top.entry, Top.node.op \in AlsoFollowed => part = NextPart(f)
        PROVE  Linked' /\ Rooted' /\ mode' # "threw"
    BY <1>1, <1>6, <2>3, WordResumes
  <2> QED
    BY <2>1, <2>2, <2>3
<1> QED
  BY <1>5, <1>8

LEMMA WordStep ==
  ASSUME WordFunctions, WordRun, [TaskNext]_taskVars
  PROVE  WordRun'
<1>1. [Next]_vars /\ UNCHANGED goal
  BY DEF TaskNext, ObservedNext, taskVars, observed
<1>2. SpaceRun'
  BY WordTexts, SpaceStep DEF WordRun
<1>3. WordGoal'
  BY <1>1 DEF WordRun, WordGoal, IsNamed, lang, IsKey, First, Others
<1>4. CallLeaf => Linked' /\ Rooted' /\ WordsFound' /\ mode' # "threw"
  <2>1. CallLeaf => UNCHANGED << stack, node, st >> /\ mode' = "return"
    BY DEF CallLeaf, CallPure, CallFail, CallTokenPrim, CallClientToken, CallTokens,
       CallTakeWhile, CallTakeWhile1, Return
  <2> QED
    BY <1>1, <1>2, <2>1, WordLeaf, WordReturns
<1>5. ~CallLazy
  <2>1. Runs(goal, node) /\ IsLanguage(goal.lang) /\ IsNamed(goal)
    BY DEF WordRun, WordGoal, Linked, SpaceRun, lang
  <2>2. node.op # "lazy"
    BY <2>1, RunsShapes DEF Followed, AlsoFollowed
  <2> QED
    BY <2>2 DEF CallLazy, Calling
<1>6. UNCHANGED vars => Linked' /\ Rooted' /\ WordsFound' /\ mode' # "threw"
  <2>1. ASSUME UNCHANGED vars PROVE Linked' /\ Rooted' /\ mode' # "threw"
    BY <1>1, <2>1, WordReturns DEF vars, WordRun
  <2>2. ASSUME UNCHANGED vars PROVE WordsFound'
    BY <1>1, <2>2 DEF vars, WordRun, WordsFound
  <2> QED
    BY <2>1, <2>2
<1>7. Linked' /\ Rooted' /\ WordsFound' /\ mode' # "threw"
  BY <1>1, <1>2, <1>4, <1>5, <1>6, WordCalls, WordCall, WordReturnTo DEF Next, Step
<1> QED
  BY <1>2, <1>3, <1>7 DEF WordRun

-----------------------------------------------------------------------------
(* The word that a text starts with.                                        *)
LEMMA WordSays ==
  ASSUME input \in Seq(Nat), NEW kind
  PROVE  LET S == Accepts[Letter(lang, kind)]
             j == StretchEnd(input, S, 1)
         IN  IF HasAt(input, Accepts[Start(lang, kind)], 0)
             THEN /\ WordIn(kind) = SubSeq(input, 1, j) /\ Len(WordIn(kind)) = j
                  /\ j \in 1..Len(input) /\ WordIn(kind) # << >>
                  /\ \A k \in 1..(j - 1) : HasAt(input, S, k)
                  /\ ~HasAt(input, S, j)
                  /\ \A k \in 1..j : WordIn(kind)[k] = input[k]
             ELSE WordIn(kind) = << >>
<1> DEFINE S == Accepts[Letter(lang, kind)]
           j == StretchEnd(input, S, 1)
<1>1. Len(input) \in Nat
  BY LenProperties
<1>2. CASE HasAt(input, Accepts[Start(lang, kind)], 0)
  <2>1. 1 \in 0..Len(input)
    BY <1>1, <1>2 DEF HasAt
  <2>2. j \in 1..Len(input) /\ (\A k \in 1..(j - 1) : HasAt(input, S, k)) /\ ~HasAt(input, S, j)
    BY <2>1, StretchEndSays
  <2>3. WordIn(kind) = SubSeq(input, 1, j)
    BY <1>2 DEF WordIn, WordEnd, CharAt, After
  <2> HIDE DEF j, S
  <2>4. Len(WordIn(kind)) = j /\ \A k \in 1..j : WordIn(kind)[k] = input[k]
    BY <1>1, <2>2, <2>3, SubSeqProperties
  <2>5. WordIn(kind) # << >>
    <3>1. Len(<< >>) = 0
      OBVIOUS
    <3> QED
      BY <2>2, <2>4, <3>1
  <2> QED
    BY <1>2, <2>2, <2>3, <2>4, <2>5 DEF j, S
<1>3. CASE ~HasAt(input, Accepts[Start(lang, kind)], 0)
  <2>1. WordIn(kind) = SubSeq(input, 1, 0)
    BY <1>3 DEF WordIn, WordEnd, CharAt
  <2> QED
    BY <1>3, <2>1, SubSeqEmpty
<1> QED
  BY <1>2, <1>3

(* A reserved name stands where the text starts with it and its word ends.  *)
LEMMA NameStands ==
  ASSUME goal.name \in Seq(Nat)
  PROVE  EndsBehind(input, goal, 0) <=> Stands(goal.kind, goal.name)
<1>1. /\ Len(goal.name) \in Nat /\ 0 + 1 = 1
      /\ 0 + Len(goal.name) = Len(goal.name)
  BY LenProperties
<1> QED
  BY <1>1 DEF EndsBehind, NameAt, Stands, CharAt, Others, lang

(* If the name is a word, that is where the text's word is the name.        *)
LEMMA ReservedIsWord ==
  ASSUME input \in Seq(Nat), NEW name \in Seq(Nat), IsWord(goal.kind, name)
  PROVE  Stands(goal.kind, name) <=> WordIn(goal.kind) = name
<1> DEFINE n == Len(name)
           S == Accepts[Letter(lang, goal.kind)]
           F == Accepts[Start(lang, goal.kind)]
           j == StretchEnd(input, S, 1)
           word == WordIn(goal.kind)
<1>1. /\ Len(input) \in Nat /\ n \in Nat \ {0} /\ name \in Seq(Nat) /\ name # << >>
      /\ name[1] \in F /\ \A k \in 2..n : name[k] \in S
  <2>1. name # << >>
    BY DEF IsWord
  <2>2. n \in Nat /\ n # 0
    BY <2>1, EmptySeq, LenProperties
  <2> QED
    BY <2>1, <2>2, LenProperties DEF IsWord
<1>2. Stands(goal.kind, name) <=>
        n <= Len(input) /\ SubSeq(input, 1, n) = name /\ ~HasAt(input, S, n)
  BY DEF Stands, CharAt
<1>3. IF HasAt(input, F, 0)
      THEN /\ word = SubSeq(input, 1, j) /\ Len(word) = j
           /\ j \in 1..Len(input) /\ \A k \in 1..(j - 1) : HasAt(input, S, k)
           /\ ~HasAt(input, S, j)
      ELSE word = << >>
  BY WordSays
<1> HIDE DEF n, S, F, j, word
<1>4. ASSUME word = name PROVE Stands(goal.kind, name)
  <2>1. HasAt(input, F, 0)
    BY <1>1, <1>3, <1>4
  <2>2. n = j
    BY <1>3, <1>4, <2>1 DEF n
  <2> QED
    BY <1>1, <1>2, <1>3, <1>4, <2>1, <2>2
<1>5. ASSUME n <= Len(input), SubSeq(input, 1, n) = name, ~HasAt(input, S, n)
      PROVE  word = name
  <2>1. \A k \in 1..n : name[k] = input[k]
    BY <1>1, <1>5, SubSeqProperties
  <2>2. HasAt(input, F, 0)
    <3>1. name[1] = input[1] /\ 0 < Len(input) /\ 0 + 1 = 1
      BY <1>1, <1>5, <2>1
    <3> QED
      BY <1>1, <3>1 DEF HasAt
  <2>3. ASSUME NEW k \in 1..(n - 1) PROVE HasAt(input, S, k)
    <3>1. k + 1 \in 1..n /\ k + 1 \in 2..n /\ k < Len(input)
      BY <1>1, <1>5
    <3> QED
      BY <1>1, <2>1, <3>1 DEF HasAt
  <2>4. ~(j < n)
    BY <1>1, <1>3, <2>2, <2>3
  <2>5. ~(n < j)
    BY <1>1, <1>3, <1>5, <2>2
  <2>6. n = j
    BY <1>1, <1>3, <2>2, <2>4, <2>5
  <2> QED
    BY <1>3, <1>5, <2>2, <2>6
<1> QED
  BY <1>2, <1>4, <1>5 DEF word

(* What the run has shown of its root is the property.                      *)
LEMMA WordRight ==
  ASSUME WordRun
  PROVE  WordOrReserved
<1> SUFFICES ASSUME Finished
             PROVE  WordOrReserved
  BY DEF WordOrReserved
<1> DEFINE k    == goal.kind
           word == WordIn(k)
           next == NextToken(input, lang)
<1>1. stack = << >> /\ mode = "return" /\ (Accepted <=> res.ok) /\ (Rejected <=> ~res.ok)
  BY DEF WordRun, SpaceRun, Consumption, Finished, Accepted, Rejected
<1>2. node = Root(goal) /\ st.index = 0 /\ input \in Seq(Nat)
  BY <1>1 DEF WordRun, Rooted, Initial, SpaceRun, Consumption
<1>3. PICK q : LexemeFrom(input, goal, 0, q, res)
  BY <1>1, <1>2 DEF WordRun, WordsFound, LexemeShown
<1>4. /\ PartShown(input, goal, Root(goal).p, 0, q)
      /\ ~q.ok => ~res.ok /\ res.consumed = q.consumed
      /\ q.ok => IF next[q.st.index] = Unclosed(input) THEN ~res.ok
                 ELSE res.ok /\ res.st.index = next[q.st.index] /\ res.val = q.val
  BY <1>3 DEF LexemeFrom, lang
<1>5. EndsToken(Len(word)) <=>
        next[Len(word)] # Unclosed(input) /\ (res.ok => res.st.index = next[Len(word)])
  BY <1>1 DEF EndsToken
<1> HIDE DEF next
<1>6. ASSUME ~IsKey(goal)
      PROVE  /\ res.ok <=> /\ word # << >> /\ word \notin Table(lang, k)
                           /\ EndsToken(Len(word))
             /\ res.ok => res.val = word
  <2> DEFINE j == StretchEnd(input, Accepts[Others(goal)], 1)
  <2>1. /\ Others(goal) = Letter(lang, k) /\ First(goal) = Start(lang, k)
        /\ Taken(goal) = Table(lang, k)
    BY DEF Others, First, Taken, lang
  <2>2. IF HasAt(input, Accepts[First(goal)], 0)
        THEN word = SubSeq(input, 1, j) /\ Len(word) = j /\ word # << >>
        ELSE word = << >>
    BY <1>2, <2>1, WordSays
  <2>3. WordShown(input, goal, Word(goal), 0, q)
    BY <1>4, <1>6, RootShape DEF PartShown
  <2>4. IF HasAt(input, Accepts[First(goal)], 0) /\ SubSeq(input, 1, j) \notin Taken(goal)
        THEN q.ok /\ q.st.index = j /\ q.val = SubSeq(input, 1, j)
        ELSE ~q.ok
    BY <2>3 DEF WordShown
  <2> HIDE DEF word, j
  <2>5. IF word # << >> /\ word \notin Taken(goal)
        THEN q.ok /\ q.st.index = Len(word) /\ q.val = word
        ELSE ~q.ok
    BY <2>2, <2>4
  <2> QED
    BY <1>4, <1>5, <2>1, <2>5
<1>7. ASSUME IsKey(goal)
      PROVE  /\ res.ok <=> Stands(k, goal.name) /\ EndsToken(Len(goal.name))
             /\ ~res.ok /\ ~Stands(k, goal.name) => ~res.consumed
  <2>1. goal.name \in Seq(Nat)
    BY <1>7 DEF WordRun, WordGoal, IsNamed
  <2>2. EndsBehind(input, goal, 0) <=> Stands(k, goal.name)
    BY <2>1, NameStands
  <2>3. KeywordShown(input, goal, Keyword(goal), 0, q)
    BY <1>4, <1>7, RootShape DEF PartShown
  <2>4. Len(goal.name) \in Nat /\ 0 + Len(goal.name) = Len(goal.name)
    BY <2>1, LenProperties
  <2>5. /\ Stands(k, goal.name) => q.ok /\ q.st.index = Len(goal.name)
        /\ ~Stands(k, goal.name) => ~q.ok
        /\ ~q.ok => ~q.consumed
    BY <2>2, <2>3, <2>4 DEF KeywordShown
  <2>6. EndsToken(Len(goal.name)) <=>
          /\ next[Len(goal.name)] # Unclosed(input)
          /\ res.ok => res.st.index = next[Len(goal.name)]
    BY <1>1 DEF EndsToken, next
  <2>7. res.ok <=> Stands(k, goal.name) /\ EndsToken(Len(goal.name))
    BY <1>4, <2>5, <2>6
  <2>8. ~res.ok /\ ~Stands(k, goal.name) => ~res.consumed
    BY <1>4, <2>5
  <2> QED
    BY <2>7, <2>8
<1>8. ASSUME IsKey(goal), IsWord(k, goal.name)
      PROVE  res.ok <=> word = goal.name /\ EndsToken(Len(word))
  <2>1. goal.name \in Seq(Nat)
    BY <1>8 DEF WordRun, WordGoal, IsNamed
  <2>2. Stands(k, goal.name) <=> word = goal.name
    BY <1>2, <1>8, <2>1, ReservedIsWord
  <2> HIDE DEF word
  <2> QED
    BY <1>7, <1>8, <2>2
<1> QED
  BY <1>1, <1>6, <1>7, <1>8 DEF WordOrReserved, WordRun, WordGoal, WordKinds, IsKey

(* The run starts with its root, before the first character.                *)
LEMMA WordStart ==
  ASSUME TaskInit, goal.kind \in WordKinds
  PROVE  WordRun
<1>1. PICK task \in Tasks : goal = task.goal /\ InitOn(task.parser)
  BY DEF TaskInit
<1>2. IsWordTask(goal.lang, task)
  BY <1>1, WordTasksAssumption
<1>3. WordGoal
  BY <1>1, <1>2 DEF WordGoal, IsNamed, IsWordTask, First, Others, IsKey, lang
<1>4. task.parser = Root(goal)
  <2>1. CASE goal.kind = "identifier"
    BY <1>1, <1>2, <2>1 DEF IsWordTask, identifier, make_identifier, Root, IsKey, Word,
       First, Others, Taken, Start, Letter, Table, Named
  <2>2. CASE goal.kind = "operator"
    BY <1>1, <1>2, <2>2 DEF IsWordTask, operator_, make_operator, Root, IsKey, Word,
       First, Others, Taken, Start, Letter, Table, Named
  <2>3. CASE goal.kind = "reserved"
    BY <1>1, <1>2, <2>3 DEF IsWordTask, reserved, Root, IsKey, Keyword, Others, Letter, Named
  <2>4. CASE goal.kind = "reserved_op"
    BY <1>1, <1>2, <2>4 DEF IsWordTask, reserved_op, Root, IsKey, Keyword, Others, Letter,
       Named
  <2> QED
    BY <2>1, <2>2, <2>3, <2>4 DEF WordKinds
<1>5. mode = "call" /\ node = Root(goal) /\ st = Initial /\ stack = << >> /\ Len(stack) = 0
  BY <1>1, <1>4 DEF InitOn
<1>6. Linked /\ Rooted /\ WordsFound
  BY <1>5 DEF Linked, Rooted, WordsFound, Runs
<1> QED
  BY <1>3, <1>5, <1>6, SpaceStart DEF WordRun

(* identifier and operator_ take the word that the text starts with exactly *)
(* when it is not reserved; reserved and reserved_op take their name exactly *)
(* where no letter goes on behind it, so of a word never a part.  It holds  *)
(* for every language whose letters are parsers of one character, every     *)
(* text and table, and every string that is reserved: also one that is no   *)
(* word of the language, as _ccall_ of haskell_def, and the empty one.      *)
THEOREM WordsTaken ==
  ASSUME WordFunctions
  PROVE  TaskSpec => []WordOrReserved
<1> DEFINE IInv == goal.kind \in WordKinds => WordRun
<1>1. TaskInit => IInv
  BY WordStart
<1>2. IInv /\ [TaskNext]_taskVars => IInv'
  <2>1. [TaskNext]_taskVars => goal' = goal
    BY DEF TaskNext, taskVars
  <2> QED
    BY <2>1, WordStep
<1>3. IInv => WordOrReserved
  BY WordRight DEF WordOrReserved
<1> QED
  BY <1>1, <1>2, <1>3, PTL DEF TaskSpec
=============================================================================
