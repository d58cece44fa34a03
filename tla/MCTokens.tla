------------------------------- MODULE MCTokens -------------------------------
(***************************************************************************)
(* TokenProperties on the languages of language.hpp and on languages whose *)
(* markers overlap, over all short texts of the characters that matter to  *)
(* each token.                                                             *)
(***************************************************************************)
EXTENDS TokenProperties

(* One line comments start as block comments do; the markers of a block     *)
(* comment are the same; a language whose comments do not nest.             *)
lua_like ==
  [LanguageDef EXCEPT !.comment_line  = << 45, 45 >>,
                      !.comment_start = << 45, 91 >>, !.comment_end = << 93 >>]
shadowed ==
  [LanguageDef EXCEPT !.comment_line  = << 45, 45 >>,
                      !.comment_start = << 45, 45, 91 >>, !.comment_end = << 93 >>]
same_markers ==
  [LanguageDef EXCEPT !.comment_start = << 124, 124 >>, !.comment_end = << 124, 124 >>]
c_style == [java_style EXCEPT !.nested_comments = FALSE]

(* All texts of at most n pieces.                                           *)
TextsOf(pieces, n) ==
  LET texts[k \in 0..n] ==
        {<< >>} \cup (IF k = 0 THEN {} ELSE {p \o t : p \in pieces, t \in texts[k - 1]})
  IN  texts[n]

Chars(S) == {<< c >> : c \in S}

Task(kind, l, parser, texts) ==
  [goal |-> [kind |-> kind, lang |-> l], parser |-> parser, texts |-> texts]

For(what, task) == [task EXCEPT !.goal = what @@ @]

White(l, pieces, n) == Task("white", l, white_space(l), TextsOf(pieces, n))

Commented ==
  {White(haskell_style, {<< 123, 45 >>, << 45, 125 >>, << 45 >>, << 123 >>, << NL >>}, 4),
   White(c_style, {<< 47, 42 >>, << 42, 47 >>, << 42 >>, << 32, 47 >>, << NL >>}, 4),
   White(java_style, {<< 47, 42 >>, << 42, 47 >>, << 42 >>, << 47 >>}, 4),
   White(python_style, Chars({35, NL, TAB, 97}), 4),
   White(empty_def, Chars({32, NL, 97}), 3),
   White(lua_like, {<< 45, 91 >>, << 45 >>, << 93 >>, << NL >>}, 4),
   White(shadowed, {<< 45, 45, 91 >>, << 45 >>, << 93 >>, << NL >>}, 4),
   White(same_markers, {<< 124 >>, << 124, 124 >>, << 97 >>}, 4)}

names     == TextsOf(Chars({102, 105, 110, 95, 39, 35, 32}), 3)
             \cup {kw_infix, kw_infix \o << 108 >>, << 123, 45 >>,
                   kw_in \o << 123, 45, 45, 125 >>, kw_in \o << 123, 45 >>}
             \cup {kw_ccall \o t : t \in {<< >>, << 32 >>, << 35 >>, << 97 >>, << 123, 45 >>}}
             \cup {kw_as, kw_async, kw_as \o << 32 >>, << 97, 115, 121 >>}
operators == TextsOf(Chars({42, 61, 62, 32, 97}), 3)

Identifier(l)     == Task("identifier", l, identifier(l), names)
Operator(l)       == Task("operator", l, operator_(l), operators)
Reserved(l, name) == For([name |-> name], Task("reserved", l, reserved(l, name), names))
ReservedOp(name)  == For([name |-> name],
                         Task("reserved_op", python_style,
                              reserved_op(python_style, name), operators))

Words ==
  {Identifier(haskell_def), Identifier(python_style), Identifier(java_style),
   Operator(haskell_def), Operator(python_style), Operator(java_style)}

ReservedWords ==
  {Reserved(haskell_def, name) : name \in {kw_in, kw_if, kw_infix, kw_ccall, << >>}}
  \cup {Reserved(python_style, name) : name \in {kw_as, kw_async}}
  \cup {ReservedOp(name) : name \in {op_star, op_power, op_eq}}

integers ==
  TextsOf(Chars({45, 48, 49, 57, 120}), 4)
  \cup {<< 48, 120, 54, 52 >>, << 48, 120, 54, 51 >>, << 43, 48, 111, 49 >>,
        << 48, 88, 97, 70 >>, << 48, 111, 56 >>, << 45, 49, 48, 48 >>,
        << 48, 111, 49, 52, 51 >>, << 48, 111, 49, 52, 52, 32 >>}

floats ==
  TextsOf(Chars({45, 46, 48, 49, 101}), 4)
  \cup {<< 49 >> \o t : t \in TextsOf(Chars({46, 48, 49, 101}), 4)}
  \cup {<< 48, 46, 48, 48, 49 >>, << 48, 46, 48, 48, 48 >>, << 49, 46, 48, 101, 45, 49 >>,
        << 48, 101, 49, 48, 48 >>, << 49, 101, 43, 50 >>, << 49, 101, 43, 51 >>,
        << 49, 101, 49, 48, 48 >>, << 43, 50, 46, 53, 69, 45, 49, 32 >>}

Numbers ==
  {Task("natural", empty_def, natural(empty_def), integers),
   Task("integer", haskell_style, integer(haskell_style), integers),
   Task("float", empty_def, float_(empty_def), floats)}

Quoted(quote, S, n) == {<< >>, << 97 >>} \cup {<< quote >> \o s : s \in TextsOf(Chars(S), n)}

Literals ==
  {Task("string", empty_def, string_literal(empty_def), Quoted(34, {34, 92, 110, 39}, 5)),
   Task("char", empty_def, char_literal(empty_def), Quoted(39, {39, 92, 98, 97}, 4))}

(* The words of a phrase, each with every sort of white space behind it.    *)
Spaced(words, blanks) ==
  LET from[k \in 1..(Len(words) + 1)] ==
        IF k > Len(words) THEN {<< >>}
        ELSE {words[k] \o blank \o rest : blank \in blanks, rest \in from[k + 1]}
  IN  from[1]

Phrase(l, parser, words, blanks, value) ==
  For([value |-> value], Task("phrase", l, parser, Spaced(words, blanks)))

hs == haskell_def
py == python_style
hsBlanks == {<< >>, << 32, 123, 45, 45, 125, 45, 45, NL >>}
pyBlanks == {<< >>, << 35, 44, NL >>}

Phrases ==
  {Phrase(hs, parens(hs, comma_sep(hs, natural(hs))),
          << << 40 >>, << 49 >>, << 44 >>, << 48, 120, 102 >>, << 41 >> >>, hsBlanks,
          << 1, 15 >>),
   Phrase(hs, then(reserved(hs, kw_do), semi_sep1(hs, both(identifier(hs), operator_(hs)))),
          << kw_do \o << 32 >>, << 97 >>, << 43 >>, << 59 >>, << 98 >>, << 42 >> >>,
          hsBlanks, << 97, 43, 98, 42 >>),
   Phrase(py, braces(py, comma_sep1(py, both(string_literal(py), then(colon(py), integer(py))))),
          << << 123 >>, << 34, 97, 34 >>, << 58 >>, << 45, 49, 44 >>,
             << 34, 34, 58, 43, 50 >>, << 125 >> >>, pyBlanks, << 97, -1, 2 >>),
   Phrase(py, then(reserved_op(py, op_power),
                   brackets(py, semi_sep(py, angles(py, sep_by1(decimal(py), dot(py)))))),
          << op_power \o << 32 >>, << 91 >>, << 60 >>, << 49 >>, << 46, 50 >>, << 62, 93 >> >>,
          pyBlanks, << 1, 2 >>),
   Phrase(py, both(both(float_(py), char_literal(py)), both(hexadecimal(py), octal(py))),
          << << 49, 46, 53 >>, << 39, 97, 39 >>, << 120, 49 >>, << 111, 55 >> >>, pyBlanks,
          << 15, -1, 97, 1, 7 >>)}

AllTasks == Commented \cup Words \cup ReservedWords \cup Numbers \cup Literals \cup Phrases
AllTexts == UNION {task.texts : task \in AllTasks}
AllChars == {TAB, NL} \cup 32..62 \cup {69, 70, 88, 91, 92, 93, 95} \cup 97..102
            \cup {105, 108, 110, 111, 115, 120, 121, 123, 124, 125}

ASSUME \A text \in AllTexts : \A i \in DOMAIN text : text[i] \in AllChars

(* The letters of those languages, with their parts, and what they accept.  *)
RECURSIVE PartsOf(_)
PartsOf(p) == {p} \cup CASE p.op = "label" -> PartsOf(p.p)
                         [] p.op = "alt"   -> PartsOf(p.p) \cup PartsOf(p.q)
                         [] OTHER          -> {}

RECURSIVE CharsOf(_)
CharsOf(p) == CASE p.op = "token_prim" -> p.accepts
                [] p.op = "label"      -> CharsOf(p.p)
                [] p.op = "alt"        -> CharsOf(p.p) \cup CharsOf(p.q)

Letters ==
  UNION {PartsOf(l.ident_start) \cup PartsOf(l.ident_letter)
         \cup PartsOf(l.op_start) \cup PartsOf(l.op_letter) :
           l \in {task.goal.lang : task \in AllTasks}}

MCAccepts     == [p \in Letters |-> CharsOf(p)]
MCTasks       == AllTasks
ReservedTasks == Words
MCAnyChar     == AllChars
MCInputs      == AllTexts
MCCounted     == {}
MCProduce     == << >>
MCRoots       == {}
MCUserContinuation(k, v) == TokenContinuation(k, v)
MCUserTransform(f, v)    == TokenTransform(f, v)
MCUserThrows(f, v)       == TokenThrows(f, v)
=============================================================================
