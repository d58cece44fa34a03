------------------------------ MODULE WhiteSpace ------------------------------
(***************************************************************************)
(* What white space is, by a language's definition alone: where a stretch  *)
(* of characters, a comment, and the blanks and comments before a token    *)
(* end.  None of it is computed the way the parsers of token.hpp do.       *)
(*                                                                         *)
(* A place in a text is a cursor: 0 before its first character.            *)
(***************************************************************************)
EXTENDS ParserTasks, Languages

(* What the constructor of TokenParser takes: markers are strings, and a    *)
(* block comment has both or neither.                                       *)
IsLanguage(l) ==
  /\ Constructible(l)
  /\ {l.comment_start, l.comment_end, l.comment_line} \subseteq Seq(Nat)
  /\ l.nested_comments \in BOOLEAN

ASSUME LanguagesAssumption == \A task \in Tasks : IsLanguage(task.goal.lang)

lang == goal.lang

-----------------------------------------------------------------------------
Occurs(text, marker, i) ==
  /\ marker # << >>
  /\ i + Len(marker) <= Len(text)
  /\ SubSeq(text, i + 1, i + Len(marker)) = marker

HasAt(text, S, i) == i < Len(text) /\ text[i + 1] \in S

(* After the longest stretch of characters of S that starts at i.           *)
StretchEnd(text, S, i) ==
  CHOOSE j \in i..Len(text) :
     (\A k \in i..(j - 1) : HasAt(text, S, k)) /\ ~HasAt(text, S, j)

Unclosed(text) == Len(text) + 1  \* the end of a comment that has none

(* Where the comment ends whose text goes on at i.  A nested comment is part *)
(* of the text.                                                             *)
CommentEnd(text, l) ==
  LET ends[i \in 0..Unclosed(text)] ==
        IF i >= Len(text) THEN Unclosed(text)
        ELSE IF Occurs(text, l.comment_end, i) THEN i + Len(l.comment_end)
        ELSE IF l.nested_comments /\ Occurs(text, l.comment_start, i)
             THEN ends[ends[i + Len(l.comment_start)]]
        ELSE ends[i + 1]
  IN  ends

(* Where the blank or the comment at i ends, and i where there is none.  A   *)
(* line comment goes on to the end of the line behind its marker.           *)
GapEnd(text, l, i) ==
  IF HasAt(text, WhiteChars, i) THEN i + 1
  ELSE IF Occurs(text, l.comment_line, i)
       THEN StretchEnd(text, AnyChar \ {NL}, i + Len(l.comment_line))
  ELSE IF Occurs(text, l.comment_start, i)
       THEN CommentEnd(text, l)[i + Len(l.comment_start)]
  ELSE i

(* Where the next token starts that is at i or after it: behind the blanks   *)
(* and comments.                                                            *)
NextToken(text, l) ==
  LET next[i \in 0..Unclosed(text)] ==
        IF GapEnd(text, l, i) = i THEN i ELSE next[GapEnd(text, l, i)]
  IN  next

(* Every time white space is skipped, before a token or after one, the next *)
(* token is found exactly: no part of it is taken for a comment, no comment *)
(* is left, at any depth of nesting and whatever characters the markers     *)
(* share.  An unclosed comment is a failure that no alternative can hide,   *)
(* reported where the input ends.                                           *)
WhiteSpaceEndsAtNextToken ==
  mode = "return" /\ node = white_space(lang) =>
     LET start == NextToken(input, lang)[st.index]
     IN  IF start = Unclosed(input)
         THEN /\ ~res.ok /\ res.consumed
              /\ res.err = with_message(PosAt(input, Len(input)), UnExpect, TextEndInComment)
         ELSE res.ok /\ res.st.index = start
=============================================================================
