------------------------------- MODULE Languages -------------------------------
(***************************************************************************)
(* The language definitions of include/parsecpp/language.hpp.              *)
(*                                                                         *)
(* Of each table of reserved names there are a few: what a parser can tell *)
(* apart is whether a name is in the table and which one starts another.   *)
(* case_sensitive is left out: no code reads it.                           *)
(***************************************************************************)
EXTENDS TokenParsers

(* Names and operators as the sequences of their characters.                *)
kw_as    == << 97, 115 >>
kw_async == << 97, 115, 121, 110, 99 >>
kw_do    == << 100, 111 >>
kw_if    == << 105, 102 >>
kw_in    == << 105, 110 >>
kw_infix == << 105, 110, 102, 105, 120 >>
kw_ccall == << 95, 99, 99, 97, 108, 108, 95 >>
op_plus  == << 43 >>
op_star  == << 42 >>
op_power == << 42, 42 >>
op_eq    == << 61 >>
op_arrow == << 61, 62 >>
op_colons == << 58, 58 >>

(* :!#$%&*+./<=>?@\^|-~                                                     *)
op_chars == {58, 33, 35, 36, 37, 38, 42, 43, 46, 47, 60, 61, 62, 63, 64, 92, 94,
             124, 45, 126}

(* LanguageDef's own defaults.                                              *)
LanguageDef ==
  [comment_start     |-> << >>,
   comment_end       |-> << >>,
   comment_line      |-> << >>,
   nested_comments   |-> TRUE,
   ident_start       |-> satisfy(Uppers \cup Lowers \cup {95}),
   ident_letter      |-> satisfy(Uppers \cup Lowers \cup Digits \cup {95}),
   op_start          |-> one_of(op_chars),
   op_letter         |-> one_of(op_chars),
   reserved_names    |-> {},
   reserved_op_names |-> {}]

empty_def ==
  [LanguageDef EXCEPT !.ident_start  = alt(letter, char_(95)),
                      !.ident_letter = alt(alpha_num, one_of({95, 39}))]

(* {- -}, nested, and --                                                    *)
haskell_style ==
  [empty_def EXCEPT !.comment_start = << 123, 45 >>,
                    !.comment_end   = << 45, 125 >>,
                    !.comment_line  = << 45, 45 >>,
                    !.ident_start   = letter]

(* /* */, nested, and //                                                    *)
java_style ==
  [empty_def EXCEPT !.comment_start = << 47, 42 >>,
                    !.comment_end   = << 42, 47 >>,
                    !.comment_line  = << 47, 47 >>,
                    !.ident_start   = letter]

python_style ==
  [empty_def EXCEPT !.comment_line      = << 35 >>,
                    !.nested_comments   = FALSE,
                    !.ident_letter      = alt(alpha_num, char_(95)),
                    !.reserved_names    = {kw_if, kw_as, kw_async},
                    !.reserved_op_names = {op_plus, op_star, op_power, op_eq}]

haskell98_def ==
  [haskell_style EXCEPT !.reserved_names    = {kw_if, kw_in, kw_infix, kw_do},
                        !.reserved_op_names = {op_colons, op_eq, op_arrow}]

(* _ccall_ does not begin as an identifier of this language does.            *)
haskell_def ==
  [haskell98_def EXCEPT !.ident_letter   = alt(@, char_(35)),
                        !.reserved_names = @ \cup {kw_ccall}]
=============================================================================
