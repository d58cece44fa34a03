------------------------------ MODULE WordTokens ------------------------------
(***************************************************************************)
(* Identifiers, operators and reserved words: which word a text starts     *)
(* with, and what the parsers of a language make of it.                    *)
(***************************************************************************)
EXTENDS WhiteSpace

(* Letters: parsers of one character, or an alternative of two letters, and *)
(* the characters they accept.                                              *)
CONSTANT Accepts

ASSUME AcceptsAssumption ==
  \A p \in DOMAIN Accepts :
    \/ p.op = "token_prim" /\ Accepts[p] = p.accepts
    \/ /\ p.op = "label" /\ p.p \in DOMAIN Accepts
       /\ Accepts[p] = Accepts[p.p]
    \/ /\ p.op = "alt" /\ {p.p, p.q} \subseteq DOMAIN Accepts
       /\ Accepts[p] = Accepts[p.p] \cup Accepts[p.q]

WordKinds == {"identifier", "operator", "reserved", "reserved_op"}

(* The letters of a kind of word, the first and the others, and the table   *)
(* of those that are reserved.                                              *)
Named(kind)   == kind \in {"identifier", "reserved"}
Start(l, kind)  == IF Named(kind) THEN l.ident_start ELSE l.op_start
Letter(l, kind) == IF Named(kind) THEN l.ident_letter ELSE l.op_letter
Table(l, kind)  == IF Named(kind) THEN l.reserved_names ELSE l.reserved_op_names

IsWordTask(l, task) ==
  LET kind == task.goal.kind
  IN  /\ {Start(l, kind), Letter(l, kind)} \subseteq DOMAIN Accepts
      /\ kind = "identifier" => task.parser = identifier(l)
      /\ kind = "operator" => task.parser = operator_(l)
      /\ kind = "reserved" => task.parser = reserved(l, task.goal.name)
      /\ kind = "reserved_op" => task.parser = reserved_op(l, task.goal.name)
      /\ kind \in {"reserved", "reserved_op"} => task.goal.name \in Seq(Nat)

ASSUME WordTasksAssumption ==
  \A task \in Tasks : task.goal.kind \in WordKinds => IsWordTask(task.goal.lang, task)

-----------------------------------------------------------------------------
CharAt(S, i) == HasAt(input, S, i)
After(S, i)  == StretchEnd(input, S, i)

(* The token that ends at i is all of the text but white space.             *)
EndsToken(i) ==
  LET next == NextToken(input, lang)[i]
  IN  /\ next # Unclosed(input)
      /\ Accepted => res.st.index = next

(* The word that the text starts with, to its last letter.                  *)
WordEnd(kind) ==
  IF CharAt(Accepts[Start(lang, kind)], 0) THEN After(Accepts[Letter(lang, kind)], 1) ELSE 0

WordIn(kind) == SubSeq(input, 1, WordEnd(kind))

(* Any string can be reserved; some are no words of the language, as _ccall_ *)
(* of haskell_def, whose identifiers start with a letter.                   *)
IsWord(kind, name) ==
  /\ name # << >>
  /\ name[1] \in Accepts[Start(lang, kind)]
  /\ \A k \in 2..Len(name) : name[k] \in Accepts[Letter(lang, kind)]

(* The text starts with the name, and no letter goes on behind it.           *)
Stands(kind, name) ==
  /\ Len(name) <= Len(input)
  /\ SubSeq(input, 1, Len(name)) = name
  /\ ~CharAt(Accepts[Letter(lang, kind)], Len(name))

(* identifier and operator_ take a whole word that is not reserved.         *)
(* reserved(name) and reserved_op(name) take the name where no letter is    *)
(* behind it, and nothing elsewhere; if the name is a word, that is where   *)
(* the text's word is the name.  So of a word in the table exactly its own  *)
(* reserved(name) accepts it, and of a longer one that starts with a        *)
(* reserved one only identifier; a name in the table that is no word is     *)
(* never an identifier either.                                              *)
WordOrReserved ==
  Finished /\ goal.kind \in WordKinds =>
    LET kind == goal.kind
        word == WordIn(kind)
    IN  IF kind \in {"identifier", "operator"}
        THEN /\ Accepted <=> /\ word # << >> /\ word \notin Table(lang, kind)
                             /\ EndsToken(Len(word))
             /\ Accepted => res.val = word
        ELSE /\ Accepted <=> Stands(kind, goal.name) /\ EndsToken(Len(goal.name))
             /\ IsWord(kind, goal.name) =>
                  (Accepted <=> word = goal.name /\ EndsToken(Len(word)))
             /\ Rejected /\ ~Stands(kind, goal.name) => ~res.consumed

(* README.md: "same semantics as the original: consumed/empty tracking".    *)
(* Parsec's identifier is a lexeme of a try: where it meets a reserved name *)
(* it takes nothing, and an alternative may take the name.                  *)
ReservedNameIsLeft ==
  Rejected /\ goal.kind \in {"identifier", "operator"} => ~res.consumed
=============================================================================
