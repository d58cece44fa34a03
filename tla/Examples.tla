------------------------------- MODULE Examples -------------------------------
(***************************************************************************)
(* The grammars of the example programs, calculator.cpp and                *)
(* json_parser.cpp.  A number is spelled the way stod read it; a JSON      *)
(* value is spelled without blanks, a number in it after a mark.           *)
(***************************************************************************)
EXTENDS ExprParsers, TokenParsers

-----------------------------------------------------------------------------
(* examples/calculator.cpp *)
DOT == 46

(* stod reads digits and one dot, up to the second dot.                     *)
StodPart(s) ==
  LET dots == {i \in DOMAIN s : s[i] = DOT}
      later == {i \in dots : \E j \in dots : j < i}
  IN  IF later = {} THEN s
      ELSE SubSeq(s, 1, (CHOOSE i \in later : \A j \in later : i <= j) - 1)

number == map(take_while1(Digits \cup (AnyChar \cap {DOT})), [fn |-> "stod_part"])

factor == then(spaces, alt(between(char_(40), char_(41), lazy("expr")), number))

calc_op(c) == Infix(then(spaces, char_(c)), "left")

\* Mutant: the operators of the two levels have changed places.
ExprSwapped == build_expression_parser(<< << calc_op(43), calc_op(45) >>,
                                          << calc_op(42), calc_op(47) >> >>, factor)

expr == build_expression_parser(<< << calc_op(42), calc_op(47) >>,
                                   << calc_op(43), calc_op(45) >> >>, factor)

(* What main runs on a line.                                                *)
calculator == skip(skip(expr, spaces), eof)

-----------------------------------------------------------------------------
(* examples/json_parser.cpp *)
means(v) == [fn |-> "means", value |-> v]

json_null == map(string_(<< 110, 117, 108, 108 >>), means(<< 110 >>))
json_bool == alt(map(string_(<< 116, 114, 117, 101 >>), means(<< 116 >>)),
                 map(string_(<< 102, 97, 108, 115, 101 >>), means(<< 102 >>)))

json_digits == take_while1(Digits)
json_frac   == map(then(char_(DOT), json_digits), [fn |-> "prepend", head |-> << DOT >>])
json_exp    ==
  bind(then(one_of({69, 101}), option(<< >>, map(one_of({43, 45}), [fn |-> "same"]))),
       [fn |-> "json_exp"])
json_number ==
  bind(option(<< >>, map(char_(45), [fn |-> "same"])), [fn |-> "json_sign"])

json_escape ==
  then(char_(92), choice(<< char_(34), char_(92), char_(47), escape(110, 10),
                            escape(116, 9), escape(114, 13), escape(98, 8),
                            escape(102, 12) >>))
json_string_val ==
  between(char_(34), char_(34),
          map(many(alt(satisfy(AnyChar \ {34, 92}), json_escape)),
              [fn |-> "json_wrap", open |-> 34, close |-> 34]))

json_array ==
  map(between(then(char_(91), spaces), then(spaces, char_(93)),
              sep_by(then(spaces, skip(lazy("json_value"), spaces)), char_(44))),
      [fn |-> "json_wrap", open |-> 91, close |-> 93])

json_key == between(char_(34), char_(34), map(many(satisfy(AnyChar \ {34})), [fn |-> "same"]))

\* Mutant: blanks are skipped behind a member as behind an item.
JsonPairSkips == skip(bind(skip(skip(then(spaces, json_key), spaces), char_(58)),
                           [fn |-> "json_member"]), spaces)

json_pair ==
  bind(skip(skip(then(spaces, json_key), spaces), char_(58)), [fn |-> "json_member"])

json_object ==
  map(between(then(char_(123), spaces), then(spaces, char_(125)),
              sep_by(json_pair, char_(44))),
      [fn |-> "json_wrap", open |-> 123, close |-> 125])

json_value ==
  then(spaces, choice(<< json_null, json_bool, json_number, json_string_val,
                         json_array, json_object >>))

json_parser == skip(skip(json_value, spaces), eof)

-----------------------------------------------------------------------------
(* The lambdas of both programs.                                            *)
ExampleContinuation(k, v) ==
  CASE k.fn = "json_sign"   -> bind(json_digits, [fn |-> "json_int", s |-> v])
    [] k.fn = "json_int"    ->
         bind(option(<< >>, json_frac), [fn |-> "json_frac", s |-> k.s, d |-> v])
    [] k.fn = "json_frac"   ->
         map(option(<< >>, json_exp), [fn |-> "json_stod", s |-> k.s, d |-> k.d, f |-> v])
    [] k.fn = "json_exp"    ->
         map(json_digits, [fn |-> "prepend", head |-> << 101 >> \o v])
    [] k.fn = "json_member" ->
         map(then(spaces, lazy("json_value")),
             [fn |-> "prepend", head |-> << 34 >> \o v \o << 34, 58 >>])

ExampleTransform(f, v) ==
  CASE f.fn = "stod_part" -> StodPart(v)
    [] f.fn = "json_stod" -> << 35 >> \o f.s \o f.d \o f.f \o v
    [] f.fn = "json_wrap" -> << f.open >> \o v \o << f.close >>

(* On a text without a sign: std::invalid_argument where it reads no digit, *)
(* std::out_of_range on what double does not hold.                          *)
StodThrows(s) ==
  LET mark == SelectInSeq(s, LAMBDA c : c = DOT)
      ds   == IF mark = 0 THEN s ELSE SubSeq(s, 1, mark - 1)
      frac == IF mark = 0 THEN << >> ELSE SubSeq(s, mark + 1, Len(s))
  IN  ds \o frac = << >> \/ OutOfRange(ds, frac, 0)

ExampleThrows(f, v) ==
  \/ f.fn = "stod_part" /\ StodThrows(StodPart(v))
  \/ /\ f.fn = "json_stod"
     /\ LET frac   == IF f.f = << >> THEN << >> ELSE Tail(f.f)
            signed == Len(v) > 1 /\ v[2] \in {43, 45}
            power  == Numeral(10, SubSeq(v, IF signed THEN 3 ELSE 2, Len(v)))
            exp    == IF signed /\ v[2] = 45 THEN -power ELSE power
        IN  OutOfRange(f.d, frac, exp)

ExampleContinuations == {"json_sign", "json_int", "json_frac", "json_exp", "json_member"}
ExampleTransforms    == {"stod_part", "json_stod", "json_wrap"}
=============================================================================
