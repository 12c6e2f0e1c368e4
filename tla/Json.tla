-------------------------------- MODULE Json --------------------------------
(***************************************************************************)
(* The JSON tokenizer (string_parse_json() in lib/m_string.c), one         *)
(* character at a time, in strict mode or not.  A literal (true, null) is  *)
(* one character here, comments, hexadecimal numbers and the callbacks     *)
(* are left out.  Beside it runs the grammar of RFC 7159 itself, so that   *)
(* texts of any length are compared.                                       *)
(***************************************************************************)
EXTENDS Integers, Sequences, SequencesExt

CONSTANT Depth   (* bound: of the brackets                                  *)

Chars == {"{", "[", "}", "]", ",", ":", "quote", "single", "\\", "0", "1", "-", "+",
          ".", "e", "true", " ", "newline", "x", "control"}

VARIABLES
  strict,     (* the parameter                                             *)
  stack,      (* the tokens still open: type and number of tokens in it    *)
  state,      (* of KEY, VAL, SIG, RAD, EXP, BUG                           *)
  digit,      (* leading_digit                                             *)
  prev,       (* the character before                                      *)
  ok,         (* no error was found                                        *)
  slips,      (* what it let through                                       *)
  open, want  (* the grammar: the brackets open and what may come          *)

parser == <<stack, state, digit, prev>>
grammar == <<open, want>>
vars == <<strict, parser, ok, slips, grammar>>

(* The result of a character: the parser it leaves.                        *)
Leaves(k, f, d) == [stack |-> k, state |-> f, digit |-> d]
S == Leaves(stack, state, digit)
Bad == Leaves(<<>>, {}, "none")
Type(s) == Last(s.stack).type
Prim(s) == Type(s) = "primitive"
Holds(s) == Type(s) \in {"object", "array"}
Has(s, f) == f \in s.state
Set(s, in, out) == Leaves(s.stack, (s.state \ out) \cup in, s.digit)
Lead(s, d) == Leaves(s.stack, s.state, d)

(* string_add_token(); the number of tokens only matters by its parity.    *)
Token(type, n) == [type |-> type, parts |-> n]
Up(n) == IF n = 2 THEN 1 ELSE n + 1
Push(k, type) ==
  Append([i \in DOMAIN k |-> IF i = Len(k) THEN Token(k[i].type, Up(k[i].parts)) ELSE k[i]],
         Token(type, 0))
Add(s, type) == Leaves(Push(s.stack, type), s.state, s.digit)
Delim(s) == Leaves(Front(s.stack), s.state, s.digit)
EndPrim(s) == Lead(Delim(s), "none")

Init ==
  /\ strict \in BOOLEAN
  /\ stack = << Token("root", 0) >> /\ state = {}
  /\ digit = "none" /\ prev = "none" /\ ok = TRUE /\ slips = {}
  /\ open = <<>> /\ want = "value"

(* A quirk: a key without quotation marks.                                 *)
Unquoted(s) == Set(Add(s, "primitive"), {"BUG"}, {"KEY", "VAL"})

Quote(s, c) ==
  IF Type(s) = "dstring" THEN (IF c = "quote" THEN Delim(s) ELSE s)
  ELSE IF Type(s) = "sstring" THEN (IF c = "single" THEN Delim(s) ELSE s)
  ELSE IF Prim(s) \/ (strict /\ (c = "single" \/ (Holds(s) /\ ~ Has(s, "VAL")))) THEN Bad
  ELSE Set(Add(s, IF c = "quote" THEN "dstring" ELSE "sstring"), {}, {"VAL"})

InString(s) == Type(s) \in {"dstring", "sstring"}

Blank(s, c) ==
  IF InString(s) THEN (IF c = "newline" /\ strict THEN Bad ELSE s)
  ELSE IF ~ Prim(s) THEN s
  ELSE IF Has(s, "VAL") THEN Bad
  ELSE Set(EndPrim(s), IF Has(s, "BUG") THEN {"KEY"} ELSE {}, {"BUG", "KEY"})

Literal(s) ==
  IF Prim(s) THEN (IF Has(s, "BUG") THEN s ELSE Bad)
  ELSE IF Holds(s) /\ Has(s, "KEY") THEN (IF strict THEN Bad ELSE Unquoted(s))
  ELSE IF Holds(s) /\ ~ Has(s, "VAL") THEN Bad
  ELSE Delim(Set(Add(s, "primitive"), {}, {"VAL", "RAD", "EXP", "SIG"}))

Exponent(s) ==
  IF Has(s, "RAD") /\ prev = "." THEN Bad
  ELSE IF Has(s, "EXP") \/ s.digit = "none"
  THEN IF strict THEN Bad
       ELSE IF Has(s, "KEY") THEN Unquoted(s)
       ELSE IF Has(s, "BUG") /\ Prim(s) THEN s ELSE Bad
  ELSE Set(s, {"EXP", "VAL"}, {"SIG"})

(* A mutant: an exponent may have a radix point.                           *)
Radix_Anywhere(s) ==
  IF s.digit = "none" \/ Has(s, "RAD") THEN Bad
  ELSE Set(s, {"RAD"} \cup (IF strict THEN {"VAL"} ELSE {}), {"SIG"})

Radix(s) ==
  IF s.digit = "none" \/ Has(s, "RAD") \/ Has(s, "EXP") THEN Bad
  ELSE Set(s, {"RAD"} \cup (IF strict THEN {"VAL"} ELSE {}), {"SIG"})

AfterExp(s) == s.state \cap {"SIG", "EXP", "VAL"} = {"EXP", "VAL"}
Plus(s) == IF AfterExp(s) THEN Set(s, {"SIG", "VAL"}, {}) ELSE Bad
Minus(s) ==
  IF Prim(s) THEN (IF AfterExp(s) THEN Set(s, {"SIG"}, {}) ELSE Bad)
  ELSE IF Holds(s) /\ (Has(s, "KEY") \/ ~ Has(s, "VAL")) THEN Bad
  ELSE Lead(Set(Add(s, "primitive"), {"SIG"}, {"RAD", "EXP"}), "none")

Digit(s, c) ==
  IF s.digit # "none"
  THEN IF s.digit = "0" /\ s.state \cap {"RAD", "EXP"} = {} THEN Bad
       ELSE Lead(Set(s, {}, {"VAL"}), "1")
  ELSE LET d == Lead(s, c) IN
       IF Prim(s) THEN Set(d, {}, {"VAL"})
       ELSE IF Holds(s) /\ Has(s, "KEY") THEN (IF strict THEN Bad ELSE Unquoted(d))
       ELSE IF Holds(s) /\ ~ Has(s, "VAL") THEN Bad
       ELSE Set(Add(d, "primitive"), {}, {"VAL", "RAD", "EXP", "SIG"})

(* What ends a primitive is looked at again in what holds it.              *)
Comma(s) ==
  LET t == IF Prim(s) THEN EndPrim(s) ELSE s IN
  IF strict /\ Has(s, "VAL") THEN Bad
  ELSE IF Holds(t)
  THEN Set(t, IF Type(t) = "object" THEN {"KEY", "VAL"} ELSE {"VAL"}, {"KEY"})
  ELSE IF strict \/ Prim(t) THEN Bad ELSE t

Colon(s) ==
  LET t == IF ~ strict /\ Prim(s) THEN Set(EndPrim(s), {"KEY"}, {"BUG"}) ELSE s IN
  IF t.state \cap {"KEY", "VAL"} # {"KEY"} THEN Bad
  ELSE Set(t, {"VAL"}, {"KEY"})

Open(s, c) ==
  IF Has(s, "KEY") \/ (~ Has(s, "VAL") /\ Type(s) # "root") THEN Bad
  ELSE IF c = "{" THEN Set(Add(s, "object"), {"KEY", "VAL"}, {})
  ELSE Set(Add(s, "array"), {"VAL"}, {"KEY"})

Close(s, c) ==
  LET n == Last(s.stack).parts
      t == IF Prim(s) THEN EndPrim(s) ELSE s
      u == Set(t, {}, {"KEY", "VAL"})
  IN IF \/ strict /\ ((Has(s, "KEY") /\ n % 2 = 1) \/ (Has(s, "VAL") /\ n > 0))
        \/ Has(s, "VAL") /\ ~ Holds(s)
        \/ Type(t) # (IF c = "}" THEN "object" ELSE "array")
     THEN Bad ELSE Delim(u)

Other(s) ==
  IF strict THEN Bad
  ELSE IF Has(s, "KEY") THEN Unquoted(s)
  ELSE IF Has(s, "BUG") /\ Prim(s) THEN s ELSE Bad

(* A backslash and the character after it are one step of the loop.        *)
Escape(s) == IF InString(s) THEN Leaves(Append(s.stack, Token("escape", 0)), s.state, s.digit)
             ELSE Bad
Escaped(s, c) ==
  IF c \in {"quote", "\\", "true"} \/ (~ strict /\ c \in {"single", "newline"})
  THEN Delim(s) ELSE Bad

Parse(s, c) ==
  IF Type(s) = "escape" THEN Escaped(s, c)
  ELSE IF c \in {"quote", "single"} THEN Quote(s, c)
  ELSE IF c = "\\" THEN Escape(s)
  ELSE IF c = "control" THEN Bad
  ELSE IF c \in {" ", "newline"} THEN Blank(s, c)
  ELSE IF InString(s) THEN s
  ELSE IF c = "true" THEN Literal(s)
  ELSE IF c = "e" THEN Exponent(s)
  ELSE IF c = "." THEN Radix(s)
  ELSE IF c = "+" THEN Plus(s)
  ELSE IF c = "-" THEN Minus(s)
  ELSE IF c \in {"0", "1"} THEN Digit(s, c)
  ELSE IF c = "," THEN Comma(s)
  ELSE IF c = ":" THEN Colon(s)
  ELSE IF c \in {"{", "["} THEN Open(s, c)
  ELSE IF c \in {"}", "]"} THEN Close(s, c)
  ELSE Other(s)

(* What strict mode should refuse: a bracket in a number, a key without a  *)
(* value, a sign without a number, a number that begins with a plus sign   *)
(* after one with an exponent.                                             *)
Slip(s, c) ==
  CASE c \in {"{", "["} /\ Prim(s) -> {"bracket"}
    [] c = "," /\ Type(s) = "object" /\ Has(s, "KEY") -> {"key"}
    [] c = "}" /\ Type(s) = "object" /\ Has(s, "KEY") /\ Last(s.stack).parts > 0 -> {"key"}
    [] c \in {" ", "newline"} /\ Prim(s) /\ prev \in {"-", "e", "+", "."} -> {"sign"}
    [] c = "+" /\ Holds(s) -> {"plus"}
    [] OTHER -> {}

----------------------------------------------------------------------------
(* The grammar of RFC 7159; messages may follow one another, a number and  *)
(* what follows it apart.                                                  *)
EndOf(w) == w \in {"zero", "int", "frac", "exp"}
AfterValue == IF open = <<>> THEN "value" ELSE "next"
Number(c) ==
  CASE want = "minus" /\ c = "0" -> "zero"        [] want = "minus" /\ c = "1" -> "int"
    [] want = "int" /\ c \in {"0", "1"} -> "int"
    [] want \in {"zero", "int"} /\ c = "." -> "dot"
    [] want \in {"dot", "frac"} /\ c \in {"0", "1"} -> "frac"
    [] want \in {"zero", "int", "frac"} /\ c = "e" -> "e"
    [] want = "e" /\ c \in {"+", "-"} -> "esign"
    [] want \in {"e", "esign", "exp"} /\ c \in {"0", "1"} -> "exp"
    [] OTHER -> "bad"

G(o, w) == [open |-> o, want |-> w]
Value(c) ==
  CASE c = "[" -> G(Append(open, "array"), "first")
    [] c = "{" -> G(Append(open, "object"), "firstkey")
    [] c = "quote" -> G(open, "string")
    [] c = "-" -> G(open, "minus")   [] c = "0" -> G(open, "zero")   [] c = "1" -> G(open, "int")
    [] c = "true" -> G(open, AfterValue)
    [] OTHER -> G(open, "bad")
Closes(c) == open # <<>> /\ c = (IF Last(open) = "object" THEN "}" ELSE "]")
Pop == G(Front(open), IF Len(open) = 1 THEN "value" ELSE "next")

Follow(w, c) ==
  IF w \in {"string", "key string"}
  THEN G(open, IF c = "quote" THEN (IF w = "string" THEN AfterValue ELSE "colon")
               ELSE IF c = "\\" THEN (IF w = "string" THEN "escape" ELSE "key escape")
               ELSE IF c \in {"newline", "control"} THEN "bad" ELSE w)
  ELSE IF w \in {"escape", "key escape"}
  THEN G(open, IF c \notin {"quote", "\\", "true"} THEN "bad"
               ELSE IF w = "escape" THEN "string" ELSE "key string")
  ELSE IF c \in {" ", "newline"}
  THEN G(open, IF w \in {"minus", "dot", "e", "esign", "bad"} THEN "bad" ELSE w)
  ELSE IF w \in {"first", "firstkey", "next"} /\ Closes(c) THEN Pop
  ELSE IF w \in {"key", "firstkey"} THEN G(open, IF c = "quote" THEN "key string" ELSE "bad")
  ELSE IF w = "colon" THEN G(open, IF c = ":" THEN "value" ELSE "bad")
  ELSE IF w = "next"
  THEN G(open, IF c # "," THEN "bad" ELSE IF Last(open) = "object" THEN "key" ELSE "value")
  ELSE IF w \in {"value", "first"} THEN Value(c)
  ELSE G(open, "bad")

Grammar(c) ==
  IF Number(c) # "bad" THEN G(open, Number(c))
  ELSE IF EndOf(want) THEN (IF c \in {" ", "newline"} THEN G(open, AfterValue)
                            ELSE IF open = <<>> THEN G(open, "bad")
                            ELSE Follow(AfterValue, c))
  ELSE Follow(want, c)

Next ==
  /\ ok /\ want # "bad" /\ \E c \in Chars :
       LET s == Parse(S, c)  g == Grammar(c) IN
       /\ Len(open) < Depth \/ c \notin {"{", "["} \/ want \in {"string", "key string"}
       /\ stack' = s.stack /\ state' = s.state /\ digit' = s.digit
       /\ ok' = (s # Bad) /\ prev' = c
       /\ slips' = IF s = Bad THEN slips ELSE slips \cup Slip(S, c)
       /\ open' = g.open /\ want' = g.want /\ UNCHANGED strict

Spec == Init /\ [][Next]_vars

----------------------------------------------------------------------------
(* Strict mode follows RFC 7159 (lib/m_string.h): every character it takes *)
(* the grammar takes.                                                      *)
FollowsRfc == ok => want # "bad"

(* But for four things it lets through, it does; and whatever the mode,   *)
(* it refuses no character that the grammar takes.                         *)
JsonSound == ok /\ slips = {} => want # "bad"
JsonComplete == want # "bad" => ok
JsonSafe == (strict => JsonSound) /\ JsonComplete
----------------------------------------------------------------------------
(* The inductive invariant: until one of them refuses, the parser is where *)
(* the grammar is.  The tokens it has open are the brackets, and the       *)
(* string or the number it is in; it has counted what they hold so far;    *)
Types == {"root", "object", "array", "dstring", "sstring", "primitive", "escape"}
Wants == {"value", "first", "firstkey", "key", "colon", "next", "string", "key string",
          "escape", "key escape", "minus", "zero", "int", "dot", "frac", "e", "esign", "exp", "bad"}
TypeOK ==
  /\ strict \in BOOLEAN /\ ok \in BOOLEAN
  /\ open \in Seq({"object", "array"}) /\ want \in Wants

InNumber(w) == w \in {"minus", "zero", "int", "dot", "frac", "e", "esign", "exp"}
InKey(w) == w \in {"key string", "key escape"}
Inside(w) ==
  CASE w \in {"string", "key string"} -> "string" [] w \in {"escape", "key escape"} -> "escape"
    [] InNumber(w) -> "number" [] OTHER -> "bracket"
Above(x) == CASE x = "bracket" -> 0 [] x = "escape" -> 2 [] OTHER -> 1

Full(t) == IF t = "object" THEN {2} ELSE {1, 2}
Parts(o, w) ==
  CASE w \in {"first", "firstkey"} -> {0}
    [] InKey(w) \/ w = "colon" \/ (w = "value" /\ Last(o) = "object") -> {1}
    [] OTHER -> Full(Last(o))
Nested(k, o, x, m) ==
  /\ k \in Seq([type : Types, parts : 0 .. 2]) /\ Len(k) = Len(o) + 1 + Above(x)
  /\ k[1].type = "root" /\ \A i \in DOMAIN o : k[i + 1].type = o[i]
  /\ \A i \in 1 .. Len(o) - 1 : k[i + 1].parts \in Full(o[i])
  /\ o # <<>> => k[Len(o) + 1].parts \in m
  /\ x \in {"string", "escape"} => k[Len(o) + 2].type = "dstring"
  /\ x = "number" => k[Len(o) + 2] = Token("primitive", 0)
  /\ x = "escape" => k[Len(o) + 3].type = "escape"

(* what may come is said by its flags; and the characters of a number.     *)
Expects(s, g) ==
  LET w == g.want IN
  /\ ~ Has(s, "BUG")
  /\ Has(s, "KEY") <=> InKey(w) \/ w \in {"firstkey", "key", "colon"}
  /\ Has(s, "VAL") <=> \/ w \in {"first", "firstkey", "key", "e", "esign"}
                       \/ w \in {"value", "minus"} /\ g.open # <<>>
                       \/ w = "dot" /\ strict
  /\ InKey(w) \/ w \in {"firstkey", "key", "colon"} => g.open # <<>> /\ Last(g.open) = "object"
  /\ w = "first" => g.open # <<>> /\ Last(g.open) = "array"
  /\ w = "next" => g.open # <<>>
Read(s, p, w) ==
  /\ s.digit \in CASE w = "zero" -> {"0"} [] w \in {"int", "frac", "exp"} -> {"1"}
                   [] w \in {"dot", "e", "esign"} -> {"0", "1"} [] OTHER -> {"none"}
  /\ w \in {"minus", "zero", "int"} => ~ Has(s, "RAD")
  /\ w \in {"dot", "frac"} => Has(s, "RAD")
  /\ w \in {"minus", "zero", "int", "dot", "frac"} => ~ Has(s, "EXP")
  /\ w \in {"e", "esign", "exp"} => Has(s, "EXP")
  /\ (w = "e" => ~ Has(s, "SIG")) /\ (w = "esign" => Has(s, "SIG"))
  /\ InNumber(w) => p \in CASE w = "minus" -> {"-"} [] w = "dot" -> {"."} [] w = "e" -> {"e"}
                            [] w = "esign" -> {"+", "-"} [] OTHER -> {"0", "1"}
Agree(s, p, g) ==
  /\ Nested(s.stack, g.open, Inside(g.want), Parts(g.open, g.want))
  /\ Expects(s, g) /\ Read(s, p, g.want)

IInv ==
  /\ TypeOK /\ JsonSafe
  /\ want # "bad" => slips = {} /\ Agree(S, prev, G(open, want))
=============================================================================
