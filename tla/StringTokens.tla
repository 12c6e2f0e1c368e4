---------------------------- MODULE StringTokens ----------------------------
(***************************************************************************)
(* Strings and their tokens (lib/m_string.c).  A token is a window on the  *)
(* buffer of the string it belongs to: changing it moves what follows, and *)
(* the tokens that follow with it.  One string and one level of tokens;    *)
(* the memory is not modelled: realloc moves all the windows the same way. *)
(* Offsets start at 0.                                                     *)
(***************************************************************************)
EXTENDS Integers, SequencesExt, StringSearch

CONSTANTS
  Chars, Seps,
  MaxLen,     (* bound: of the string                                      *)
  MaxTokens,  (* bound: of the tokens                                      *)
  Batch,      (* the offsets string_splits() notes at a time, 16           *)
  Careful     (* the calls are those the tokens come through unharmed      *)

VARIABLES
  text,       (* the bytes between _data and _len                          *)
  toks        (* token: [at, len]                                          *)

vars == <<text, toks>>

Init == text \in UNION {[1 .. n -> Chars] : n \in 0 .. MaxLen} /\ toks = <<>>

End(t) == t.at + t.len
Data(t) == SubSeq(text, t.at + 1, End(t))
Fits == Len(text') <= MaxLen /\ Len(toks') <= MaxTokens

(* The first token at or after an offset and all those after it move.      *)
ShiftFrom(ts, o, by) ==
  [j \in DOMAIN ts |->
     IF \E i \in 1 .. j : ts[i].at >= o THEN [ts[j] EXCEPT !.at = @ + by] ELSE ts[j]]

(* string_movs(), string_cpys() and string_pres() of the whole string free *)
(* its tokens.                                                             *)
Movs(o, w) == text' = Overwrite(text, o, w) /\ toks' = <<>>
Pres(w) == text' = w \o text /\ toks' = <<>>

(* A mutant: the tokens that follow stay where they were.                  *)
MovsToken_NoShift(i, o, w) ==
  LET t == toks[i]  more == o + Len(w) - t.len IN
  /\ Careful => \A j \in DOMAIN toks : j = i + 1 /\ more > 0 => toks[j].at > End(t)
  /\ IF more > 0
     THEN /\ text' = SubSeq(text, 1, t.at + o) \o w \o SubSeq(text, End(t) + 1, Len(text))
          /\ toks' = [toks EXCEPT ![i].len = @ + more]
     ELSE text' = Overwrite(text, t.at + o, w) /\ UNCHANGED toks

(* Through a token: _string_mov() extends it, and only tokens that begin   *)
(* after its end, not at it, make room.                                    *)
MovsToken(i, o, w) ==
  LET t == toks[i]  more == o + Len(w) - t.len IN
  /\ Careful => \A j \in DOMAIN toks : j = i + 1 /\ more > 0 => toks[j].at > End(t)
  /\ IF more > 0
     THEN /\ text' = SubSeq(text, 1, t.at + o) \o w \o SubSeq(text, End(t) + 1, Len(text))
          /\ toks' = [ShiftFrom(toks, End(t) + 1, more) EXCEPT ![i].len = @ + more]
     ELSE text' = Overwrite(text, t.at + o, w) /\ UNCHANGED toks

(* Whatever string or token it is asked for, string_cats() appends to the  *)
(* last token when it ends the string.                                     *)
Cats(w) ==
  IF toks # <<>> /\ End(Last(toks)) = Len(text)
  THEN MovsToken(Len(toks), Last(toks).len, w)
  ELSE Movs(Len(text), w)

(* string_suppr() of l bytes from o.                                       *)
Without(o, l) == SubSeq(text, 1, o) \o SubSeq(text, o + l + 1, Len(text))
Suppr(o, l) ==
  /\ text' = Without(o, l)
  /\ toks' = ShiftFrom(toks, o + l, - l)
  /\ Careful => \A i \in DOMAIN toks : End(toks[i]) <= o \/ toks[i].at >= o + l
SupprIn(i, o, l) ==
  LET a == toks[i].at + o  ts == ShiftFrom(toks, a + l, - l) IN
  /\ Careful => toks[i].at < a + l
  /\ text' = Without(a, l)
  /\ toks' = [ts EXCEPT ![i].len = @ - l]

(* string_suppr_token() drops the last record, whatever token it removed;  *)
(* string_dequeue_token() is a call of it, string_pop_token() is not.      *)
SupprToken(i) ==
  /\ Careful => i = Len(toks)
  /\ toks' = Front(ShiftFrom(toks, End(toks[i]), - toks[i].len))
  /\ text' = Without(toks[i].at, toks[i].len)
Dequeue ==
  IF Len(toks) = 1 THEN text' = <<>> /\ toks' = <<>> ELSE SupprToken(Len(toks))
Pop ==
  /\ toks' = Tail(ShiftFrom(toks, End(toks[1]), - toks[1].len))
  /\ text' = IF Len(toks) = 1 THEN <<>> ELSE Without(toks[1].at, toks[1].len)

(* string_shrink(): the string is cut and its tokens are not looked at; a  *)
(* token takes what follows with it, unless it is the last one.            *)
Shrink(n) ==
  /\ n < Len(text) /\ n > 0
  /\ Careful => \A i \in DOMAIN toks : End(toks[i]) <= n
  /\ text' = SubSeq(text, 1, n) /\ UNCHANGED toks
ShrinkToken(i, n) ==
  LET t == toks[i]  less == t.len - n IN
  /\ n < t.len /\ n > 0
  /\ Careful => i < Len(toks) \/ End(t) = Len(text)
  /\ text' = IF i = Len(toks) THEN SubSeq(text, 1, Len(text) - less)
             ELSE Without(t.at + n, less)
  /\ toks' = [ShiftFrom(toks, t.at + t.len, - less) EXCEPT ![i] = [t EXCEPT !.len = n]]

Select(o, l) == toks' = << [at |-> o, len |-> l] >> /\ UNCHANGED text
PushTokens(w) ==
  LET e == IF toks = <<>> THEN 0 ELSE End(Last(toks)) IN
  /\ text' = SubSeq(text, 1, e) \o w
  /\ toks' = Append(toks, [at |-> e, len |-> Len(w)])

(* The offsets of a separator, and the tokens string_splits() makes: the   *)
(* first of a batch begins where the last one of the batch before did.     *)
Cuts(s) ==
  LET f[o \in 0 .. (Len(text) + Len(s))] ==
        LET p == CompiledFind(text, o, s) IN
        IF p = -1 THEN <<>> ELSE <<p>> \o f[p + Len(s)]
  IN f[0]
Splits(s) ==
  LET c == Cuts(s)
      Begin(k) == IF k = 1 THEN 0 ELSE c[k - 1] + Len(s)
      Start(k) == IF k > 1 /\ (k - 1) % Batch = 0 THEN Begin(k - 1) ELSE Begin(k)
      Stop(k) == IF k > Len(c) THEN Len(text) ELSE c[k]
  IN /\ Len(text) > Len(s) + 1
     /\ Careful => Len(c) < Batch
     /\ toks' = [k \in 1 .. (Len(c) + 1) |-> [at |-> Start(k), len |-> Stop(k) - Start(k)]]
     /\ UNCHANGED text

(* string_merges(): whether separators have the right length already is    *)
(* seen in the sum of the differences.                                     *)
Merges(s) ==
  LET n == Len(toks)
      More(i) == Len(s) - (toks[i + 1].at - End(toks[i]))
      Sum[i \in 0 .. (n - 1)] == IF i = 0 THEN 0 ELSE Sum[i - 1] + More(i)
      Word(i) == (IF i = 1 THEN <<>> ELSE s) \o Data(toks[i])
  IN /\ n >= 2
     /\ Careful => /\ End(Last(toks)) = Len(text)
                   /\ \A i \in 1 .. (n - 1) :
                        Sum[i] = 0 /\ More(i) = 0 => \A j \in 1 .. i : More(j) = 0
     /\ text' = SubSeq(text, 1, toks[1].at) \o FlattenSeq([i \in 1 .. n |-> Word(i)])
     /\ toks' = [i \in 1 .. n |-> [toks[i] EXCEPT !.at = @ + Sum[i - 1]]]

Pieces == UNION {[1 .. n -> Chars] : n \in 1 .. 2}

WholeString ==
  \/ \E w \in Pieces : (\E o \in 0 .. Len(text) : Movs(o, w)) \/ Pres(w) \/ Cats(w)
  \/ \E o, l \in 0 .. Len(text) : l > 0 /\ o + l <= Len(text) /\ Suppr(o, l)
  \/ \E n \in 1 .. Len(text) : Shrink(n)
ThroughToken ==
  \E i \in DOMAIN toks :
    \/ \E w \in Pieces, o \in 0 .. toks[i].len : MovsToken(i, o, w)
    \/ \E o, l \in 0 .. toks[i].len : o + l <= toks[i].len /\ l > 0 /\ SupprIn(i, o, l)
    \/ \E n \in 1 .. toks[i].len : ShrinkToken(i, n)
OfTokens ==
  \/ \E o, l \in 0 .. Len(text) : o + l <= Len(text) /\ l > 0 /\ Select(o, l)
  \/ \E w \in Pieces : PushTokens(w)
  \/ \E s \in Seps : Splits(s) \/ Merges(s)
  \/ toks # <<>> /\ (Pop \/ Dequeue \/ \E i \in DOMAIN toks : SupprToken(i))

Next == (WholeString \/ ThroughToken \/ OfTokens) /\ Fits

----------------------------------------------------------------------------
(* The tokens of a string that is only used with care, as the callers in   *)
(* this repository do, are words (lib/m_string.h).                         *)
AsWords == INSTANCE Words WITH
  words <- [i \in DOMAIN toks |-> Data(toks[i])],
  gaps <- [i \in 1 .. (Len(toks) + 1) |->
             SubSeq(text, IF i = 1 THEN 1 ELSE End(toks[i - 1]) + 1,
                          IF i > Len(toks) THEN Len(text) ELSE toks[i].at)]
WordsSpec == AsWords!Spec
=============================================================================
