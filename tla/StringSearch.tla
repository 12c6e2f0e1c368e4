---------------------------- MODULE StringSearch ----------------------------
(***************************************************************************)
(* Looking for a string in another (lib/m_string.c): a search by the first *)
(* byte in short strings, a tuned Boyer-Moore in the others.  Offsets      *)
(* start at 0 and -1 says that nothing was found.                          *)
(***************************************************************************)
EXTENDS Integers, SequencesExt, FiniteSetsExt

CONSTANT Short   (* UCHAR_MAX: shorter strings are searched naively        *)

Over == -2       (* the length passed to memchr() wrapped: it reads beyond *)

At(s, o, sub) == o + Len(sub) <= Len(s) /\ SubSeq(s, o + 1, o + Len(sub)) = sub

(* After a false start it resumes at the last byte compared, not at the    *)
(* next one.                                                               *)
NaiveFind(s, from, sub) ==
  LET k == Len(sub) - 1
      f[o \in 0 .. (Len(s) + k)] ==
        LET starts == {p \in o .. (Len(s) - k - 1) : s[p + 1] = sub[1]} IN
        IF Len(s) < o + k THEN Over
        ELSE IF starts = {} THEN -1
        ELSE IF At(s, Min(starts), sub) THEN Min(starts)
        ELSE f[Min(starts) + k]
  IN f[from]

(* A mutant: the distances are taken before the length is fixed.           *)
Jump_Far(sub) ==
  LET n == Len(sub) IN
  [c \in ToSet(sub) |-> n + 1 - Max({0} \cup {i \in 1 .. (n - 1) : sub[i] = c})]

(* string_compile_searchstring(): how far a byte lets the search move.     *)
Jump(sub) ==
  LET n == Len(sub) IN
  [c \in ToSet(sub) |-> n - Max({0} \cup {i \in 1 .. (n - 1) : sub[i] = c})]

TunedFind(s, from, sub) ==
  LET n == Len(sub)
      f[i \in from .. (Len(s) + n)] ==
        IF i + n - 1 >= Len(s) THEN -1
        ELSE LET c == s[i + n] IN
             IF c = Last(sub)
             THEN IF SubSeq(s, i + 1, i + n - 1) = Front(sub) THEN i ELSE f[i + Jump(sub)[c]]
             ELSE f[i + (IF c \in ToSet(sub) THEN Jump(sub)[c] ELSE n)]
  IN f[from]

CompiledFind(s, o, sub) ==
  IF o + Len(sub) - 1 >= Len(s) THEN -1
  ELSE IF Len(s) < Short THEN NaiveFind(s, o, sub) ELSE TunedFind(s, o, sub)

Sfinds(s, o, sub) ==
  IF s = <<>> \/ sub = <<>> \/ Len(sub) > Len(s) \/ o > Len(s) THEN -1
  ELSE CompiledFind(s, o, sub)

(* string_reps(): each match is overwritten in turn, with what came before *)
(* it; what follows the last one stays where it was, and the length is     *)
(* changed by as much as the replacements differ.                          *)
Overwrite(s, o, w) == SubSeq(s, 1, o) \o w \o SubSeq(s, o + Len(w) + 1, Len(s))
Matches(s, sub) ==
  LET f[o \in 0 .. (Len(s) + Len(sub))] ==
        LET p == Sfinds(s, o, sub) IN IF p < 0 THEN <<>> ELSE <<p>> \o f[p + Len(sub)]
  IN f[0]
Reps(s, search, rep) ==
  LET all == Matches(s, search)
      Replace(done, p) ==
        LET here == done.dst + p - done.src IN
        [s |-> Overwrite(Overwrite(done.s, done.dst, SubSeq(done.s, done.src + 1, p)), here, rep),
         src |-> p + Len(search), dst |-> here + Len(rep)]
      end == FoldLeft(Replace, [s |-> s, src |-> 0, dst |-> 0], all)
      size == Len(end.s) + Len(all) * (Len(rep) - Len(search))
  IN IF Len(s) <= Len(search) + 1 \/ all = <<>> THEN s
     ELSE [i \in 1 .. size |-> IF i <= Len(end.s) THEN end.s[i] ELSE 0]

----------------------------------------------------------------------------
(* What the header says: the first place where the substring is.           *)
FirstAt(s, o, sub) ==
  LET places == {p \in o .. (Len(s) - Len(sub)) : At(s, p, sub)} IN
  IF sub = <<>> \/ places = {} THEN -1 ELSE Min(places)

(* Every search of at most two bytes, and every search in a longer string, *)
(* finds the first place; what it finds is there anyway.                   *)
FindRight(s, o, sub) ==
  LET p == Sfinds(s, o, sub) IN
  /\ p >= 0 => At(s, p, sub) /\ p >= o
  /\ Len(sub) <= 2 \/ Len(s) >= Short => p = FirstAt(s, o, sub)

(* All that string_reps() gets right: as long as what it replaces, or not  *)
(* longer at the very end.                                                 *)
Replaced(s, search, rep) ==
  LET f[o \in 0 .. (Len(s) + Len(search))] ==
        IF o >= Len(s) THEN <<>>
        ELSE IF At(s, o, search) THEN rep \o f[o + Len(search)]
        ELSE <<s[o + 1]>> \o f[o + 1]
  IN f[0]
RepsRight(s, search, rep) ==
  LET all == Matches(s, search) IN
  \/ Len(search) > 2 \/ Len(s) <= Len(search) + 1 \/ all = <<>>
  \/ Len(rep) # Len(search) /\ (Len(rep) > Len(search) \/ Last(all) + Len(search) < Len(s))
  \/ Reps(s, search, rep) = Replaced(s, search, rep)
=============================================================================
