------------------------------- MODULE Words -------------------------------
(***************************************************************************)
(* What the tokens of a string promise (lib/m_string.h): the string is     *)
(* words, the tokens, with text between them; changing one through its     *)
(* token leaves the other words and the text between them alone.           *)
(***************************************************************************)
EXTENDS Integers, SequencesExt

CONSTANT Seps   (* the separators strings are split and merged with        *)

VARIABLES words, gaps   (* gaps[i] comes before words[i], the last ends it *)

Text(ws, gs) ==
  FlattenSeq([i \in DOMAIN ws |-> gs[i] \o ws[i]]) \o gs[Len(ws) + 1]

Holds(w, s) == \E i \in 0 .. (Len(w) - Len(s)) : SubSeq(w, i + 1, i + Len(s)) = s

Init == words = <<>> /\ Len(gaps) = 1

(* One word changes.                                                       *)
Edit ==
  Len(words') = Len(words) /\ \E i \in DOMAIN words :
    /\ words' = [words EXCEPT ![i] = words'[i]]
    /\ gaps' = gaps

(* One word goes, at either end, the text around it stays; the last one to *)
(* go takes everything.                                                    *)
Take ==
  /\ words # <<>>
  /\ \E i \in {1, Len(words)} : words' = RemoveAt(words, i)
     /\ IF Len(words) = 1 THEN gaps' = << <<>> >>
        ELSE gaps' = [RemoveAt(gaps, i) EXCEPT ![i] = gaps[i] \o gaps[i + 1]]

(* A word is added after the others, the text after them is dropped.       *)
Push ==
  /\ Len(words') = Len(words) + 1
  /\ words' = Append(words, Last(words'))
  /\ gaps' = Append(IF words = <<>> THEN << <<>> >> ELSE [gaps EXCEPT ![Len(gaps)] = <<>>], <<>>)

(* All the tokens go, or one is chosen, or text between them is cut.       *)
Clear == words' = <<>> /\ Len(gaps') = 1
Select == Len(words') = 1 /\ Text(words', gaps') = Text(words, gaps)
Cut ==
  UNCHANGED words /\ Len(gaps') = Len(gaps) /\ \E i \in DOMAIN gaps :
    /\ gaps' = [gaps EXCEPT ![i] = gaps'[i]]
    /\ Len(gaps'[i]) < Len(gaps[i])

(* The whole text is split at every separator; the separators are replaced.*)
Split ==
  \E s \in Seps :
    /\ Text(words', gaps') = Text(words, gaps)
    /\ \A i \in DOMAIN gaps' : gaps'[i] = IF i \in {1, Len(gaps')} THEN <<>> ELSE s
    /\ \A i \in DOMAIN words' : ~ Holds(words'[i], s)
Merge ==
  \E s \in Seps :
    /\ UNCHANGED words
    /\ gaps' = [i \in DOMAIN gaps |-> IF i \in {1, Len(gaps)} THEN gaps[i] ELSE s]

Next == Edit \/ Take \/ Push \/ Clear \/ Select \/ Cut \/ Split \/ Merge

Spec == Init /\ [][Next]_<<words, gaps>>
=============================================================================
