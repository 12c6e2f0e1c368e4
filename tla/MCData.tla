------------------------------- MODULE MCData -------------------------------
(* The containers, the strings and the encodings of the library, one at a  *)
(* time: which says what is called; the others keep their first state.     *)
EXTENDS WorkQueue, TLC

CONSTANTS t1, t2, t3, x, y, z, n0, n1, n2, n3, n4, Absent, Used, TrieKeys

VARIABLES
  which,
  hash, hashLast, tree, treeLast,
  text, toks,
  input,
  message, block, round, sum, registers, window, reference, schedule

queueVars == vars
tableVars == <<hash, hashLast>>
trieVars == <<tree, treeLast>>
stringVars == <<text, toks>>
shaVars == <<message, block, round, sum, registers, window, reference, schedule>>

Symmetry == Permutations({n1, n2, n3, n4}) \cup Permutations({t1, t2})

-----------------------------------------------------------------------------
(* Three keys that contend for two of the four slots of a new table, and   *)
(* part when it has eight.                                                 *)
HashKeys == {1, 2, 3}
Hashes == << <<0, 4>>, <<4, 0>>, <<0, 1>> >>
Table == INSTANCE HashTable WITH
  Keys <- HashKeys, Vals <- {1}, Nodes <- {n1, n2, n3, n4}, Hash <- Hashes,
  FnCount <- 2, Retries <- 2, h <- hash, last <- hashLast

(* Keys that begin others, and one that is longer than a word; and keys    *)
(* inserted one of which is lost.                                          *)
KeptKeys == {<<1, 1>>, <<1, 1, 2>>, <<1, 2>>, <<2, 1, 1, 1, 1>>}
LostKeys == {<<1, 1>>, <<1, 2>>, <<2, 2, 2, 2, 1>>, <<2, 1, 1>>}
Tree == INSTANCE Trie WITH
  Keys <- TrieKeys, Vals <- {1}, Bits <- {1, 2}, Word <- 4, last <- treeLast

(* Strings of two letters, some of which are the Boyer-Moore search's.     *)
Tokens == INSTANCE StringTokens WITH
  Chars <- {1, 2}, Seps <- {<<2>>, <<2, 2>>}, MaxLen <- 5, MaxTokens <- 3,
  Batch <- 3, Careful <- TRUE, Short <- 4

(* Messages around the lengths that need one block and two.                *)
Digest == INSTANCE Sha1 WITH
  Word <- 8, Messages <- {[i \in 1 .. n |-> (37 * i) % 256] : n \in 1 .. 33},
  msg <- message, k <- block, t <- round, h <- sum, regs <- registers,
  x <- window, ref <- reference, w <- schedule

(* The inputs of what only computes: bytes, strings that are looked for,   *)
(* forms with at most one file.                                            *)
Code == INSTANCE Codecs
UpTo(n, S) == UNION {[1 .. k -> S] : k \in 0 .. n}
Part == {[k |-> k, n |-> n] : k \in {"value", "file"}, n \in {0, 1, 9}}
Files(form) == {j \in DOMAIN form : form[j].k = "file" /\ form[j].n > 0}
Inputs ==
  {<<"base58", s>> : s \in UpTo(5, {0, 1, 255}) \ {<<>>}}
  \cup {<<"base64", s, line>> : s \in UpTo(5, {0, 7, 255}) \ {<<>>}, line \in {0, 4, 8}}
  \cup {<<"url", s, flags>> : s \in UpTo(3, {10, 32, 37, 47, 97, 127}),
                              flags \in SUBSET {"reserved", "unescaped"}}
  \cup {<<"find", s, o, w>> : s \in UpTo(6, {1, 2}), o \in 0 .. 2, w \in UpTo(3, {1, 2})}
  \cup {<<"replace", s, w, r>> : s \in UpTo(6, {1, 2}), w \in UpTo(2, {1, 2}) \ {<<>>},
                                 r \in UpTo(2, {3})}
  \cup {<<"form", form>> : form \in {f \in UpTo(3, Part) : Cardinality(Files(f)) <= 1}}

Compute == input = None /\ input' \in Inputs

-----------------------------------------------------------------------------
(* What every part but one leaves alone.                                   *)
Others(part) ==
  /\ UNCHANGED which
  /\ part # "queue" => UNCHANGED queueVars
  /\ part # "table" => UNCHANGED tableVars
  /\ part # "trie" => UNCHANGED trieVars
  /\ part # "strings" => UNCHANGED stringVars
  /\ part # "inputs" => UNCHANGED input
  /\ part # "sha1" => UNCHANGED shaVars

MCInit ==
  /\ which \in Used
  /\ Init /\ Table!TableInit /\ Tree!TrieInit
  /\ IF which = "strings" THEN Tokens!Init ELSE text = <<>> /\ toks = <<>>
  /\ input = None
  /\ Digest!Init /\ (which # "sha1" => Len(message) = 1)

MCNext ==
  \/ which = "queue" /\ Next /\ Others("queue")
  \/ which = "table" /\ Table!TableNext /\ Others("table")
  \/ which = "trie" /\ Tree!TrieNext /\ Others("trie")
  \/ which = "strings" /\ Tokens!Next /\ Others("strings")
  \/ which = "inputs" /\ Compute /\ Others("inputs")
  \/ which = "sha1" /\ Digest!Next /\ Others("sha1")

MCSpec ==
  MCInit
  /\ [][MCNext]_<<which, queueVars, tableVars, trieVars, stringVars, input, shaVars>>

-----------------------------------------------------------------------------
(* The hash table is the map its header promises (lib/m_hashtable.h):      *)
(* moving items between slots, basket and a larger table loses no key and  *)
(* brings back none that was removed.                                      *)
TableMap == INSTANCE KeyMap WITH
  Keys <- HashKeys, Vals <- {1}, last <- hashLast, Begins <- {},
  dict <- [k \in HashKeys |-> IF Table!Found(k) = {} THEN Absent
                              ELSE hash.val[CHOOSE n \in Table!Found(k) : TRUE]]
TableMapSpec == TableMap!Spec

(* The trie is that map too (lib/m_trie.h), but for keys that begin a key  *)
(* it holds, which it refuses.                                             *)
TrieMap == INSTANCE KeyMap WITH
  Keys <- TrieKeys, Vals <- {1}, last <- treeLast,
  Begins <- {kl \in TrieKeys \X TrieKeys : Tree!IsStrictPrefix(kl[1], kl[2])},
  dict <- [k \in TrieKeys |-> IF DOMAIN tree = {} \/ Tree!Hits(k) = {} THEN Absent
                              ELSE tree[Tree!Walk(k)].val]
TrieMapSpec == TrieMap!Spec

(* The tokens of a string are words, stated in StringTokens.               *)
WordsSpec == Tokens!WordsSpec

(* What is encoded, searched for, replaced, digested or sent as a form is  *)
(* what the definition of the encoding, the search or the digest says.     *)
CodecsSafe ==
  /\ which = "sha1" => Digest!Sha1Safe
  /\ input # None =>
       CASE input[1] = "base58" -> Code!Base58Right(input[2])
         [] input[1] = "base64" -> Code!Base64Right(input[2], input[3])
         [] input[1] = "url" -> Code!UrlRight(input[2], input[3])
         [] input[1] = "find" -> Tokens!FindRight(input[2], input[3], input[4])
         [] input[1] = "replace" -> Tokens!RepsRight(input[2], input[3], input[4])
         [] input[1] = "form" -> Code!FormRight(input[2])
=============================================================================
