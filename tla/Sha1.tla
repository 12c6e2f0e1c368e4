-------------------------------- MODULE Sha1 --------------------------------
(***************************************************************************)
(* SHA-1 as lib/m_string.c computes it, and as FIPS 180 defines it, side   *)
(* by side, round by round.  Words are scaled from 32 bits to Word, a      *)
(* block is sixteen of them still; a byte is a word here.                  *)
(***************************************************************************)
EXTENDS Integers, Sequences, Bitwise

CONSTANTS Word, Messages

Block == 16

VARIABLES
  msg, k, t,   (* the message, the block and the round                     *)
  h, regs, x,  (* h0 .. h4, a .. e, and the ring of words                  *)
  ref, w       (* FIPS: a .. e and the schedule                            *)

vars == <<msg, k, t, h, regs, x, ref, w>>

Zeros(n) == [i \in 1 .. n |-> 0]
Rol(v, n) == LET r == n % Word IN ((v * 2 ^ r) % 2 ^ Word) + (v \div 2 ^ (Word - r))
Flip(v) == (2 ^ Word - 1) - v
Ks == <<\h99, \ha1, \hdc, \hd6>>
Start == <<\h01, \h89, \hfe, \h76, \hf0>>

(* _sha1_write() passes whole blocks on, _sha1_final() pads what is left   *)
(* with the length, in one block or in two.                                *)
Blocks(m) ==
  LET whole == Len(m) \div Block
      count == Len(m) % Block
      bits == 8 * (whole * Block + count)
      length == <<(bits \div 2 ^ Word) % 2 ^ Word, bits % 2 ^ Word>>
      room == Block - 2
      buf == SubSeq(m, whole * Block + 1, Len(m))
  IN [i \in 1 .. whole |-> SubSeq(m, (i - 1) * Block + 1, i * Block)]
     \o (IF count < room
         THEN << buf \o <<128>> \o Zeros(room - count - 1) \o length >>
         ELSE << buf \o <<128>> \o Zeros(Block - count - 1), Zeros(room) \o length >>)

Init ==
  /\ msg \in Messages /\ k = 1 /\ t = 0
  /\ h = Start /\ regs = Start /\ x = Blocks(msg)[1]
  /\ ref = Start /\ w = x

(* One R() of _sha1_transform(): the registers change names instead of     *)
(* contents, the words are in a ring.                                      *)
Reg(i) == ((i + 5 - (t % 5)) % 5) + 1
RingRound ==
  LET a == regs[Reg(0)]  b == regs[Reg(1)]  c == regs[Reg(2)]
      d == regs[Reg(3)]  e == regs[Reg(4)]
      f == CASE t < 20 -> d ^^ (b & (c ^^ d))
             [] t \in 40 .. 59 -> (b & c) | (d & (b | c))
             [] OTHER -> b ^^ (c ^^ d)
      At(i) == x[(i % 16) + 1]
      m == IF t < 16 THEN x[t + 1]
           ELSE Rol((At(t) ^^ At(t - 14)) ^^ (At(t - 8) ^^ At(t - 3)), 1)
  IN /\ x' = [x EXCEPT ![(t % 16) + 1] = m]
     /\ regs' = [regs EXCEPT ![Reg(4)] = (e + Rol(a, 5) + f + Ks[(t \div 20) + 1] + m) % 2 ^ Word,
                             ![Reg(1)] = Rol(b, 30)]

FipsRound ==
  LET b == ref[2]  c == ref[3]  d == ref[4]
      f == CASE t < 20 -> (b & c) | (Flip(b) & d)
             [] t \in 40 .. 59 -> ((b & c) ^^ (b & d)) ^^ (c & d)
             [] OTHER -> b ^^ (c ^^ d)
      now == IF t < 16 THEN w
             ELSE Append(w, Rol((w[t - 2] ^^ w[t - 7]) ^^ (w[t - 13] ^^ w[t - 15]), 1))
  IN /\ w' = now
     /\ ref' = <<(Rol(ref[1], 5) + f + ref[5] + Ks[(t \div 20) + 1] + now[t + 1]) % 2 ^ Word,
                 ref[1], Rol(b, 30), c, d>>

Round == t < 80 /\ RingRound /\ FipsRound /\ t' = t + 1 /\ UNCHANGED <<msg, k, h>>

EndOfBlock ==
  LET sum == [i \in 1 .. 5 |-> (h[i] + regs[i]) % 2 ^ Word] IN
  /\ t = 80 /\ k < Len(Blocks(msg))
  /\ k' = k + 1 /\ t' = 0
  /\ h' = sum /\ regs' = sum /\ x' = Blocks(msg)[k + 1]
  /\ ref' = sum /\ w' = x'
  /\ UNCHANGED msg

Next == Round \/ EndOfBlock

----------------------------------------------------------------------------
Padded(m) ==
  LET n == CHOOSE n \in 0 .. (Block - 1) : (Len(m) + 1 + n + 2) % Block = 0 IN
  m \o <<128>> \o Zeros(n) \o <<(8 * Len(m)) \div 2 ^ Word, (8 * Len(m)) % 2 ^ Word>>

(* string_sha1s() computes SHA-1: the registers, whatever their names, and *)
(* the words are those of FIPS 180, and the blocks those of the padding.   *)
Sha1Safe ==
  /\ \A i \in 1 .. 5 : ref[i] = regs[Reg(i - 1)]
  /\ SubSeq(Padded(msg), (k - 1) * Block + 1, k * Block) = SubSeq(w, 1, Block)
  /\ Len(Blocks(msg)) * Block = Len(Padded(msg))
=============================================================================
