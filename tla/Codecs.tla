------------------------------- MODULE Codecs -------------------------------
(***************************************************************************)
(* The encodings of lib/m_string.c, base 58 and 64 and URLs, and the forms *)
(* of lib/m_http.c, whose values and files become the body of a request.   *)
(* Bytes and digits are numbers: the tables that write them as characters  *)
(* are left out.  -1 is a character that is not a digit.                   *)
(***************************************************************************)
EXTENDS Integers, SequencesExt, FiniteSets, FiniteSetsExt

Zeros(n) == [i \in 1 .. n |-> 0]
Leading(s, c) == IF \A i \in DOMAIN s : s[i] = c THEN Len(s)
                 ELSE (CHOOSE i \in DOMAIN s : s[i] # c /\ \A j \in 1 .. (i - 1) : s[j] = c) - 1
Failed == <<-2>>

(* Multiply a number by a base and add a digit, in as many digits as it    *)
(* has; what does not fit comes first.                                     *)
MulAdd(number, radix, base, digit) ==
  FoldRight(LAMBDA d, done :
              LET v == base * d + Head(done) IN
              <<v \div radix>> \o <<v % radix>> \o Tail(done),
            number, <<digit>>)

(* string_b58s(): NULs, then the number in base 58.                        *)
B58(s) ==
  LET zeros == Leading(s, 0)
      size == ((Len(s) - zeros) * 138) \div 100 + 1
      n == FoldLeft(LAMBDA num, byte : Tail(MulAdd(num, 58, 256, byte)),
                    Zeros(size), SubSeq(s, zeros + 1, Len(s)))
  IN Zeros(zeros) \o SubSeq(n, Leading(n, 0) + 1, size)
B58Fits(s) ==
  LET size == (Len(s) * 138) \div 100 + 1
      f[i \in 0 .. Len(s)] == IF i = 0 THEN <<0>> \o Zeros(size)
                              ELSE MulAdd(Tail(f[i - 1]), 58, 256, s[i])
  IN \A i \in 0 .. Len(s) : f[i][1] = 0

(* string_deb58s(): the first of the words, which makes the length what it *)
(* is, takes part in nothing.                                              *)
Deb58(s) ==
  LET zeros == Leading(s, 0)
      words == (Len(s) + 3) \div 4
      rest == Len(s) % 4
      f[i \in zeros .. Len(s)] ==
        IF i = zeros THEN Zeros(4 * (words - 1))
        ELSE IF f[i - 1] = Failed \/ s[i] = -1 THEN Failed
        ELSE LET n == MulAdd(f[i - 1], 256, 58, s[i]) IN
             IF Head(n) # 0 THEN Failed ELSE Tail(n)
      out == Zeros(IF rest > 0 THEN rest ELSE 4)
               \o (IF words = 1 /\ rest > 0 THEN Zeros(4) ELSE f[Len(s)])
      spurious == Leading(out, 0)
  IN IF f[Len(s)] = Failed \/ zeros > spurious THEN Failed
     ELSE SubSeq(out, spurious - zeros + 1, Len(out))

(* string_b64s(): a last group of one to three bytes; the length counts    *)
(* four more when there are three.  99 stands for '=', 98 for a NUL, 97 and *)
(* 96 for CR LF.                                                           *)
Four(a, b, c) == <<a \div 4, ((a % 4) * 16) + (b \div 16), ((b % 16) * 4) + (c \div 64), c % 64>>
B64(s, line) ==
  LET n == Len(s)
      At(i) == IF i > n THEN 0 ELSE s[i]
      Group(k) == Four(At(3 * k + 1), At(3 * k + 2), At(3 * k + 3))
      groups == (n + 2) \div 3
      left == n - 3 * (groups - 1)
      Crlf(k) == IF line # 0 /\ (4 * (k + 1)) % line = 0 THEN <<97, 96>> ELSE <<>>
      body == FlattenSeq([k \in 1 .. (groups - 1) |-> Group(k - 1) \o Crlf(k - 1)])
      last == [j \in 1 .. 4 |-> IF j <= left + 1 THEN Group(groups - 1)[j] ELSE 99]
      plain == ((n + 3 - (n % 3)) \div 3) * 4
      size == IF line = 0 THEN plain ELSE plain + ((plain + 1) \div line) * 2 + 2
      all == body \o last \o (IF line # 0 THEN <<97, 96>> ELSE <<>>)
  IN [i \in 1 .. size |-> IF i <= Len(all) THEN all[i] ELSE 98]

(* string_deb64s(): it counts up to the index of the last character, and   *)
(* the last group makes three bytes whatever it has.  Noise comes between  *)
(* groups.                                                                 *)
Digit64(c) == c \in 0 .. 63
Three(a, b, c, d) ==
  <<(4 * a + (b \div 16)) % 256, (16 * b + (c \div 4)) % 256, ((64 * c) % 256) + d>>
Deb64(s) ==
  LET last == Max({0} \cup {i \in 0 .. (Len(s) - 1) : Digit64(s[i + 1])})
      Left(i) == CASE last - i = 3 -> Three(s[i + 1], s[i + 2], s[i + 3], s[i + 4])
                   [] last - i = 2 -> Three(s[i + 1], s[i + 2], s[i + 3], 0)
                   [] last - i = 1 -> <<(4 * s[i + 1] + (s[i + 2] \div 16)) % 256, 0, 0>>
                   [] OTHER -> <<>>
      f[i \in 0 .. Len(s)] ==
        IF i + 4 < last
        THEN IF Digit64(s[i + 1]) THEN Three(s[i + 1], s[i + 2], s[i + 3], s[i + 4]) \o f[i + 4]
             ELSE f[i + 1]
        ELSE IF i <= last /\ ~ Digit64(s[i + 1]) THEN f[i + 1] ELSE Left(i)
  IN f[0]

(* string_rawurlencode(): the classes of the table _unsafe, and %hh as the *)
(* byte plus 1000.  A reserved character is looked at as the escape        *)
(* character is.                                                           *)
Class(c) ==
  CASE c \in {32, 34, 35, 39, 60, 62, 91, 92, 93, 94, 96} \cup 123 .. 126 -> "unsafe"
    [] c < 32 \/ c = 127 -> "control"
    [] c > 127 -> "foreign"
    [] c \in {38, 47, 58, 59, 61, 63, 64} -> "reserved"
    [] c = 37 -> "escape"
    [] OTHER -> "plain"
Escaped(c, flags) ==
  \/ Class(c) \in {"unsafe", "control", "foreign"}
  \/ Class(c) = "reserved" /\ "reserved" \in flags
  \/ Class(c) \in {"reserved", "escape"} /\ "unescaped" \notin flags
RawUrl(s, flags) == [i \in DOMAIN s |-> IF Escaped(s[i], flags) THEN 1000 + s[i] ELSE s[i]]
UrlSize(u) == FoldLeft(LAMBDA n, c : n + (IF c >= 1000 THEN 3 ELSE 1), 0, u)

----------------------------------------------------------------------------
(* http_compile() and server_send_http(): a part of a form is a value or a *)
(* file, with its length; what is between the parts is one "mark" each.    *)

Mark == [k |-> "mark", n |-> 3]
Slot == [k |-> "slot", n |-> 6]     \* "{FILE}"
Size(items) == FoldLeft(LAMBDA a, x : a + x.n, 0, items)
HasFile(form) == \E j \in 1..Len(form) : form[j].k = "file"

(* The body http_compile() composes: multipart as soon as there is a file, *)
(* with a placeholder for each file that is not empty; else values joined  *)
(* by &.                                                                   *)
PostData(form) ==
    IF ~HasFile(form) THEN form
    ELSE FlattenSeq([j \in 1..Len(form) |->
            IF form[j].k = "value" THEN <<Mark, form[j]>>
            ELSE IF form[j].n < 1 THEN <<Mark>> ELSE <<Mark, Slot>>]) \o <<Mark>>
(* Its Content-Length: the length of each file replaces that of its        *)
(* placeholder.                                                            *)
Announced(form) ==
    Size(PostData(form))
      + (IF HasFile(form)
         THEN Size(SelectSeq(form, LAMBDA x : x.k = "file" /\ x.n >= 1))
              - Slot.n * Len(SelectSeq(form, LAMBDA x : x.k = "file" /\ x.n >= 1))
         ELSE 0)

(* server_send_http: the request cut at the placeholders, each pair of     *)
(* pieces around the first file of the form; whole when their number is    *)
(* odd.                                                                    *)
Transmitted(form) ==
    LET data  == PostData(form)
        slots == {j \in 1..Len(data) : data[j] = Slot}
        nth(m) == CHOOSE p \in slots : Cardinality({x \in slots : x < p}) = m - 1
        piece(m) == SubSeq(data, IF m = 1 THEN 1 ELSE nth(m - 1) + 1,
                           IF m > Cardinality(slots) THEN Len(data) ELSE nth(m) - 1)
        file  == SelectSeq(form, LAMBDA x : x.k = "file" /\ x.n >= 1)[1]
    IN  IF Cardinality(slots) % 2 = 0 THEN data
        ELSE FlattenSeq([m \in 1..(Cardinality(slots) + 1) \div 2 |->
                            piece(2 * m - 1) \o <<file>> \o piece(2 * m)])

----------------------------------------------------------------------------
(* The buffer is large enough and what is decoded is what was encoded, as  *)
(* long as the words but the first have room for it.                       *)
Base58Right(s) ==
  /\ B58Fits(s)
  /\ Deb58(B58(s)) =
       IF Len(s) - Leading(s, 0) <= 4 * ((Len(B58(s)) + 3) \div 4 - 1) THEN s ELSE Failed

(* What is decoded is what was encoded, with NULs up to three bytes.       *)
Base64Right(s, line) ==
  Deb64(B64(s, line)) = s \o Zeros((3 - (Len(s) % 3)) % 3)

(* What a URL holds can be read from its encoding, and nothing it may not  *)
(* hold is left.                                                           *)
Decoded(u) == [i \in DOMAIN u |-> u[i] % 1000]
UrlRight(s, flags) ==
  LET u == RawUrl(s, flags) IN
  /\ Decoded(u) = s
  /\ \A i \in DOMAIN u : u[i] < 1000 =>
       \/ Class(u[i]) = "plain"
       \/ Class(u[i]) = "escape" /\ "unescaped" \in flags
       \/ Class(u[i]) = "reserved" /\ flags = {"unescaped"}

(* With at most one file, what is sent is the body that was composed with  *)
(* the file in its place, and it has the length that was announced.        *)
FormRight(form) ==
    /\ Size(Transmitted(form)) = Announced(form)
    /\ SelectSeq(Transmitted(form), LAMBDA x : x.k \in {"value", "file"})
         = SelectSeq(form, LAMBDA x : x.k = "value" \/ x.n >= 1)
=============================================================================
