-------------------------- MODULE AlgorithmProofs --------------------------
(***************************************************************************)
(* What the functions of Generator, Codecs and FileLayout return: every    *)
(* alphabet and every spec, every item, header, list of index entries and  *)
(* file; reading and writing are inverse to each other.                    *)
(***************************************************************************)
EXTENDS Generator, FileLayout, SequenceTheorems, NaturalsInduction, WellFoundedInduction, TLAPS

\* Division with remainder, from the definitions of the operators.
LEMMA Quotient ==
  ASSUME NEW n \in Nat, NEW d \in Nat, d > 0
  PROVE  /\ n \div d \in Nat /\ n % d \in 0 .. (d - 1)
         /\ n = d * (n \div d) + (n % d)
  OBVIOUS

LEMMA QuotientUnique ==
  ASSUME NEW d \in Nat, d > 0, NEW q \in Nat, NEW r \in 0 .. (d - 1)
  PROVE  (d * q + r) \div d = q
  OBVIOUS

-----------------------------------------------------------------------------
(* Generated values *)

LEMMA DrawsAre == DrawMax \in Nat
  BY DEF DrawMax

LEMMA RemainderUnique ==
  ASSUME NEW d \in Nat, d > 0, NEW q \in Nat, NEW r \in 0 .. (d - 1)
  PROVE  (d * q + r) % d = r
  OBVIOUS

LEMMA Ordered ==
  ASSUME NEW d \in Nat, NEW a \in Nat, NEW b \in Nat, a <= b
  PROVE  d * a <= d * b
  OBVIOUS

\* The k-th accepted draw that gives index i.
Draw(n, i, k) == n * k + i

\* random_index has no modulo bias: each index of the alphabet is given by equally many
\* accepted draws, one for each k below DrawMax \div n.
THEOREM Unbiased ==
  ASSUME NEW n \in 1 .. DrawMax, NEW i \in 0 .. (n - 1)
  PROVE  LET turns == 0 .. (DrawMax \div n - 1)
         IN  /\ {v \in Accepted(n) : Index(n, v) = i} = {Draw(n, i, k) : k \in turns}
             /\ \A j, k \in turns : Draw(n, i, j) = Draw(n, i, k) => j = k
<1> DEFINE m == DrawMax \div n
<1>1. n \in Nat /\ n > 0 /\ DrawMax \in Nat
  BY DrawsAre
<1>2. m \in Nat /\ n * m <= DrawMax /\ Limit(n) = n * m
  BY <1>1, Quotient DEF Limit
<1> HIDE DEF m
<1>3. ASSUME NEW v \in Accepted(n), Index(n, v) = i
      PROVE  \E k \in 0 .. (m - 1) : v = Draw(n, i, k)
  <2>1. v \in Nat /\ v < n * m
    BY <1>1, <1>2, <1>3 DEF Accepted, Draws
  <2>2. v \div n \in Nat /\ v = n * (v \div n) + i
    BY <1>1, <1>3, <2>1, Quotient DEF Index
  <2>3. v \div n < m
    <3>1. SUFFICES ASSUME v \div n >= m PROVE FALSE
      BY <1>2, <2>2
    <3>2. n * m <= n * (v \div n)
      BY <1>1, <1>2, <2>2, <3>1, Ordered
    <3> QED
      BY <1>1, <1>2, <2>1, <2>2, <3>2
  <2>4. v \div n \in 0 .. (m - 1) /\ v = Draw(n, i, v \div n)
    BY <1>2, <2>2, <2>3 DEF Draw
  <2> QED
    BY <2>4
<1>4. ASSUME NEW k \in 0 .. (m - 1)
      PROVE  Draw(n, i, k) \in Accepted(n) /\ Index(n, Draw(n, i, k)) = i
  <2>1. n * (k + 1) <= n * m /\ n * (k + 1) = n * k + n /\ n * k \in Nat
    BY <1>1, <1>2, Ordered
  <2>2. Draw(n, i, k) \in Nat /\ Draw(n, i, k) < n * m
    BY <1>1, <1>2, <2>1 DEF Draw
  <2>3. Draw(n, i, k) \in Accepted(n)
    BY <1>1, <1>2, <2>2 DEF Accepted, Draws
  <2>4. Index(n, Draw(n, i, k)) = i
    BY <1>1, RemainderUnique DEF Index, Draw
  <2> QED
    BY <2>3, <2>4
<1>5. ASSUME NEW j \in 0 .. (m - 1), NEW k \in 0 .. (m - 1), Draw(n, i, j) = Draw(n, i, k)
      PROVE  j = k
  <2>1. n * j = n * k
    BY <1>1, <1>2, <1>5 DEF Draw
  <2>2. ~(j < k) /\ ~(k < j)
    <3>1. ASSUME NEW a \in Nat, NEW b \in Nat, a < b PROVE n * a < n * b
      <4>1. n * (a + 1) <= n * b /\ n * (a + 1) = n * a + n /\ n * a \in Nat
        BY <1>1, <3>1, Ordered
      <4> QED
        BY <1>1, <4>1
    <3> QED
      BY <1>2, <2>1, <3>1
  <2> QED
    BY <1>2, <2>2
<1>6. {v \in Accepted(n) : Index(n, v) = i} = {Draw(n, i, k) : k \in 0 .. (m - 1)}
  BY <1>3, <1>4
<1> QED
  BY <1>5, <1>6 DEF m

\* Fewer than half of the draws are drawn again: the loop ends with probability 1.
THEOREM MostDrawsAccepted ==
  ASSUME NEW n \in 1 .. DrawMax
  PROVE  2 * Limit(n) > DrawMax /\ Limit(n) <= DrawMax
<1>1. n \in Nat /\ n > 0 /\ DrawMax \in Nat
  BY DrawsAre
<1> DEFINE m == DrawMax \div n
<1>2. m \in Nat /\ DrawMax = n * m + (DrawMax % n) /\ DrawMax % n \in 0 .. (n - 1)
  BY <1>1, Quotient
<1>3. Limit(n) = n * m
  BY DEF Limit
<1> HIDE DEF m
<1>4. m >= 1
  <2>1. m = 0 => n * m = 0
    BY <1>1, <1>2
  <2> QED
    BY <1>1, <1>2, <2>1
<1>5. n * 1 <= n * m /\ n * m \in Nat
  BY <1>1, <1>2, <1>4, Ordered
<1> QED
  BY <1>1, <1>2, <1>3, <1>5

LEMMA CharResult ==
  ASSUME NEW spec, NEW default, CharBased(spec, default) # Refused
  PROVE  /\ CharBased(spec, default).count = OrElse(spec.length, default)
         /\ OrElse(spec.length, default) \in MinLen .. MaxLen
         /\ CharBased(spec, default).size =
              Alphabet[spec.preset] - (IF spec.no_ambiguous THEN Ambiguous[spec.preset] ELSE 0)
  BY DEF CharBased

LEMMA PassphraseResult ==
  ASSUME NEW spec, Passphrase(spec) # Refused
  PROVE  /\ Passphrase(spec).count = OrElse(spec.words, 8)
         /\ OrElse(spec.words, 8) \in MinWords .. MaxWords
         /\ Passphrase(spec).size = Alphabet[spec.preset]
  BY DEF Passphrase

LEMMA Sizes ==
  /\ Alphabet["alphanumeric"] = 62 /\ Ambiguous["alphanumeric"] = 6
  /\ Alphabet["symbols"] = 78 /\ Ambiguous["symbols"] = 6
  /\ Alphabet["hex"] = 16 /\ Ambiguous["hex"] = 2
  /\ Alphabet["passphrase"] = 1296
  BY DEF Alphabet, Ambiguous

\* `generate` refuses a flag or does what it says (cli/mod.rs:761-778): no flag is
\* silently ignored, and a value is never shorter than its preset's floor.
THEOREM FlagsHonoured ==
  ASSUME NEW spec \in Specs, Generate(spec) # Refused
  PROVE  /\ spec.length # <<>> => Generate(spec).count = spec.length[1]
         /\ spec.words # <<>> => Generate(spec).count = spec.words[1]
         /\ spec.no_ambiguous => Generate(spec).size < Alphabet[spec.preset]
         /\ Generate(spec).size \in Nat /\ Generate(spec).size > 0
         /\ Generate(spec).count >= (IF spec.preset = "passphrase" THEN MinWords ELSE MinLen)
<1>1. /\ spec.preset \in {"alphanumeric", "symbols", "hex", "passphrase"}
      /\ spec.no_ambiguous \in BOOLEAN
  BY DEF Specs, Presets
<1>2. Applicable(spec) /\ Generate(spec) = Drawn(spec)
  BY DEF Generate
<1>3. CASE spec.preset = "passphrase"
  <2>1. Generate(spec) = Passphrase(spec) /\ spec.length = <<>> /\ ~spec.no_ambiguous
    BY <1>2, <1>3 DEF Drawn, Applicable
  <2>2. /\ Generate(spec).count = OrElse(spec.words, 8) /\ Generate(spec).size = 1296
        /\ OrElse(spec.words, 8) \in MinWords .. MaxWords
    BY <1>3, <2>1, PassphraseResult, Sizes
  <2> QED
    BY <1>3, <2>1, <2>2 DEF OrElse, MinWords, MaxWords
<1>4. CASE spec.preset # "passphrase"
  <2> DEFINE default == IF spec.preset = "hex" THEN 32 ELSE 20
             removed == IF spec.no_ambiguous THEN Ambiguous[spec.preset] ELSE 0
  <2>1. Generate(spec) = CharBased(spec, default) /\ spec.words = <<>>
    BY <1>2, <1>4 DEF Drawn, Applicable
  <2> HIDE DEF default
  <2>2. /\ Generate(spec).count = OrElse(spec.length, default)
        /\ OrElse(spec.length, default) \in MinLen .. MaxLen
        /\ Generate(spec).size = Alphabet[spec.preset] - removed
    BY <2>1, CharResult
  <2> HIDE DEF removed
  <2>3. /\ removed \in Nat /\ removed < Alphabet[spec.preset] /\ Alphabet[spec.preset] \in Nat
        /\ spec.no_ambiguous => removed > 0
    BY <1>1, <1>4, Sizes DEF removed
  <2>4. spec.length # <<>> => OrElse(spec.length, default) = spec.length[1]
    BY DEF OrElse
  <2>5. /\ Generate(spec).size \in Nat /\ Generate(spec).size > 0
        /\ spec.no_ambiguous => Generate(spec).size < Alphabet[spec.preset]
    BY <2>2, <2>3
  <2>6. Generate(spec).count >= MinLen
    BY <2>2 DEF MinLen, MaxLen
  <2> QED
    BY <1>4, <2>1, <2>2, <2>4, <2>5, <2>6
<1> QED
  BY <1>3, <1>4

\* Every index drawn is one of the alphabet: pick and the words' loop never look past it.
THEOREM IndexInAlphabet ==
  ASSUME NEW spec \in Specs, Generate(spec) # Refused, NEW value \in Values(Generate(spec)),
         NEW j \in 1 .. Generate(spec).count
  PROVE  value[j] \in 0 .. (Generate(spec).size - 1)
<1>1. Generate(spec).size \in Nat /\ Generate(spec).size > 0
  BY FlagsHonoured
<1>2. PICK v \in Accepted(Generate(spec).size) : value[j] = Index(Generate(spec).size, v)
  BY DEF Values
<1> QED
  BY <1>1, <1>2, Quotient DEF Accepted, Draws, Index

-----------------------------------------------------------------------------
(* Bytes of a number *)

LEMMA Top == U32Top = 65536 * 65536 /\ U32Top \in Nat
  BY DEF U32Top

LEMMA Pair ==
  ASSUME NEW a, NEW b
  PROVE  /\ <<a, b>>[1] = a /\ <<a, b>>[2] = b /\ Len(<<a, b>>) = 2
         /\ \A S : a \in S /\ b \in S => <<a, b>> \in Seq(S)
  OBVIOUS

LEMMA Four ==
  ASSUME NEW a, NEW b, NEW c, NEW d
  PROVE  <<a, b>> \o <<c, d>> = <<a, b, c, d>>
<1> DEFINE S == {a, b, c, d}
           s == <<a, b>>
           t == <<c, d>>
           u == <<a, b, c, d>>
<1>1. /\ s \in Seq(S) /\ Len(s) = 2 /\ s[1] = a /\ s[2] = b
      /\ t \in Seq(S) /\ Len(t) = 2 /\ t[1] = c /\ t[2] = d
      /\ u \in Seq(S) /\ Len(u) = 4 /\ u[1] = a /\ u[2] = b /\ u[3] = c /\ u[4] = d
  OBVIOUS
<1> HIDE DEF S, s, t, u
<1>2. /\ s \o t \in Seq(S) /\ Len(s \o t) = Len(s) + Len(t)
      /\ \A i \in 1 .. (Len(s) + Len(t)) :
           (s \o t)[i] = IF i <= Len(s) THEN s[i] ELSE t[i - Len(s)]
  BY <1>1, ConcatProperties
<1>3. Len(s \o t) = 4 /\ \A i \in 1 .. 4 : (s \o t)[i] = u[i]
  <2> DEFINE v == s \o t
  <2>1. Len(v) = 4 /\ \A i \in 1 .. 4 : v[i] = IF i <= 2 THEN s[i] ELSE t[i - 2]
    BY <1>1, <1>2
  <2> HIDE DEF v
  <2>2. v[1] = s[1] /\ v[2] = s[2] /\ v[3] = t[1] /\ v[4] = t[2]
    BY <2>1
  <2>3. v[1] = u[1] /\ v[2] = u[2] /\ v[3] = u[3] /\ v[4] = u[4]
    BY <1>1, <2>2
  <2>4. \A i \in 1 .. 4 : i = 1 \/ i = 2 \/ i = 3 \/ i = 4
    OBVIOUS
  <2>5. Len(v) = 4 /\ \A i \in 1 .. 4 : v[i] = u[i]
    BY <2>1, <2>3, <2>4
  <2> QED
    BY <2>5 DEF v
<1>4. s \o t = u
  BY <1>1, <1>2, <1>3, SeqEqual
<1> QED
  BY <1>4 DEF s, t, u

LEMMA OneOf ==
  ASSUME NEW s \in Bytes, Len(s) = 1
  PROVE  s[1] \in Byte /\ s = <<s[1]>>
<1>1. s[1] \in Byte
  BY ElementOfSeq DEF Bytes
<1> DEFINE t == <<s[1]>>
<1>2. t \in Seq(Byte) /\ Len(t) = 1 /\ t[1] = s[1]
  BY <1>1
<1> HIDE DEF t
<1>3. \A i \in 1 .. 1 : s[i] = t[i]
  BY <1>2
<1>4. s = t
  BY <1>2, <1>3, SeqEqual DEF Bytes
<1> QED
  BY <1>1, <1>4 DEF t

LEMMA TwoOf ==
  ASSUME NEW s \in Bytes, Len(s) = 2
  PROVE  s[1] \in Byte /\ s[2] \in Byte /\ s = <<s[1], s[2]>>
<1>1. s[1] \in Byte /\ s[2] \in Byte
  BY ElementOfSeq DEF Bytes
<1> DEFINE t == <<s[1], s[2]>>
<1>2. t \in Seq(Byte) /\ Len(t) = 2 /\ t[1] = s[1] /\ t[2] = s[2]
  BY <1>1
<1> HIDE DEF t
<1>3. \A i \in 1 .. 2 : s[i] = t[i]
  BY <1>2
<1>4. s = t
  BY <1>2, <1>3, SeqEqual DEF Bytes
<1> QED
  BY <1>1, <1>4 DEF t

LEMMA FourOf ==
  ASSUME NEW s \in Bytes, Len(s) = 4
  PROVE  /\ s[1] \in Byte /\ s[2] \in Byte /\ s[3] \in Byte /\ s[4] \in Byte
         /\ s = <<s[1], s[2], s[3], s[4]>>
<1>1. s[1] \in Byte /\ s[2] \in Byte /\ s[3] \in Byte /\ s[4] \in Byte
  BY ElementOfSeq DEF Bytes
<1> DEFINE t == <<s[1], s[2], s[3], s[4]>>
<1>2. /\ t \in Seq(Byte) /\ Len(t) = 4
      /\ t[1] = s[1] /\ t[2] = s[2] /\ t[3] = s[3] /\ t[4] = s[4]
  BY <1>1
<1> HIDE DEF t
<1>3. \A i \in 1 .. 4 : s[i] = t[i]
  BY <1>2
<1>4. s = t
  BY <1>2, <1>3, SeqEqual DEF Bytes
<1> QED
  BY <1>1, <1>4 DEF t

LEMMA Bytes16 ==
  ASSUME NEW n \in U16
  PROVE  /\ n \div 256 \in Byte /\ n % 256 \in Byte
         /\ (n \div 256) * 256 + (n % 256) = n
  BY DEF U16, Byte, Below

LEMMA Parts16 ==
  ASSUME NEW a \in Byte, NEW b \in Byte
  PROVE  a * 256 + b \in U16 /\ (a * 256 + b) \div 256 = a /\ (a * 256 + b) % 256 = b
  BY DEF U16, Byte, Below

LEMMA Halves ==
  ASSUME NEW n \in U32
  PROVE  /\ n \div 65536 \in U16 /\ n % 65536 \in U16
         /\ (n \div 65536) * 65536 + (n % 65536) = n
  BY Top DEF U16, U32, Below

LEMMA Joined ==
  ASSUME NEW a \in U16, NEW b \in U16
  PROVE  /\ a * 65536 + b \in U32
         /\ (a * 65536 + b) \div 65536 = a /\ (a * 65536 + b) % 65536 = b
  BY Top DEF U16, U32, Below

LEMMA Number16 ==
  ASSUME NEW n \in U16
  PROVE  Be16(n) \in Bytes /\ Len(Be16(n)) = 2 /\ Un16(Be16(n)) = n
  BY Bytes16, Pair DEF Be16, Un16, Bytes

LEMMA Number32 ==
  ASSUME NEW n \in U32
  PROVE  Be32(n) \in Bytes /\ Len(Be32(n)) = 4 /\ Un32(Be32(n)) = n
<1> DEFINE h == n \div 65536
           l == n % 65536
<1>1. h \in U16 /\ l \in U16 /\ h * 65536 + l = n
  BY Halves
<1> HIDE DEF h, l
<1>2. Be32(n) = <<h \div 256, h % 256, l \div 256, l % 256>>
  BY Four DEF Be32, Be16, h, l
<1>3. /\ h \div 256 \in Byte /\ h % 256 \in Byte /\ (h \div 256) * 256 + (h % 256) = h
      /\ l \div 256 \in Byte /\ l % 256 \in Byte /\ (l \div 256) * 256 + (l % 256) = l
  BY <1>1, Bytes16
<1>4. ASSUME NEW a \in Byte, NEW b \in Byte, NEW c \in Byte, NEW d \in Byte,
             Be32(n) = <<a, b, c, d>>, a * 256 + b = h, c * 256 + d = l
      PROVE  Be32(n) \in Bytes /\ Len(Be32(n)) = 4 /\ Un32(Be32(n)) = n
  BY <1>1, <1>4 DEF Bytes, Un32
<1> QED
  BY <1>2, <1>3, <1>4

LEMMA Written32 ==
  ASSUME NEW s \in Bytes, Len(s) = 4
  PROVE  Un32(s) \in U32 /\ Be32(Un32(s)) = s
<1>1. s[1] \in Byte /\ s[2] \in Byte /\ s[3] \in Byte /\ s[4] \in Byte /\ s = <<s[1], s[2], s[3], s[4]>>
  BY FourOf
<1>2. ASSUME NEW a \in Byte, NEW b \in Byte, NEW c \in Byte, NEW d \in Byte, s = <<a, b, c, d>>
      PROVE  Un32(s) \in U32 /\ Be32(Un32(s)) = s
  <2> DEFINE h == a * 256 + b
             l == c * 256 + d
  <2>1. /\ h \in U16 /\ h \div 256 = a /\ h % 256 = b
        /\ l \in U16 /\ l \div 256 = c /\ l % 256 = d
    BY Parts16
  <2> HIDE DEF h, l
  <2>2. Un32(s) = h * 65536 + l
    BY <1>2 DEF Un32, h, l
  <2>3. Un32(s) \in U32 /\ Un32(s) \div 65536 = h /\ Un32(s) % 65536 = l
    BY <2>1, <2>2, Joined
  <2>4. Be32(Un32(s)) = <<a, b>> \o <<c, d>>
    BY <2>1, <2>3 DEF Be32, Be16
  <2> QED
    BY <1>2, <2>3, <2>4, Four
<1> QED
  BY <1>1, <1>2

LEMMA Written16 ==
  ASSUME NEW s \in Bytes, Len(s) = 2
  PROVE  Un16(s) \in U16 /\ Be16(Un16(s)) = s
<1>1. s[1] \in Byte /\ s[2] \in Byte /\ s = <<s[1], s[2]>>
  BY TwoOf
<1> QED
  BY <1>1, Parts16 DEF Un16, Be16

-----------------------------------------------------------------------------
(* Reading back what was written, and writing back what was read *)

LEMMA Parts ==
  ASSUME NEW v, NEW rest
  PROVE  Got(v, rest).ok /\ Got(v, rest).val = v /\ Got(v, rest).rest = rest /\ ~Fail.ok /\ Fail.rest = <<>>
  BY DEF Got, Fail

LEMMA TakeBack ==
  ASSUME NEW a \in Bytes, NEW b \in Bytes
  PROVE  Take(a \o b, Len(a)) = Got(a, b)
<1> DEFINE c == a \o b
<1>1. /\ Len(a) \in Nat /\ Len(b) \in Nat /\ c \in Bytes /\ Len(c) = Len(a) + Len(b)
      /\ \A i \in 1 .. Len(a) : c[i] = a[i]
      /\ \A i \in 1 .. Len(b) : c[Len(a) + i] = b[i]
  BY ConcatProperties, LenProperties DEF Bytes
<1> HIDE DEF c
<1>2. SubSeq(c, 1, Len(a)) = a
  <2>1. \A i \in 1 .. Len(a) : c[i] \in Byte
    BY <1>1, ElementOfSeq DEF Bytes
  <2>2. /\ SubSeq(c, 1, Len(a)) \in Bytes /\ Len(SubSeq(c, 1, Len(a))) = Len(a)
        /\ \A i \in 1 .. Len(a) : SubSeq(c, 1, Len(a))[i] = c[i]
    BY <1>1, <2>1, SubSeqProperties DEF Bytes
  <2> QED
    BY <1>1, <2>2, SeqEqual DEF Bytes
<1>3. SubSeq(c, Len(a) + 1, Len(c)) = b
  <2>1. \A i \in (Len(a) + 1) .. Len(c) : c[i] \in Byte
    BY <1>1, ElementOfSeq DEF Bytes
  <2>2. /\ SubSeq(c, Len(a) + 1, Len(c)) \in Bytes /\ Len(SubSeq(c, Len(a) + 1, Len(c))) = Len(b)
        /\ \A i \in 1 .. Len(b) : SubSeq(c, Len(a) + 1, Len(c))[i] = c[Len(a) + i]
    BY <1>1, <2>1, SubSeqProperties DEF Bytes
  <2> QED
    BY <1>1, <2>2, SeqEqual DEF Bytes
<1>4. ~(Len(c) < Len(a))
  BY <1>1
<1> QED
  BY <1>2, <1>3, <1>4 DEF Take, c

LEMMA TakeSplit ==
  ASSUME NEW buf \in Bytes, NEW n \in Nat, Take(buf, n).ok
  PROVE  \E v \in Bytes : \E rest \in Bytes :
           Take(buf, n) = Got(v, rest) /\ Len(v) = n /\ buf = v \o rest
<1> DEFINE a == SubSeq(buf, 1, n)
           b == SubSeq(buf, n + 1, Len(buf))
<1>1. Len(buf) \in Nat /\ n <= Len(buf)
  BY LenProperties DEF Take, Fail, Bytes
<1>2. Take(buf, n) = Got(a, b)
  BY <1>1 DEF Take
<1>3. \A i \in 1 .. Len(buf) : buf[i] \in Byte
  BY ElementOfSeq DEF Bytes
<1>4. a \in Bytes /\ Len(a) = n
  BY <1>1, <1>3, SubSeqProperties DEF Bytes
<1>5. b \in Bytes
  BY <1>1, <1>3, SubSeqProperties DEF Bytes
<1>6. a \o b = SubSeq(buf, 1, Len(buf))
  <2>1. 1 \in 1 .. Len(buf) + 1 /\ n \in (1 - 1) .. Len(buf) /\ Len(buf) \in n .. Len(buf)
    BY <1>1
  <2> QED
    BY <2>1, ConcatAdjacentSubSeq DEF Bytes
<1>7. SubSeq(buf, 1, Len(buf)) = buf
  BY SubSeqFull DEF Bytes
<1> HIDE DEF a, b
<1>8. buf = a \o b
  BY <1>6, <1>7
<1> QED
  BY <1>2, <1>4, <1>5, <1>8, Zenon

LEMMA Joins ==
  ASSUME NEW a \in Bytes, NEW b \in Bytes
  PROVE  /\ a \o b \in Bytes /\ Len(a \o b) = Len(a) + Len(b)
         /\ Len(a) \in Nat /\ Len(b) \in Nat
  BY ConcatProperties, LenProperties DEF Bytes

LEMMA Regroup ==
  ASSUME NEW a \in Bytes, NEW b \in Bytes, NEW c \in Bytes
  PROVE  (a \o b) \o c = a \o (b \o c)
  BY ConcatAssociative DEF Bytes

LEMMA OneByte ==
  ASSUME NEW n \in Byte
  PROVE  <<n>> \in Bytes /\ Len(<<n>>) = 1 /\ <<n>>[1] = n
  BY DEF Bytes

LEMMA U8Back ==
  ASSUME NEW n \in Byte, NEW b \in Bytes
  PROVE  ReadU8(<<n>> \o b) = Got(n, b)
<1>1. Take(<<n>> \o b, 1) = Got(<<n>>, b)
  BY OneByte, TakeBack
<1> QED
  BY <1>1, Parts, OneByte DEF ReadU8

LEMMA U32Back ==
  ASSUME NEW n \in U32, NEW b \in Bytes
  PROVE  ReadU32(Be32(n) \o b) = Got(n, b)
<1>1. Take(Be32(n) \o b, 4) = Got(Be32(n), b)
  BY Number32, TakeBack
<1> QED
  BY <1>1, Parts, Number32 DEF ReadU32

LEMMA U8Split ==
  ASSUME NEW buf \in Bytes, ReadU8(buf).ok
  PROVE  \E n \in Byte : \E rest \in Bytes : ReadU8(buf) = Got(n, rest) /\ buf = <<n>> \o rest
<1>1. Take(buf, 1).ok
  BY Parts DEF ReadU8
<1>2. PICK v \in Bytes : \E rest \in Bytes :
        Take(buf, 1) = Got(v, rest) /\ Len(v) = 1 /\ buf = v \o rest
  BY <1>1, TakeSplit
<1>3. PICK rest \in Bytes : Take(buf, 1) = Got(v, rest) /\ Len(v) = 1 /\ buf = v \o rest
  BY <1>2
<1>4. v[1] \in Byte /\ v = <<v[1]>>
  BY <1>3, OneOf
<1>5. ReadU8(buf) = Got(v[1], rest)
  BY <1>3, Parts DEF ReadU8
<1>6. buf = <<v[1]>> \o rest
  BY <1>3, <1>4, Zenon
<1> QED
  BY <1>4, <1>5, <1>6, Zenon

LEMMA U32Split ==
  ASSUME NEW buf \in Bytes, ReadU32(buf).ok
  PROVE  \E n \in U32 : \E rest \in Bytes :
           ReadU32(buf) = Got(n, rest) /\ buf = Be32(n) \o rest
<1>1. Take(buf, 4).ok
  BY Parts DEF ReadU32
<1>2. PICK v \in Bytes : \E rest \in Bytes :
        Take(buf, 4) = Got(v, rest) /\ Len(v) = 4 /\ buf = v \o rest
  BY <1>1, TakeSplit
<1>3. PICK rest \in Bytes : Take(buf, 4) = Got(v, rest) /\ Len(v) = 4 /\ buf = v \o rest
  BY <1>2
<1>4. Un32(v) \in U32 /\ Be32(Un32(v)) = v
  BY <1>3, Written32
<1>5. ReadU32(buf) = Got(Un32(v), rest)
  BY <1>3, Parts DEF ReadU32
<1>6. buf = Be32(Un32(v)) \o rest
  BY <1>3, <1>4, Zenon
<1> QED
  BY <1>4, <1>5, <1>6, Zenon

LEMMA TopHalves ==
  ASSUME NEW n \in U64
  PROVE  n \div U32Top \in U32 /\ n % U32Top \in U32 /\ (n \div U32Top) * U32Top + (n % U32Top) = n
  BY Top DEF U32, U64, Below

LEMMA TopJoined ==
  ASSUME NEW a \in U32, NEW b \in U32
  PROVE  /\ a * U32Top + b \in U64
         /\ (a * U32Top + b) \div U32Top = a /\ (a * U32Top + b) % U32Top = b
<1> DEFINE n == a * U32Top + b
<1>1. a \in Nat /\ b \in Nat /\ U32Top \in Nat /\ a < U32Top /\ b < U32Top
  BY Top DEF U32, Below
<1>2. n \in Nat /\ n < (a + 1) * U32Top
  BY <1>1
<1>3. (a + 1) * U32Top <= U32Top * U32Top
  BY <1>1
<1>4. n < U32Top * U32Top
  BY <1>1, <1>2, <1>3
<1>5. n \div U32Top = a /\ n % U32Top = b
  BY <1>1, Top
<1> QED
  BY <1>2, <1>4, <1>5 DEF U64, Below

LEMMA TakeHalf ==
  ASSUME NEW s, Len(s) = 8
  PROVE  Take(s, 4) = Got(SubSeq(s, 1, 4), SubSeq(s, 5, 8))
<1>1. ~(Len(s) < 4) /\ 4 + 1 = 5
  OBVIOUS
<1> QED
  BY <1>1 DEF Take

LEMMA Number64 ==
  ASSUME NEW n \in U64
  PROVE  Be64(n) \in Bytes /\ Len(Be64(n)) = 8 /\ Un64(Be64(n)) = n
<1> DEFINE h == n \div U32Top
           l == n % U32Top
<1>1. h \in U32 /\ l \in U32 /\ h * U32Top + l = n
  BY TopHalves
<1>2. Be64(n) = Be32(h) \o Be32(l)
  BY DEF Be64
<1> HIDE DEF h, l
<1>3. /\ Be32(h) \in Bytes /\ Len(Be32(h)) = 4 /\ Un32(Be32(h)) = h
      /\ Be32(l) \in Bytes /\ Len(Be32(l)) = 4 /\ Un32(Be32(l)) = l
  BY <1>1, Number32
<1>4. Be64(n) \in Bytes /\ Len(Be64(n)) = 8
  <2>1. Be32(h) \o Be32(l) \in Bytes /\ Len(Be32(h) \o Be32(l)) = Len(Be32(h)) + Len(Be32(l))
    BY <1>3, Joins
  <2>2. Len(Be32(h)) + Len(Be32(l)) = 8
    BY <1>3
  <2> QED
    BY <1>2, <2>1, <2>2, Zenon
<1>5. Take(Be64(n), 4) = Got(Be32(h), Be32(l))
  <2>1. Take(Be32(h) \o Be32(l), Len(Be32(h))) = Got(Be32(h), Be32(l))
    BY <1>3, TakeBack
  <2> QED
    BY <1>2, <1>3, <2>1, Zenon
<1>6. SubSeq(Be64(n), 1, 4) = Be32(h) /\ SubSeq(Be64(n), 5, 8) = Be32(l)
  <2>1. Take(Be64(n), 4) = Got(SubSeq(Be64(n), 1, 4), SubSeq(Be64(n), 5, 8))
    BY <1>4, TakeHalf, Zenon
  <2> QED
    <3>1. Got(Be32(h), Be32(l)) = Got(SubSeq(Be64(n), 1, 4), SubSeq(Be64(n), 5, 8))
      BY <1>5, <2>1
    <3> QED
      BY <3>1 DEF Got
<1>7. Un64(Be64(n)) = n
  <2>1. Un64(Be64(n)) = Un32(Be32(h)) * U32Top + Un32(Be32(l))
    BY <1>6, Zenon DEF Un64
  <2> QED
    BY <1>1, <1>3, <2>1
<1> QED
  BY <1>4, <1>7

LEMMA Written64 ==
  ASSUME NEW s \in Bytes, Len(s) = 8
  PROVE  Un64(s) \in U64 /\ Be64(Un64(s)) = s
<1>1. Take(s, 4) = Got(SubSeq(s, 1, 4), SubSeq(s, 5, 8))
  BY TakeHalf
<1>2. PICK h \in Bytes : \E l \in Bytes : Take(s, 4) = Got(h, l) /\ Len(h) = 4 /\ s = h \o l
  <2>1. ASSUME NEW a, NEW b, Take(s, 4) = Got(a, b) PROVE Take(s, 4).ok
    BY <2>1, Parts
  <2>2. Take(s, 4).ok
    BY <1>1, <2>1, Zenon
  <2>3. 4 \in Nat
    OBVIOUS
  <2> QED
    BY <2>2, <2>3, TakeSplit, Zenon
<1>3. PICK l \in Bytes : Take(s, 4) = Got(h, l) /\ Len(h) = 4 /\ s = h \o l
  BY <1>2
<1>4. Len(l) = 4
  <2>1. Len(h \o l) = Len(h) + Len(l) /\ Len(l) \in Nat
    BY Joins
  <2>2. Len(s) = Len(h) + Len(l)
    BY <1>3, <2>1, Zenon
  <2>3. 8 = 4 + Len(l)
    BY <1>3, <2>2, Zenon
  <2>4. ASSUME NEW m \in Nat, 8 = 4 + m PROVE m = 4
    BY <2>4
  <2> QED
    BY <2>1, <2>3, <2>4, Zenon
<1>5. Un32(h) \in U32 /\ Be32(Un32(h)) = h /\ Un32(l) \in U32 /\ Be32(Un32(l)) = l
  BY <1>3, <1>4, Written32
<1>6. SubSeq(s, 1, 4) = h /\ SubSeq(s, 5, 8) = l
  <2>1. Got(h, l) = Got(SubSeq(s, 1, 4), SubSeq(s, 5, 8))
    BY <1>1, <1>3
  <2> QED
    BY <2>1 DEF Got
<1>7. Un64(s) = Un32(h) * U32Top + Un32(l)
  BY <1>6, Zenon DEF Un64
<1>8. Un64(s) \in U64 /\ Un64(s) \div U32Top = Un32(h) /\ Un64(s) % U32Top = Un32(l)
  BY <1>5, <1>7, TopJoined
<1>9. Be64(Un64(s)) = h \o l
  BY <1>5, <1>8, Zenon DEF Be64
<1> QED
  BY <1>3, <1>8, <1>9, Zenon

LEMMA U64Back ==
  ASSUME NEW n \in U64, NEW b \in Bytes
  PROVE  ReadU64(Be64(n) \o b) = Got(n, b)
<1>1. Take(Be64(n) \o b, 8) = Got(Be64(n), b)
  BY Number64, TakeBack
<1> QED
  BY <1>1, Parts, Number64 DEF ReadU64

LEMMA U64Split ==
  ASSUME NEW buf \in Bytes, ReadU64(buf).ok
  PROVE  \E n \in U64 : \E rest \in Bytes :
           ReadU64(buf) = Got(n, rest) /\ buf = Be64(n) \o rest
<1>1. Take(buf, 8).ok
  BY Parts DEF ReadU64
<1>2. PICK v \in Bytes : \E rest \in Bytes :
        Take(buf, 8) = Got(v, rest) /\ Len(v) = 8 /\ buf = v \o rest
  BY <1>1, TakeSplit
<1>3. PICK rest \in Bytes : Take(buf, 8) = Got(v, rest) /\ Len(v) = 8 /\ buf = v \o rest
  BY <1>2
<1>4. Un64(v) \in U64 /\ Be64(Un64(v)) = v
  BY <1>3, Written64
<1>5. ReadU64(buf) = Got(Un64(v), rest)
  BY <1>3, Parts DEF ReadU64
<1>6. buf = Be64(Un64(v)) \o rest
  BY <1>3, <1>4, Zenon
<1> QED
  BY <1>4, <1>5, <1>6, Zenon

LEMMA BytesBack ==
  ASSUME NEW x \in Bytes, NEW max \in U32, Len(x) <= max, NEW b \in Bytes
  PROVE  PushBytes(x) \in Bytes /\ ReadBytes(PushBytes(x) \o b, max) = Got(x, b)
<1>1. Len(x) \in U32 /\ Be32(Len(x)) \in Bytes
  BY LenProperties, Number32 DEF Bytes, U32, Below, U32Top
<1>2. PushBytes(x) \in Bytes /\ PushBytes(x) \o b = Be32(Len(x)) \o (x \o b) /\ x \o b \in Bytes
  BY <1>1, Joins, Regroup, ZenonT(40) DEF PushBytes
<1>3. ReadU32(Be32(Len(x)) \o (x \o b)) = Got(Len(x), x \o b)
  BY <1>1, <1>2, U32Back
<1> QED
  BY <1>2, <1>3, TakeBack, Parts DEF ReadBytes

LEMMA BytesSplit ==
  ASSUME NEW buf \in Bytes, NEW max \in U32, ReadBytes(buf, max).ok
  PROVE  \E x \in Bytes : \E rest \in Bytes :
           ReadBytes(buf, max) = Got(x, rest) /\ Len(x) <= max /\ buf = PushBytes(x) \o rest
<1>1. /\ ReadU32(buf).ok /\ ReadU32(buf).val <= max
      /\ ReadBytes(buf, max) = Take(ReadU32(buf).rest, ReadU32(buf).val)
  BY Parts DEF ReadBytes
<1>2. PICK n \in U32 : \E left \in Bytes : ReadU32(buf) = Got(n, left) /\ buf = Be32(n) \o left
  BY <1>1, U32Split
<1>3. PICK left \in Bytes : ReadU32(buf) = Got(n, left) /\ buf = Be32(n) \o left
  BY <1>2
<1>4. n <= max /\ ReadBytes(buf, max) = Take(left, n) /\ Take(left, n).ok
  BY <1>1, <1>3, Parts
<1>5. n \in Nat /\ Be32(n) \in Bytes
  BY Number32 DEF U32, Below
<1>6. PICK x \in Bytes : \E rest \in Bytes :
        Take(left, n) = Got(x, rest) /\ Len(x) = n /\ left = x \o rest
  BY <1>4, <1>5, TakeSplit
<1>7. PICK rest \in Bytes : Take(left, n) = Got(x, rest) /\ Len(x) = n /\ left = x \o rest
  BY <1>6
<1>8. buf = (Be32(n) \o x) \o rest
  <2>1. (Be32(n) \o x) \o rest = Be32(n) \o (x \o rest)
    BY <1>5, Regroup, SMTT(40)
  <2> QED
    BY <1>3, <1>7, <2>1, Zenon
<1>9. buf = PushBytes(x) \o rest
  BY <1>7, <1>8, Zenon DEF PushBytes
<1> QED
  BY <1>4, <1>7, <1>9, Zenon

LEMMA StrBack ==
  ASSUME NEW s \in Utf8 \cap Bytes, NEW max \in U16, Len(s) <= max, NEW b \in Bytes
  PROVE  PushStr(s) \in Bytes /\ ReadStr(PushStr(s) \o b, max) = Got(s, b)
<1>1. Len(s) \in U16 /\ Be16(Len(s)) \in Bytes /\ Len(Be16(Len(s))) = 2 /\ Un16(Be16(Len(s))) = Len(s)
  BY LenProperties, Number16 DEF Bytes, U16, Below
<1>2. PushStr(s) \in Bytes /\ PushStr(s) \o b = Be16(Len(s)) \o (s \o b) /\ s \o b \in Bytes
  BY <1>1, Joins, Regroup, ZenonT(40) DEF PushStr
<1>3. Take(Be16(Len(s)) \o (s \o b), 2) = Got(Be16(Len(s)), s \o b)
  BY <1>1, <1>2, TakeBack
<1>4. Take(s \o b, Len(s)) = Got(s, b)
  BY TakeBack
<1> QED
  BY <1>1, <1>2, <1>3, <1>4, Parts DEF ReadStr

LEMMA StrSplit ==
  ASSUME NEW buf \in Bytes, NEW max \in U16, ReadStr(buf, max).ok
  PROVE  \E s \in Utf8 \cap Bytes : \E rest \in Bytes :
           ReadStr(buf, max) = Got(s, rest) /\ Len(s) <= max /\ buf = PushStr(s) \o rest
<1>1. /\ Take(buf, 2).ok /\ Un16(Take(buf, 2).val) <= max /\ ReadStr(buf, max).val \in Utf8
      /\ ReadStr(buf, max) = Take(Take(buf, 2).rest, Un16(Take(buf, 2).val))
  BY Parts DEF ReadStr
<1>2. PICK len \in Bytes : \E left \in Bytes :
        Take(buf, 2) = Got(len, left) /\ Len(len) = 2 /\ buf = len \o left
  BY <1>1, TakeSplit
<1>3. PICK left \in Bytes : Take(buf, 2) = Got(len, left) /\ Len(len) = 2 /\ buf = len \o left
  BY <1>2
<1> DEFINE n == Un16(len)
<1>4. n \in U16 /\ Be16(n) = len
  BY <1>3, Written16
<1>5. n <= max /\ ReadStr(buf, max) = Take(left, n) /\ Take(left, n).ok
  BY <1>1, <1>3, Parts
<1> HIDE DEF n
<1>6. n \in Nat
  BY <1>4 DEF U16, Below
<1>7. PICK s \in Bytes : \E rest \in Bytes :
        Take(left, n) = Got(s, rest) /\ Len(s) = n /\ left = s \o rest
  BY <1>5, <1>6, TakeSplit
<1>8. PICK rest \in Bytes : Take(left, n) = Got(s, rest) /\ Len(s) = n /\ left = s \o rest
  BY <1>7
<1>9. s \in Utf8
  BY <1>1, <1>5, <1>8, Parts
<1>10. buf = (len \o s) \o rest
  <2>1. (len \o s) \o rest = len \o (s \o rest)
    BY Regroup
  <2> QED
    BY <1>3, <1>8, <2>1, Zenon
<1>11. buf = PushStr(s) \o rest
  BY <1>4, <1>8, <1>10, Zenon DEF PushStr
<1> QED
  BY <1>5, <1>8, <1>9, <1>11

-----------------------------------------------------------------------------
(* Optional fields *)

LEMMA OptNone ==
  ASSUME NEW buf, NEW max, NEW left, ReadU8(buf) = Got(0, left)
  PROVE  ReadOpt(buf, max) = Got(<<>>, left)
<1>1. ReadU8(buf).ok /\ ReadU8(buf).val = 0 /\ ReadU8(buf).rest = left
  BY Parts
<1> QED
  BY <1>1 DEF ReadOpt

LEMMA OptSome ==
  ASSUME NEW buf, NEW max, NEW left, NEW x, NEW rest,
         ReadU8(buf) = Got(1, left), ReadBytes(left, max) = Got(x, rest)
  PROVE  ReadOpt(buf, max) = Got(<<x>>, rest)
<1>1. /\ ReadU8(buf).ok /\ ReadU8(buf).val = 1 /\ ReadU8(buf).rest = left
      /\ ReadBytes(left, max).ok /\ ReadBytes(left, max).val = x /\ ReadBytes(left, max).rest = rest
  BY Parts
<1> QED
  BY <1>1 DEF ReadOpt

LEMMA OptRead ==
  ASSUME NEW buf, NEW max, NEW n, NEW left, ReadU8(buf) = Got(n, left), ReadOpt(buf, max).ok
  PROVE  n = 0 \/ (n = 1 /\ ReadBytes(left, max).ok)
<1>1. ReadU8(buf).ok /\ ReadU8(buf).val = n /\ ReadU8(buf).rest = left
  BY Parts
<1>2. CASE n # 0 /\ ~(n = 1 /\ ReadBytes(left, max).ok)
  <2>1. ReadOpt(buf, max) = Fail
    BY <1>1, <1>2 DEF ReadOpt
  <2> QED
    BY <2>1, Parts
<1> QED
  BY <1>2

LEMMA Some ==
  ASSUME NEW S, NEW o \in Optional(S)
  PROVE  o # <<>> => o[1] \in S /\ o = <<o[1]>>
  BY DEF Optional

LEMMA OptBack ==
  ASSUME NEW o \in Optional(Bytes), NEW max \in U32, o # <<>> => Len(o[1]) <= max,
         NEW b \in Bytes
  PROVE  PushOpt(o) \in Bytes /\ ReadOpt(PushOpt(o) \o b, max) = Got(o, b)
<1>0. 0 \in Byte /\ 1 \in Byte
  BY DEF Byte, Below
<1>1. CASE o = <<>>
  <2>1. PushOpt(o) = <<0>>
    BY <1>1 DEF PushOpt
  <2>2. <<0>> \in Bytes /\ ReadU8(<<0>> \o b) = Got(0, b)
    BY <1>0, OneByte, U8Back
  <2>3. ReadOpt(<<0>> \o b, max) = Got(<<>>, b)
    BY <2>2, OptNone
  <2> QED
    BY <1>1, <2>1, <2>2, <2>3, Zenon
<1>2. ASSUME NEW x \in Bytes, o = <<x>>
      PROVE  PushOpt(o) \in Bytes /\ ReadOpt(PushOpt(o) \o b, max) = Got(o, b)
  <2>1. o # <<>> /\ o[1] = x
    BY <1>2
  <2>2. PushOpt(o) = <<1>> \o PushBytes(x)
    BY <2>1 DEF PushOpt
  <2>3. PushBytes(x) \in Bytes /\ ReadBytes(PushBytes(x) \o b, max) = Got(x, b)
    BY <2>1, BytesBack
  <2>4. <<1>> \in Bytes /\ PushBytes(x) \o b \in Bytes /\ <<1>> \o PushBytes(x) \in Bytes
    BY <1>0, <2>3, OneByte, Joins
  <2>5. (<<1>> \o PushBytes(x)) \o b = <<1>> \o (PushBytes(x) \o b)
    BY <2>3, <2>4, Regroup
  <2>6. ReadU8(<<1>> \o (PushBytes(x) \o b)) = Got(1, PushBytes(x) \o b)
    BY <1>0, <2>4, U8Back
  <2>7. ReadOpt(<<1>> \o (PushBytes(x) \o b), max) = Got(<<x>>, b)
    BY <2>3, <2>6, OptSome
  <2> QED
    BY <1>2, <2>2, <2>4, <2>5, <2>7, Zenon
<1>3. o = <<>> \/ \E x \in Bytes : o = <<x>>
  BY DEF Optional
<1> QED
  BY <1>1, <1>2, <1>3

LEMMA OptSplit ==
  ASSUME NEW buf \in Bytes, NEW max \in U32, ReadOpt(buf, max).ok
  PROVE  \E o \in Optional(Bytes) : \E rest \in Bytes :
           /\ ReadOpt(buf, max) = Got(o, rest) /\ buf = PushOpt(o) \o rest
           /\ o # <<>> => Len(o[1]) <= max
<1>1. ReadU8(buf).ok
  BY Parts DEF ReadOpt
<1>2. PICK n \in Byte : \E left \in Bytes : ReadU8(buf) = Got(n, left) /\ buf = <<n>> \o left
  BY <1>1, U8Split
<1>3. PICK left \in Bytes : ReadU8(buf) = Got(n, left) /\ buf = <<n>> \o left
  BY <1>2
<1>4. n = 0 \/ (n = 1 /\ ReadBytes(left, max).ok)
  BY <1>3, OptRead
<1>5. CASE n = 0
  <2>1. ReadOpt(buf, max) = Got(<<>>, left)
    <3>1. ReadU8(buf) = Got(0, left)
      BY <1>3, <1>5, Zenon
    <3> QED
      BY <3>1, OptNone
  <2>2. buf = PushOpt(<<>>) \o left
    BY <1>3, <1>5, Zenon DEF PushOpt
  <2>3. <<>> \in Optional(Bytes)
    BY DEF Optional
  <2> QED
    BY <2>1, <2>2, <2>3, Zenon
<1>6. CASE n = 1 /\ ReadBytes(left, max).ok
  <2>1. PICK x \in Bytes : \E rest \in Bytes :
          ReadBytes(left, max) = Got(x, rest) /\ Len(x) <= max /\ left = PushBytes(x) \o rest
    BY <1>6, BytesSplit
  <2>2. PICK rest \in Bytes :
          ReadBytes(left, max) = Got(x, rest) /\ Len(x) <= max /\ left = PushBytes(x) \o rest
    BY <2>1
  <2>3. ReadOpt(buf, max) = Got(<<x>>, rest)
    <3>1. ReadU8(buf) = Got(1, left)
      BY <1>3, <1>6, Zenon
    <3> QED
      BY <2>2, <3>1, OptSome
  <2>4. <<x>> # <<>> /\ <<x>>[1] = x /\ <<x>> \in Optional(Bytes)
    BY DEF Optional
  <2>5. <<1>> \in Bytes /\ PushBytes(x) \in Bytes
    BY <2>2, OneByte, BytesBack DEF Byte, Below
  <2>6. (<<1>> \o PushBytes(x)) \o rest = <<1>> \o (PushBytes(x) \o rest)
    BY <2>5, Regroup
  <2>7. PushOpt(<<x>>) = <<1>> \o PushBytes(x)
    BY <2>4, Zenon DEF PushOpt
  <2>8. buf = PushOpt(<<x>>) \o rest
    BY <1>3, <1>6, <2>2, <2>6, <2>7, Zenon
  <2> QED
    BY <2>2, <2>3, <2>4, <2>8, Zenon
<1> QED
  BY <1>4, <1>5, <1>6

-----------------------------------------------------------------------------
(* After an error nothing is left, and of nothing no field can be read *)

LEMMA Empty ==
  /\ Take(<<>>, 1) = Fail /\ Take(<<>>, 2) = Fail /\ Take(<<>>, 4) = Fail /\ Take(<<>>, 8) = Fail
  /\ ~Fail.ok
<1>1. Len(<<>>) < 1 /\ Len(<<>>) < 2 /\ Len(<<>>) < 4 /\ Len(<<>>) < 8
  OBVIOUS
<1> QED
  BY <1>1, Parts DEF Take

LEMMA Stuck ==
  ASSUME NEW max
  PROVE  /\ ~ReadU8(<<>>).ok /\ ~ReadU32(<<>>).ok /\ ~ReadU64(<<>>).ok
         /\ ~ReadBytes(<<>>, max).ok /\ ~ReadStr(<<>>, max).ok /\ ~ReadOpt(<<>>, max).ok
         /\ ~ReadTotp(<<>>).ok
<1>1. ~ReadU8(<<>>).ok
  BY Empty DEF ReadU8
<1>2. ~ReadU32(<<>>).ok
  BY Empty DEF ReadU32
<1>3. ~ReadU64(<<>>).ok
  BY Empty DEF ReadU64
<1>4. ~ReadBytes(<<>>, max).ok
  BY <1>2, Empty DEF ReadBytes
<1>5. ~ReadStr(<<>>, max).ok
  BY Empty DEF ReadStr
<1>6. ~ReadOpt(<<>>, max).ok
  BY <1>1, Empty DEF ReadOpt
<1>7. ~ReadTotp(<<>>).ok
  BY <1>1, Empty DEF ReadTotp
<1> QED
  BY <1>1, <1>2, <1>3, <1>4, <1>5, <1>6, <1>7

LEMMA Spent ==
  ASSUME NEW buf, NEW max
  PROVE  /\ ~ReadU8(buf).ok => ReadU8(buf).rest = <<>>
         /\ ~ReadU32(buf).ok => ReadU32(buf).rest = <<>>
         /\ ~ReadU64(buf).ok => ReadU64(buf).rest = <<>>
         /\ ~ReadBytes(buf, max).ok => ReadBytes(buf, max).rest = <<>>
         /\ ~ReadStr(buf, max).ok => ReadStr(buf, max).rest = <<>>
         /\ ~ReadOpt(buf, max).ok => ReadOpt(buf, max).rest = <<>>
         /\ ~ReadTotp(buf).ok => ReadTotp(buf).rest = <<>>
<1>0. ASSUME NEW b, NEW n, ~Take(b, n).ok PROVE Take(b, n).rest = <<>>
  BY <1>0, Parts DEF Take
<1>1. ~ReadU8(buf).ok => ReadU8(buf).rest = <<>>
  BY Parts DEF ReadU8
<1>2. ~ReadU32(buf).ok => ReadU32(buf).rest = <<>>
  BY Parts DEF ReadU32
<1>3. ~ReadU64(buf).ok => ReadU64(buf).rest = <<>>
  BY Parts DEF ReadU64
<1>4. ~ReadBytes(buf, max).ok => ReadBytes(buf, max).rest = <<>>
  BY <1>0, Parts DEF ReadBytes
<1>5. ~ReadStr(buf, max).ok => ReadStr(buf, max).rest = <<>>
  BY <1>0, Parts DEF ReadStr
<1>6. ~ReadOpt(buf, max).ok => ReadOpt(buf, max).rest = <<>>
  BY Parts DEF ReadOpt
<1>7. ~ReadTotp(buf).ok => ReadTotp(buf).rest = <<>>
  BY Parts DEF ReadTotp
<1> QED
  BY <1>1, <1>2, <1>3, <1>4, <1>5, <1>6, <1>7

-----------------------------------------------------------------------------
(* A TOTP configuration *)

LEMMA TotpNone ==
  ASSUME NEW buf, NEW left, ReadU8(buf) = Got(0, left)
  PROVE  ReadTotp(buf) = Got(<<>>, left)
<1>1. ReadU8(buf).ok /\ ReadU8(buf).val = 0 /\ ReadU8(buf).rest = left
  BY Parts
<1> QED
  BY <1>1, SMTT(40) DEF ReadTotp

Config(s, p, d, a) == [secret |-> s, period |-> p, digits |-> d, algorithm |-> a]

LEMMA ConfigParts ==
  ASSUME NEW s, NEW p, NEW d, NEW a
  PROVE  /\ Config(s, p, d, a).secret = s /\ Config(s, p, d, a).period = p
         /\ Config(s, p, d, a).digits = d /\ Config(s, p, d, a).algorithm = a
  BY DEF Config

LEMMA TotpSome ==
  ASSUME NEW buf, NEW r1, NEW s, NEW r2, NEW p, NEW r3, NEW d, NEW r4, NEW a \in Algorithms, NEW rest,
         ReadU8(buf) = Got(1, r1), ReadBytes(r1, MaxSecret) = Got(s, r2), ReadU32(r2) = Got(p, r3),
         ReadU32(r3) = Got(d, r4), ReadU8(r4) = Got(a, rest), Usable(Config(s, p, d, a))
  PROVE  ReadTotp(buf) = Got(<<Config(s, p, d, a)>>, rest)
<1>1. /\ ReadU8(buf).ok /\ ReadU8(buf).val = 1 /\ ReadU8(buf).rest = r1
      /\ ReadBytes(r1, MaxSecret).val = s /\ ReadBytes(r1, MaxSecret).rest = r2
      /\ ReadU32(r2).val = p /\ ReadU32(r2).rest = r3
      /\ ReadU32(r3).val = d /\ ReadU32(r3).rest = r4
      /\ ReadU8(r4).ok /\ ReadU8(r4).val = a /\ ReadU8(r4).rest = rest
  BY Parts
<1>2. Config(s, p, d, a).algorithm \in Algorithms
  BY ConfigParts
<1> QED
  BY <1>1, <1>2, SMTT(40) DEF ReadTotp, Config

LEMMA TotpRead ==
  ASSUME NEW buf, NEW n, NEW left, ReadU8(buf) = Got(n, left), ReadTotp(buf).ok, n # 0
  PROVE  LET secret    == ReadBytes(left, MaxSecret)
             period    == ReadU32(secret.rest)
             digits    == ReadU32(period.rest)
             algorithm == ReadU8(digits.rest)
         IN  /\ n = 1 /\ secret.ok /\ period.ok /\ digits.ok /\ algorithm.ok
             /\ algorithm.val \in Algorithms
             /\ Usable(Config(secret.val, period.val, digits.val, algorithm.val))
<1> DEFINE secret    == ReadBytes(left, MaxSecret)
           period    == ReadU32(secret.rest)
           digits    == ReadU32(period.rest)
           algorithm == ReadU8(digits.rest)
           totp      == Config(secret.val, period.val, digits.val, algorithm.val)
<1>1. ReadU8(buf).ok /\ ReadU8(buf).val = n /\ ReadU8(buf).rest = left
  BY Parts
<1>2. ~Fail.ok
  BY Parts
<1>3. n = 1 /\ algorithm.ok /\ Usable(totp) /\ totp.algorithm \in Algorithms
  BY <1>1, <1>2 DEF ReadTotp, Config
<1>4. digits.ok
  BY <1>3, Spent, Stuck
<1>5. period.ok
  BY <1>4, Spent, Stuck
<1>6. secret.ok
  BY <1>5, Spent, Stuck
<1>7. totp.algorithm = algorithm.val
  BY ConfigParts
<1> QED
  BY <1>3, <1>4, <1>5, <1>6, <1>7, Zenon

Cat(a, b) == a \o b

LEMMA Cats ==
  ASSUME NEW a \in Bytes, NEW b \in Bytes
  PROVE  Cat(a, b) \in Bytes
  BY Joins DEF Cat

LEMMA Regrouped ==
  ASSUME NEW a \in Bytes, NEW b \in Bytes, NEW c \in Bytes
  PROVE  Cat(Cat(a, b), c) = Cat(a, Cat(b, c))
  BY Regroup DEF Cat

LEMMA Chain ==
  ASSUME NEW a \in Bytes, NEW s \in Bytes, NEW p \in Bytes, NEW d \in Bytes, NEW e \in Bytes,
         NEW b \in Bytes
  PROVE  /\ Cat(a, Cat(s, Cat(p, Cat(d, e)))) \in Bytes
         /\ Cat(Cat(a, Cat(s, Cat(p, Cat(d, e)))), b) = Cat(a, Cat(s, Cat(p, Cat(d, Cat(e, b)))))
<1>1. Cat(d, e) \in Bytes /\ Cat(p, Cat(d, e)) \in Bytes /\ Cat(s, Cat(p, Cat(d, e))) \in Bytes
  BY Cats
<1>2. Cat(Cat(d, e), b) = Cat(d, Cat(e, b))
  BY Regrouped
<1>3. Cat(Cat(p, Cat(d, e)), b) = Cat(p, Cat(d, Cat(e, b)))
  BY <1>1, <1>2, Regrouped
<1>4. Cat(Cat(s, Cat(p, Cat(d, e))), b) = Cat(s, Cat(p, Cat(d, Cat(e, b))))
  BY <1>1, <1>3, Regrouped
<1> QED
  BY <1>1, <1>4, Cats, Regrouped

LEMMA ConfigOf ==
  ASSUME NEW t \in Totps
  PROVE  /\ t.secret \in Bytes /\ t.period \in U32 /\ t.digits \in U32 /\ t.algorithm \in Algorithms
         /\ t = Config(t.secret, t.period, t.digits, t.algorithm)
  BY DEF Totps, Config

LEMMA ConfigIn ==
  ASSUME NEW s \in Bytes, NEW p \in U32, NEW d \in U32, NEW a \in Algorithms
  PROVE  Config(s, p, d, a) \in Totps
  BY DEF Totps, Config

LEMMA SmallBytes == 0 \in Byte /\ 1 \in Byte /\ Algorithms \subseteq Byte
  BY DEF Byte, Below, Algorithms

LEMMA SecretLimit == MaxSecret \in U32
  BY Top DEF MaxSecret, U32, Below

LEMMA TotpBack ==
  ASSUME NEW o \in Optional(Totps), NEW b \in Bytes,
         o # <<>> => Len(o[1].secret) <= MaxSecret /\ Usable(o[1])
  PROVE  PushTotp(o) \in Bytes /\ ReadTotp(PushTotp(o) \o b) = Got(o, b)
<1>1. CASE o = <<>>
  <2>1. PushTotp(o) = <<0>>
    BY <1>1 DEF PushTotp
  <2>2. <<0>> \in Bytes /\ ReadU8(<<0>> \o b) = Got(0, b)
    BY SmallBytes, OneByte, U8Back
  <2>3. ReadTotp(<<0>> \o b) = Got(<<>>, b)
    BY <2>2, TotpNone
  <2> QED
    BY <1>1, <2>1, <2>2, <2>3, Zenon
<1>2. ASSUME NEW t \in Totps, o = <<t>>
      PROVE  PushTotp(o) \in Bytes /\ ReadTotp(PushTotp(o) \o b) = Got(o, b)
  <2>1. o # <<>> /\ o[1] = t
    BY <1>2
  <2> DEFINE s == t.secret
             p == t.period
             d == t.digits
             a == t.algorithm
  <2>2. Len(s) <= MaxSecret /\ Usable(t)
    BY <2>1
  <2>3. s \in Bytes /\ p \in U32 /\ d \in U32 /\ a \in Algorithms /\ t = Config(s, p, d, a)
    BY ConfigOf
  <2> DEFINE one == <<1>>
             sec == PushBytes(s)
             per == Be32(p)
             dig == Be32(d)
             alg == <<a>>
             r4  == Cat(alg, b)
             r3  == Cat(dig, r4)
             r2  == Cat(per, r3)
             r1  == Cat(sec, r2)
  <2>4. PushTotp(o) = Cat(one, Cat(sec, Cat(per, Cat(dig, alg))))
    BY <2>1, Zenon DEF PushTotp, Cat
  <2> HIDE DEF s, p, d, a
  <2>5. one \in Bytes /\ sec \in Bytes /\ per \in Bytes /\ dig \in Bytes /\ alg \in Bytes
    BY <2>2, <2>3, SmallBytes, OneByte, Number32, BytesBack, SecretLimit
  <2> HIDE DEF one, sec, per, dig, alg
  <2>6. /\ r4 \in Bytes /\ r3 \in Bytes /\ r2 \in Bytes /\ r1 \in Bytes
        /\ PushTotp(o) \in Bytes /\ Cat(PushTotp(o), b) = Cat(one, r1)
    <3>1. r4 \in Bytes /\ r3 \in Bytes /\ r2 \in Bytes /\ r1 \in Bytes
      BY <2>5, Cats
    <3> DEFINE w == Cat(one, Cat(sec, Cat(per, Cat(dig, alg))))
    <3>2. w \in Bytes /\ Cat(w, b) = Cat(one, r1)
      BY <2>5, Chain
    <3> HIDE DEF w, r4, r3, r2, r1
    <3>3. PushTotp(o) = w
      BY <2>4 DEF w
    <3> QED
      BY <3>1, <3>2, <3>3
  <2> HIDE DEF r4, r3, r2, r1
  <2>7. ReadU8(Cat(one, r1)) = Got(1, r1)
    BY <2>6, SmallBytes, U8Back DEF one, Cat
  <2>8. ReadBytes(r1, MaxSecret) = Got(s, r2)
    BY <2>2, <2>3, <2>6, BytesBack, SecretLimit DEF r1, sec, Cat
  <2>9. ReadU32(r2) = Got(p, r3)
    BY <2>3, <2>6, U32Back DEF r2, per, Cat
  <2>10. ReadU32(r3) = Got(d, r4)
    BY <2>3, <2>6, U32Back DEF r3, dig, Cat
  <2>11. ReadU8(r4) = Got(a, b)
    BY <2>3, SmallBytes, U8Back DEF r4, alg, Cat
  <2>12. Usable(Config(s, p, d, a))
    BY <2>2, <2>3, Zenon
  <2>13. ReadTotp(Cat(one, r1)) = Got(<<Config(s, p, d, a)>>, b)
    BY <2>3, <2>7, <2>8, <2>9, <2>10, <2>11, <2>12, TotpSome
  <2>14. PushTotp(o) \o b = Cat(one, r1)
    BY <2>6 DEF Cat
  <2> QED
    BY <1>2, <2>3, <2>6, <2>13, <2>14, Zenon
<1>3. o = <<>> \/ \E t \in Totps : o = <<t>>
  BY DEF Optional
<1> QED
  BY <1>1, <1>2, <1>3

LEMMA TotpSplit ==
  ASSUME NEW buf \in Bytes, ReadTotp(buf).ok
  PROVE  \E o \in Optional(Totps) : \E rest \in Bytes :
           /\ ReadTotp(buf) = Got(o, rest) /\ buf = PushTotp(o) \o rest
           /\ o # <<>> => Len(o[1].secret) <= MaxSecret /\ Usable(o[1])
<1>1. ReadU8(buf).ok
  BY Parts DEF ReadTotp
<1>2. PICK n \in Byte : \E r1 \in Bytes : ReadU8(buf) = Got(n, r1) /\ buf = <<n>> \o r1
  BY <1>1, U8Split
<1>3. PICK r1 \in Bytes : ReadU8(buf) = Got(n, r1) /\ buf = <<n>> \o r1
  BY <1>2
<1>4. CASE n = 0
  <2>1. ReadU8(buf) = Got(0, r1)
    BY <1>3, <1>4, Zenon
  <2>2. ReadTotp(buf) = Got(<<>>, r1)
    BY <2>1, TotpNone
  <2>3. buf = PushTotp(<<>>) \o r1
    BY <1>3, <1>4, Zenon DEF PushTotp
  <2>4. <<>> \in Optional(Totps)
    BY DEF Optional
  <2> QED
    BY <2>2, <2>3, <2>4, Zenon
<1>5. CASE n # 0
  <2> DEFINE secret    == ReadBytes(r1, MaxSecret)
             period    == ReadU32(secret.rest)
             digits    == ReadU32(period.rest)
             algorithm == ReadU8(digits.rest)
  <2>1. /\ n = 1 /\ secret.ok /\ period.ok /\ digits.ok /\ algorithm.ok
        /\ algorithm.val \in Algorithms
        /\ Usable(Config(secret.val, period.val, digits.val, algorithm.val))
    BY <1>3, <1>5, TotpRead
  <2>2. PICK s \in Bytes : \E r2 \in Bytes :
          secret = Got(s, r2) /\ Len(s) <= MaxSecret /\ r1 = PushBytes(s) \o r2
    BY <2>1, BytesSplit, SecretLimit
  <2>3. PICK r2 \in Bytes : secret = Got(s, r2) /\ Len(s) <= MaxSecret /\ r1 = PushBytes(s) \o r2
    BY <2>2
  <2>4. secret.rest = r2 /\ secret.val = s
    BY <2>3, Parts
  <2>5. PICK p \in U32 : \E r3 \in Bytes : period = Got(p, r3) /\ r2 = Be32(p) \o r3
    BY <2>1, <2>4, U32Split
  <2>6. PICK r3 \in Bytes : period = Got(p, r3) /\ r2 = Be32(p) \o r3
    BY <2>5
  <2>7. period.rest = r3 /\ period.val = p
    BY <2>6, Parts
  <2>8. PICK d \in U32 : \E r4 \in Bytes : digits = Got(d, r4) /\ r3 = Be32(d) \o r4
    BY <2>1, <2>7, U32Split
  <2>9. PICK r4 \in Bytes : digits = Got(d, r4) /\ r3 = Be32(d) \o r4
    BY <2>8
  <2>10. digits.rest = r4 /\ digits.val = d
    BY <2>9, Parts
  <2>11. PICK a \in Byte : \E rest \in Bytes : algorithm = Got(a, rest) /\ r4 = <<a>> \o rest
    BY <2>1, <2>10, U8Split
  <2>12. PICK rest \in Bytes : algorithm = Got(a, rest) /\ r4 = <<a>> \o rest
    BY <2>11
  <2>13. algorithm.val = a
    BY <2>12, Parts
  <2>14. ReadU8(buf) = Got(1, r1) /\ buf = <<1>> \o r1
    BY <1>3, <2>1, Zenon
  <2>15. /\ secret = Got(s, r2) /\ ReadU32(r2) = Got(p, r3) /\ ReadU32(r3) = Got(d, r4)
         /\ ReadU8(r4) = Got(a, rest)
    BY <2>3, <2>4, <2>6, <2>7, <2>9, <2>10, <2>12, Zenon
  <2>16. a \in Algorithms /\ Usable(Config(s, p, d, a))
    BY <2>1, <2>4, <2>7, <2>10, <2>13, Zenon
  <2> HIDE DEF secret, period, digits, algorithm
  <2> DEFINE t == Config(s, p, d, a)
             o == <<t>>
  <2>17. ReadTotp(buf) = Got(o, rest)
    BY <2>14, <2>15, <2>16, TotpSome DEF secret
  <2>18. t \in Totps /\ t.secret = s /\ t.period = p /\ t.digits = d /\ t.algorithm = a
    BY <2>16, ConfigIn, ConfigParts
  <2> HIDE DEF t
  <2>19. o # <<>> /\ o[1] = t /\ o \in Optional(Totps)
    BY <2>18 DEF Optional
  <2> HIDE DEF o
  <2> DEFINE one == <<1>>
             sec == PushBytes(s)
             per == Be32(p)
             dig == Be32(d)
             alg == <<a>>
  <2>20. PushTotp(o) = Cat(one, Cat(sec, Cat(per, Cat(dig, alg))))
    BY <2>18, <2>19, Zenon DEF PushTotp, Cat
  <2>21. one \in Bytes /\ sec \in Bytes /\ per \in Bytes /\ dig \in Bytes /\ alg \in Bytes
    BY <2>3, SmallBytes, OneByte, Number32, BytesBack, SecretLimit
  <2>22. buf = Cat(one, r1) /\ r1 = Cat(sec, r2) /\ r2 = Cat(per, r3) /\ r3 = Cat(dig, r4) /\ r4 = Cat(alg, rest)
    BY <2>3, <2>6, <2>9, <2>12, <2>14 DEF Cat
  <2> HIDE DEF one, sec, per, dig, alg
  <2>23. Cat(Cat(one, Cat(sec, Cat(per, Cat(dig, alg)))), rest)
           = Cat(one, Cat(sec, Cat(per, Cat(dig, Cat(alg, rest)))))
    BY <2>21, Chain, SMTT(40)
  <2>24. buf = Cat(PushTotp(o), rest)
    BY <2>20, <2>22, <2>23, Zenon
  <2>25. buf = PushTotp(o) \o rest
    BY <2>24 DEF Cat
  <2>26. Len(o[1].secret) <= MaxSecret /\ Usable(o[1])
    BY <2>3, <2>16, <2>18, <2>19 DEF t
  <2> QED
    BY <2>17, <2>19, <2>25, <2>26, Zenon
<1> QED
  BY <1>4, <1>5

-----------------------------------------------------------------------------
(* An item *)

Record(p, u, n, t, c, m) ==
  [password |-> p, url |-> u, notes |-> n, totp |-> t, created |-> c, modified |-> m]

LEMMA RecordParts ==
  ASSUME NEW p, NEW u, NEW n, NEW t, NEW c, NEW m
  PROVE  /\ Record(p, u, n, t, c, m).password = p /\ Record(p, u, n, t, c, m).url = u
         /\ Record(p, u, n, t, c, m).notes = n /\ Record(p, u, n, t, c, m).totp = t
         /\ Record(p, u, n, t, c, m).created = c /\ Record(p, u, n, t, c, m).modified = m
  BY DEF Record

LEMMA RecordOf ==
  ASSUME NEW r \in Items
  PROVE  /\ r.password \in Optional(Bytes) /\ r.url \in Utf8 \cap Bytes /\ r.notes \in Optional(Bytes)
         /\ r.totp \in Optional(Totps) /\ r.created \in U64 /\ r.modified \in U64
         /\ r = Record(r.password, r.url, r.notes, r.totp, r.created, r.modified)
  BY DEF Items, Record

LEMMA RecordIn ==
  ASSUME NEW p \in Optional(Bytes), NEW u \in Utf8 \cap Bytes, NEW n \in Optional(Bytes),
         NEW t \in Optional(Totps), NEW c \in U64, NEW m \in U64
  PROVE  Record(p, u, n, t, c, m) \in Items
  BY DEF Items, Record

LEMMA Limits == MaxPassword \in U32 /\ MaxNotes \in U32 /\ MaxUrl \in U16
  BY Top DEF MaxPassword, MaxNotes, MaxUrl, U32, U16, Below

LEMMA Fit ==
  ASSUME NEW p, NEW u, NEW n, NEW t, NEW c, NEW m
  PROVE  Valid(Record(p, u, n, t, c, m)) <=>
           /\ p # <<>> => Len(p[1]) <= MaxPassword
           /\ Len(u) <= MaxUrl
           /\ n # <<>> => Len(n[1]) <= MaxNotes
           /\ t # <<>> => Len(t[1].secret) <= MaxSecret /\ Usable(t[1])
  BY RecordParts DEF Valid

LEMMA Written ==
  ASSUME NEW p, NEW u, NEW n, NEW t, NEW c, NEW m, NEW id
  PROVE  Serialize(Record(p, u, n, t, c, m), id) =
           Cat(PushOpt(p), Cat(PushStr(u), Cat(PushOpt(n), Cat(PushTotp(t),
             Cat(Be64(c), Cat(Be64(m), Be32(id)))))))
<1> DEFINE r == Record(p, u, n, t, c, m)
<1>1. /\ r.password = p /\ r.url = u /\ r.notes = n /\ r.totp = t
      /\ r.created = c /\ r.modified = m
  BY RecordParts
<1> HIDE DEF r
<1>2. Serialize(r, id) = Cat(PushOpt(r.password), Cat(PushStr(r.url), Cat(PushOpt(r.notes),
        Cat(PushTotp(r.totp), Cat(Be64(r.created), Cat(Be64(r.modified), Be32(id)))))))
  BY Zenon DEF Serialize, Cat
<1> QED
  BY <1>1, <1>2 DEF r

LEMMA ParseGot ==
  ASSUME NEW buf, NEW p, NEW u, NEW n, NEW t, NEW c, NEW m, NEW id,
         NEW r1, NEW r2, NEW r3, NEW r4, NEW r5, NEW r6,
         ReadOpt(buf, MaxPassword) = Got(p, r1), ReadStr(r1, MaxUrl) = Got(u, r2),
         ReadOpt(r2, MaxNotes) = Got(n, r3), ReadTotp(r3) = Got(t, r4), ReadU64(r4) = Got(c, r5),
         ReadU64(r5) = Got(m, r6), ReadU32(r6) = Got(id, <<>>)
  PROVE  Parse(buf) = Got(<<Record(p, u, n, t, c, m), id>>, <<>>)
<1>1. /\ ReadOpt(buf, MaxPassword).val = p /\ ReadOpt(buf, MaxPassword).rest = r1
      /\ ReadStr(r1, MaxUrl).val = u /\ ReadStr(r1, MaxUrl).rest = r2
      /\ ReadOpt(r2, MaxNotes).val = n /\ ReadOpt(r2, MaxNotes).rest = r3
      /\ ReadTotp(r3).val = t /\ ReadTotp(r3).rest = r4
      /\ ReadU64(r4).val = c /\ ReadU64(r4).rest = r5
      /\ ReadU64(r5).val = m /\ ReadU64(r5).rest = r6
      /\ ReadU32(r6).ok /\ ReadU32(r6).val = id /\ ReadU32(r6).rest = <<>>
  BY Parts
<1> QED
  BY <1>1 DEF Parse, Record

LEMMA ParseRead ==
  ASSUME NEW buf, Parse(buf).ok
  PROVE  LET password == ReadOpt(buf, MaxPassword)
             url      == ReadStr(password.rest, MaxUrl)
             notes    == ReadOpt(url.rest, MaxNotes)
             totp     == ReadTotp(notes.rest)
             created  == ReadU64(totp.rest)
             modified == ReadU64(created.rest)
             id       == ReadU32(modified.rest)
         IN  /\ password.ok /\ url.ok /\ notes.ok /\ totp.ok /\ created.ok /\ modified.ok
             /\ id.ok /\ id.rest = <<>>
<1> DEFINE password == ReadOpt(buf, MaxPassword)
           url      == ReadStr(password.rest, MaxUrl)
           notes    == ReadOpt(url.rest, MaxNotes)
           totp     == ReadTotp(notes.rest)
           created  == ReadU64(totp.rest)
           modified == ReadU64(created.rest)
           id       == ReadU32(modified.rest)
<1>1. id.ok /\ id.rest = <<>>
  BY Parts DEF Parse
<1>2. modified.ok
  BY <1>1, Spent, Stuck
<1>3. created.ok
  BY <1>2, Spent, Stuck
<1>4. totp.ok
  BY <1>3, Spent, Stuck
<1>5. notes.ok
  BY <1>4, Spent, Stuck
<1>6. url.ok
  BY <1>5, Spent, Stuck
<1>7. password.ok
  BY <1>6, Spent, Stuck
<1> QED
  BY <1>1, <1>2, <1>3, <1>4, <1>5, <1>6, <1>7, Zenon

(***************************************************************************)
(* What serialize_item writes of a valid item, parse_item reads back: the  *)
(* item and its id, whatever the fields hold, up to the limits.            *)
(***************************************************************************)
THEOREM ItemRoundTrip ==
  ASSUME NEW r \in Items, NEW id \in U32, Valid(r)
  PROVE  Serialize(r, id) \in Bytes /\ Parse(Serialize(r, id)) = Got(<<r, id>>, <<>>)
<1> DEFINE p == r.password
           u == r.url
           n == r.notes
           t == r.totp
           c == r.created
           m == r.modified
<1>1. /\ p \in Optional(Bytes) /\ u \in Utf8 \cap Bytes /\ n \in Optional(Bytes)
      /\ t \in Optional(Totps) /\ c \in U64 /\ m \in U64 /\ r = Record(p, u, n, t, c, m)
  BY RecordOf
<1> HIDE DEF p, u, n, t, c, m
<1>2. /\ p # <<>> => Len(p[1]) <= MaxPassword
      /\ Len(u) <= MaxUrl
      /\ n # <<>> => Len(n[1]) <= MaxNotes
      /\ t # <<>> => Len(t[1].secret) <= MaxSecret /\ Usable(t[1])
  BY <1>1, Fit, Zenon
<1>3. \A b \in Bytes : PushOpt(p) \in Bytes /\ ReadOpt(PushOpt(p) \o b, MaxPassword) = Got(p, b)
  BY <1>1, <1>2, OptBack, Limits
<1>4. \A b \in Bytes : PushStr(u) \in Bytes /\ ReadStr(PushStr(u) \o b, MaxUrl) = Got(u, b)
  BY <1>1, <1>2, StrBack, Limits
<1>5. \A b \in Bytes : PushOpt(n) \in Bytes /\ ReadOpt(PushOpt(n) \o b, MaxNotes) = Got(n, b)
  BY <1>1, <1>2, OptBack, Limits
<1>6. \A b \in Bytes : PushTotp(t) \in Bytes /\ ReadTotp(PushTotp(t) \o b) = Got(t, b)
  BY <1>1, <1>2, TotpBack
<1>7. \A b \in Bytes : Be64(c) \in Bytes /\ ReadU64(Be64(c) \o b) = Got(c, b)
  BY <1>1, U64Back, Number64
<1>8. \A b \in Bytes : Be64(m) \in Bytes /\ ReadU64(Be64(m) \o b) = Got(m, b)
  BY <1>1, U64Back, Number64
<1>9. Be32(id) \in Bytes /\ ReadU32(Be32(id)) = Got(id, <<>>)
  <2>1. Be32(id) \in Bytes /\ <<>> \in Bytes
    BY Number32 DEF Bytes
  <2>2. Be32(id) \o <<>> = Be32(id)
    BY <2>1, ConcatEmptySeq DEF Bytes
  <2>3. ReadU32(Be32(id) \o <<>>) = Got(id, <<>>)
    BY <2>1, U32Back
  <2> QED
    BY <2>1, <2>2, <2>3, Zenon
<1> DEFINE r6 == Be32(id)
           r5 == Cat(Be64(m), r6)
           r4 == Cat(Be64(c), r5)
           r3 == Cat(PushTotp(t), r4)
           r2 == Cat(PushOpt(n), r3)
           r1 == Cat(PushStr(u), r2)
           r0 == Cat(PushOpt(p), r1)
<1>10. Serialize(r, id) = r0
  <2>1. Serialize(Record(p, u, n, t, c, m), id) = r0
    BY Written
  <2>2. r = Record(p, u, n, t, c, m)
    BY <1>1
  <2> HIDE DEF r0
  <2> QED
    BY <2>1, <2>2
<1>11. r6 \in Bytes /\ ReadU32(r6) = Got(id, <<>>)
  BY <1>9
<1> HIDE DEF r6
<1>12. r5 \in Bytes /\ ReadU64(r5) = Got(m, r6)
  BY <1>8, <1>11, Cats DEF Cat
<1> HIDE DEF r5
<1>13. r4 \in Bytes /\ ReadU64(r4) = Got(c, r5)
  BY <1>7, <1>12, Cats DEF Cat
<1> HIDE DEF r4
<1>14. r3 \in Bytes /\ ReadTotp(r3) = Got(t, r4)
  BY <1>6, <1>13, Cats DEF Cat
<1> HIDE DEF r3
<1>15. r2 \in Bytes /\ ReadOpt(r2, MaxNotes) = Got(n, r3)
  BY <1>5, <1>14, Cats DEF Cat
<1> HIDE DEF r2
<1>16. r1 \in Bytes /\ ReadStr(r1, MaxUrl) = Got(u, r2)
  BY <1>4, <1>15, Cats DEF Cat
<1> HIDE DEF r1
<1>17. r0 \in Bytes /\ ReadOpt(r0, MaxPassword) = Got(p, r1)
  BY <1>3, <1>16, Cats DEF Cat
<1> HIDE DEF r0
<1>18. Parse(r0) = Got(<<Record(p, u, n, t, c, m), id>>, <<>>)
  BY <1>11, <1>12, <1>13, <1>14, <1>15, <1>16, <1>17, ParseGot
<1> QED
  BY <1>1, <1>10, <1>17, <1>18, Zenon

(***************************************************************************)
(* parse_item accepts nothing but what serialize_item writes: a buffer it  *)
(* reads is the record of exactly one valid item and id, without slack     *)
(* that two readers could take in two ways.                                *)
(***************************************************************************)
THEOREM ItemCanonical ==
  ASSUME NEW buf \in Bytes, Parse(buf).ok
  PROVE  \E r \in Items : \E id \in U32 :
           Parse(buf) = Got(<<r, id>>, <<>>) /\ Valid(r) /\ buf = Serialize(r, id)
<1> DEFINE password == ReadOpt(buf, MaxPassword)
           url      == ReadStr(password.rest, MaxUrl)
           notes    == ReadOpt(url.rest, MaxNotes)
           totp     == ReadTotp(notes.rest)
           created  == ReadU64(totp.rest)
           modified == ReadU64(created.rest)
           last     == ReadU32(modified.rest)
<1>1. /\ password.ok /\ url.ok /\ notes.ok /\ totp.ok /\ created.ok /\ modified.ok
      /\ last.ok /\ last.rest = <<>>
  BY ParseRead
<1>2. PICK p \in Optional(Bytes) : \E r1 \in Bytes :
        /\ password = Got(p, r1) /\ buf = PushOpt(p) \o r1
        /\ p # <<>> => Len(p[1]) <= MaxPassword
  BY <1>1, OptSplit, Limits
<1>3. PICK r1 \in Bytes : /\ password = Got(p, r1) /\ buf = PushOpt(p) \o r1
                          /\ p # <<>> => Len(p[1]) <= MaxPassword
  BY <1>2
<1>4. password.rest = r1
  BY <1>3, Parts
<1>5. PICK u \in Utf8 \cap Bytes : \E r2 \in Bytes :
        url = Got(u, r2) /\ Len(u) <= MaxUrl /\ r1 = PushStr(u) \o r2
  BY <1>1, <1>4, StrSplit, Limits
<1>6. PICK r2 \in Bytes : url = Got(u, r2) /\ Len(u) <= MaxUrl /\ r1 = PushStr(u) \o r2
  BY <1>5
<1>7. url.rest = r2
  BY <1>6, Parts
<1>8. PICK n \in Optional(Bytes) : \E r3 \in Bytes :
        /\ notes = Got(n, r3) /\ r2 = PushOpt(n) \o r3
        /\ n # <<>> => Len(n[1]) <= MaxNotes
  BY <1>1, <1>7, OptSplit, Limits
<1>9. PICK r3 \in Bytes : /\ notes = Got(n, r3) /\ r2 = PushOpt(n) \o r3
                          /\ n # <<>> => Len(n[1]) <= MaxNotes
  BY <1>8
<1>10. notes.rest = r3
  BY <1>9, Parts
<1>11. PICK t \in Optional(Totps) : \E r4 \in Bytes :
         /\ totp = Got(t, r4) /\ r3 = PushTotp(t) \o r4
         /\ t # <<>> => Len(t[1].secret) <= MaxSecret /\ Usable(t[1])
  BY <1>1, <1>10, TotpSplit
<1>12. PICK r4 \in Bytes : /\ totp = Got(t, r4) /\ r3 = PushTotp(t) \o r4
                           /\ t # <<>> => Len(t[1].secret) <= MaxSecret /\ Usable(t[1])
  BY <1>11
<1>13. totp.rest = r4
  BY <1>12, Parts
<1>14. PICK c \in U64 : \E r5 \in Bytes : created = Got(c, r5) /\ r4 = Be64(c) \o r5
  BY <1>1, <1>13, U64Split
<1>15. PICK r5 \in Bytes : created = Got(c, r5) /\ r4 = Be64(c) \o r5
  BY <1>14
<1>16. created.rest = r5
  BY <1>15, Parts
<1>17. PICK m \in U64 : \E r6 \in Bytes : modified = Got(m, r6) /\ r5 = Be64(m) \o r6
  BY <1>1, <1>16, U64Split
<1>18. PICK r6 \in Bytes : modified = Got(m, r6) /\ r5 = Be64(m) \o r6
  BY <1>17
<1>19. modified.rest = r6
  BY <1>18, Parts
<1>20. PICK id \in U32 : \E r7 \in Bytes : last = Got(id, r7) /\ r6 = Be32(id) \o r7
  BY <1>1, <1>19, U32Split
<1>21. PICK r7 \in Bytes : last = Got(id, r7) /\ r6 = Be32(id) \o r7
  BY <1>20
<1>22. r7 = <<>>
  BY <1>1, <1>21, Parts, SMTT(40)
<1>23. last = Got(id, <<>>) /\ r6 = Be32(id)
  <2>1. Be32(id) \in Bytes
    BY Number32
  <2>2. Be32(id) \o <<>> = Be32(id)
    BY <2>1, ConcatEmptySeq DEF Bytes
  <2> QED
    BY <1>21, <1>22, <2>2, Zenon
<1>24. /\ ReadOpt(buf, MaxPassword) = Got(p, r1) /\ ReadStr(r1, MaxUrl) = Got(u, r2)
       /\ ReadOpt(r2, MaxNotes) = Got(n, r3) /\ ReadTotp(r3) = Got(t, r4)
       /\ ReadU64(r4) = Got(c, r5) /\ ReadU64(r5) = Got(m, r6) /\ ReadU32(r6) = Got(id, <<>>)
  BY <1>3, <1>4, <1>6, <1>7, <1>9, <1>10, <1>12, <1>13, <1>15, <1>16, <1>18, <1>19, <1>23, Zenon
<1> HIDE DEF password, url, notes, totp, created, modified, last
<1> DEFINE r == Record(p, u, n, t, c, m)
<1>25. Parse(buf) = Got(<<r, id>>, <<>>)
  BY <1>24, ParseGot
<1>26. r \in Items
  BY RecordIn
<1>27. Valid(r)
  BY <1>3, <1>6, <1>9, <1>12, Fit
<1>28. Serialize(r, id) = Cat(PushOpt(p), Cat(PushStr(u), Cat(PushOpt(n), Cat(PushTotp(t),
         Cat(Be64(c), Cat(Be64(m), Be32(id)))))))
  BY Written
<1> HIDE DEF r
<1>29. /\ buf = Cat(PushOpt(p), r1) /\ r1 = Cat(PushStr(u), r2) /\ r2 = Cat(PushOpt(n), r3)
       /\ r3 = Cat(PushTotp(t), r4) /\ r4 = Cat(Be64(c), r5) /\ r5 = Cat(Be64(m), r6)
  BY <1>3, <1>6, <1>9, <1>12, <1>15, <1>18, Zenon DEF Cat
<1>30. buf = Serialize(r, id)
  BY <1>23, <1>28, <1>29, Zenon
<1> QED
  BY <1>25, <1>26, <1>27, <1>30, Zenon

-----------------------------------------------------------------------------
(* The header *)

\* At position k of data comes suf, and nothing after it.
From(data, k, suf) ==
  suf \in Bytes /\ \E pre \in Bytes : Len(pre) = k /\ data = Cat(pre, suf)

LEMMA Lens ==
  ASSUME NEW a \in Bytes, NEW b \in Bytes
  PROVE  Len(Cat(a, b)) = Len(a) + Len(b) /\ Len(a) \in Nat /\ Len(b) \in Nat
  BY Joins DEF Cat

LEMMA Elements ==
  ASSUME NEW a \in Bytes, NEW b \in Bytes
  PROVE  /\ \A i \in 1 .. Len(a) : Cat(a, b)[i] = a[i]
         /\ \A i \in 1 .. Len(b) : Cat(a, b)[Len(a) + i] = b[i]
  BY ConcatProperties, LenProperties DEF Bytes, Cat

LEMMA SliceOf ==
  ASSUME NEW pre \in Bytes, NEW f \in Bytes, NEW suf \in Bytes
  PROVE  /\ SubSeq(Cat(pre, Cat(f, suf)), Len(pre) + 1, Len(pre) + Len(f)) = f
         /\ \A i \in 1 .. Len(f) : Cat(pre, Cat(f, suf))[Len(pre) + i] = f[i]
<1> DEFINE c == Cat(f, suf)
           d == Cat(pre, c)
<1>1. /\ c \in Bytes /\ Len(c) = Len(f) + Len(suf)
      /\ Len(f) \in Nat /\ Len(suf) \in Nat /\ Len(pre) \in Nat
      /\ \A i \in 1 .. Len(f) : c[i] = f[i]
  BY Cats, Lens, Elements
<1> HIDE DEF c
<1>2. /\ d \in Bytes /\ Len(d) = Len(pre) + Len(c)
      /\ \A i \in 1 .. Len(c) : d[Len(pre) + i] = c[i]
  BY <1>1, Cats, Lens, Elements
<1> HIDE DEF d
<1>3. \A i \in 1 .. Len(f) : d[Len(pre) + i] = f[i]
  BY <1>1, <1>2
<1>4. \A i \in (Len(pre) + 1) .. (Len(pre) + Len(f)) : d[i] \in Byte
  BY <1>1, <1>2, ElementOfSeq DEF Bytes
<1> DEFINE e == SubSeq(d, Len(pre) + 1, Len(pre) + Len(f))
<1>5. /\ e \in Bytes /\ Len(e) = Len(f)
      /\ \A i \in 1 .. Len(f) : e[i] = d[Len(pre) + i]
  BY <1>1, <1>4, SubSeqProperties DEF Bytes
<1> HIDE DEF e
<1>6. e = f
  BY <1>1, <1>3, <1>5, SeqEqual DEF Bytes
<1> QED
  BY <1>3, <1>6 DEF e, d, c

\* Field f is at data[k .. e], and suf comes after it.
Found(data, k, f, suf, e) ==
  Slice(data, k, e) = f /\ From(data, e, suf) /\ (Len(f) = 1 => data[e] = f[1])

LEMMA Step ==
  ASSUME NEW data, NEW k \in Nat, NEW f \in Bytes, NEW suf \in Bytes, NEW e \in Nat,
         e = k + Len(f), From(data, k, Cat(f, suf))
  PROVE  Found(data, k, f, suf, e)
<1>1. PICK pre \in Bytes : Len(pre) = k /\ data = Cat(pre, Cat(f, suf))
  BY DEF From
<1>2. Slice(data, k, e) = f
  <2>1. SubSeq(Cat(pre, Cat(f, suf)), Len(pre) + 1, Len(pre) + Len(f)) = f
    BY SliceOf
  <2> QED
    BY <1>1, <2>1, Zenon DEF Slice
<1>3. Len(f) = 1 => data[e] = f[1]
  <2>1. \A i \in 1 .. Len(f) : Cat(pre, Cat(f, suf))[Len(pre) + i] = f[i]
    BY SliceOf
  <2>2. \A i \in 1 .. Len(f) : data[k + i] = f[i]
    BY <1>1, <2>1, Zenon
  <2>3. Len(f) = 1 => 1 \in 1 .. Len(f)
    OBVIOUS
  <2> QED
    BY <2>2, <2>3, Zenon
<1>4. data = Cat(Cat(pre, f), suf)
  <2>1. Cat(Cat(pre, f), suf) = Cat(pre, Cat(f, suf))
    BY Regrouped
  <2> QED
    BY <1>1, <2>1, Zenon
<1>5. Cat(pre, f) \in Bytes /\ Len(Cat(pre, f)) = Len(pre) + Len(f)
  BY Cats, Lens
<1>6. Len(Cat(pre, f)) = e
  BY <1>1, <1>5, Zenon
<1> QED
  BY <1>2, <1>3, <1>4, <1>5, <1>6, Zenon DEF From, Found

LEMMA StepIn ==
  ASSUME NEW data, NEW k \in Nat, NEW f \in Bytes, NEW a \in Bytes, NEW z \in Bytes, NEW e \in Nat,
         e = k + Len(f), From(data, k, Cat(Cat(f, a), z))
  PROVE  Found(data, k, f, Cat(a, z), e)
<1>1. From(data, k, Cat(f, Cat(a, z))) /\ Cat(a, z) \in Bytes
  <2>1. Cat(Cat(f, a), z) = Cat(f, Cat(a, z))
    BY Regrouped
  <2> QED
    BY <2>1, Cats
<1> DEFINE suf == Cat(a, z)
<1>2. suf \in Bytes /\ From(data, k, Cat(f, suf))
  BY <1>1
<1> HIDE DEF suf
<1>3. Found(data, k, f, suf, e)
  BY <1>2, Step, Zenon
<1> QED
  BY <1>3 DEF suf

\* Where each field of a header of these parts is found.
LaidOut(data, magic, version, kdf, wrapAlg, itemAlg, reserved, m, t, p, salt, counter, nonce, dek, tag,
        pad) ==
  /\ Len(data) = 117
  /\ Slice(data, 0, 3) = magic /\ data[4] = version[1] /\ data[5] = kdf[1]
  /\ data[6] = wrapAlg[1] /\ data[7] = itemAlg[1] /\ Slice(data, 7, 10) = reserved
  /\ Slice(data, 10, 14) = m /\ Slice(data, 14, 18) = t /\ data[19] = p[1]
  /\ Slice(data, 19, 35) = salt /\ Slice(data, 35, 39) = counter /\ Slice(data, 39, 51) = nonce
  /\ Slice(data, 51, 83) = dek /\ Slice(data, 83, 99) = tag /\ Slice(data, 99, 117) = pad

LEMMA Layout ==
  ASSUME NEW magic \in Of(3), NEW version \in Of(1), NEW kdf \in Of(1), NEW wrapAlg \in Of(1),
         NEW itemAlg \in Of(1), NEW reserved \in Of(3), NEW m \in Of(4), NEW t \in
         Of(4), NEW p \in Of(1), NEW salt \in Of(16), NEW counter \in Of(4), NEW nonce
         \in Of(12), NEW dek \in Of(32), NEW tag \in Of(16), NEW pad \in Of(18),
         NEW data, From(data, 0, Cat(magic, Cat(version, Cat(Cat(kdf, Cat(wrapAlg, Cat(itemAlg,
           Cat(reserved, Cat(m, Cat(t, Cat(p, Cat(salt, Cat(counter, nonce))))))))),
           Cat(dek, Cat(tag, pad))))))
  PROVE  LaidOut(data, magic, version, kdf, wrapAlg, itemAlg, reserved, m, t, p, salt,
                 counter, nonce, dek, tag, pad)
<1> DEFINE a8 == Cat(counter, nonce)
           a7 == Cat(salt, a8)
           a6 == Cat(p, a7)
           a5 == Cat(t, a6)
           a4 == Cat(m, a5)
           a3 == Cat(reserved, a4)
           a2 == Cat(itemAlg, a3)
           a1 == Cat(wrapAlg, a2)
           a0 == Cat(kdf, a1)
           z1 == Cat(tag, pad)
           z  == Cat(dek, z1)
           s1 == Cat(a0, z)
           s0 == Cat(version, s1)
<1>1. /\ magic \in Bytes /\ Len(magic) = 3 /\ version \in Bytes /\ Len(version) = 1 /\ kdf \in Bytes /\ Len(kdf) = 1
      /\ wrapAlg \in Bytes /\ Len(wrapAlg) = 1 /\ itemAlg \in Bytes /\ Len(itemAlg) = 1 /\ reserved \in Bytes /\ Len(reserved) = 3
      /\ m \in Bytes /\ Len(m) = 4 /\ t \in Bytes /\ Len(t) = 4 /\ p \in Bytes /\ Len(p) = 1
      /\ salt \in Bytes /\ Len(salt) = 16 /\ counter \in Bytes /\ Len(counter) = 4 /\ nonce \in Bytes /\ Len(nonce) = 12
      /\ dek \in Bytes /\ Len(dek) = 32 /\ tag \in Bytes /\ Len(tag) = 16 /\ pad \in Bytes /\ Len(pad) = 18
  BY DEF Of
<1>2. a8 \in Bytes /\ a7 \in Bytes /\ a6 \in Bytes /\ a5 \in Bytes /\ a4 \in Bytes
  BY <1>1, Cats
<1>3. a3 \in Bytes /\ a2 \in Bytes /\ a1 \in Bytes /\ a0 \in Bytes
  BY <1>1, <1>2, Cats
<1>4. z1 \in Bytes /\ z \in Bytes /\ s1 \in Bytes /\ s0 \in Bytes
  BY <1>1, <1>3, Cats
<1>5. From(data, 0, Cat(magic, s0))
  OBVIOUS
<1> HIDE DEF a8, a7, a6, a5, a4, a3, a2, a1, a0, z1, z, s1, s0
<1>6. Slice(data, 0, 3) = magic /\ From(data, 3, s0)
  <2>1. 0 \in Nat /\ 3 \in Nat /\ 3 = 0 + Len(magic)
    BY <1>1
  <2>2. From(data, 0, Cat(magic, s0))
    BY <1>5
  <2>3. magic \in Bytes /\ Len(magic) = 3 /\ s0 \in Bytes
    BY <1>1, <1>2, <1>3, <1>4
  <2>4. Found(data, 0, magic, s0, 3)
    BY <2>1, <2>2, <2>3, Step, Zenon
  <2> QED
    BY <2>3, <2>4 DEF Found
<1>7. data[4] = version[1] /\ From(data, 4, Cat(a0, z))
  <2>1. 3 \in Nat /\ 4 \in Nat /\ 4 = 3 + Len(version)
    BY <1>1
  <2>2. From(data, 3, Cat(version, Cat(a0, z)))
    BY <1>6 DEF s0, s1
  <2>3. version \in Bytes /\ Len(version) = 1 /\ Cat(a0, z) \in Bytes
    BY <1>1, <1>2, <1>3, <1>4 DEF s1
  <2>4. Found(data, 3, version, Cat(a0, z), 4)
    BY <2>1, <2>2, <2>3, Step, Zenon
  <2> QED
    BY <2>3, <2>4 DEF Found
<1>8. data[5] = kdf[1] /\ From(data, 5, Cat(a1, z))
  <2>1. 4 \in Nat /\ 5 \in Nat /\ 5 = 4 + Len(kdf)
    BY <1>1
  <2>2. From(data, 4, Cat(Cat(kdf, a1), z))
    BY <1>7 DEF a0
  <2>3. kdf \in Bytes /\ Len(kdf) = 1 /\ a1 \in Bytes /\ z \in Bytes
    BY <1>1, <1>2, <1>3, <1>4
  <2>4. Found(data, 4, kdf, Cat(a1, z), 5)
    BY <2>1, <2>2, <2>3, StepIn, Zenon
  <2> QED
    BY <2>3, <2>4 DEF Found
<1>9. data[6] = wrapAlg[1] /\ From(data, 6, Cat(a2, z))
  <2>1. 5 \in Nat /\ 6 \in Nat /\ 6 = 5 + Len(wrapAlg)
    BY <1>1
  <2>2. From(data, 5, Cat(Cat(wrapAlg, a2), z))
    BY <1>8 DEF a1
  <2>3. wrapAlg \in Bytes /\ Len(wrapAlg) = 1 /\ a2 \in Bytes /\ z \in Bytes
    BY <1>1, <1>2, <1>3, <1>4
  <2>4. Found(data, 5, wrapAlg, Cat(a2, z), 6)
    BY <2>1, <2>2, <2>3, StepIn, Zenon
  <2> QED
    BY <2>3, <2>4 DEF Found
<1>10. data[7] = itemAlg[1] /\ From(data, 7, Cat(a3, z))
  <2>1. 6 \in Nat /\ 7 \in Nat /\ 7 = 6 + Len(itemAlg)
    BY <1>1
  <2>2. From(data, 6, Cat(Cat(itemAlg, a3), z))
    BY <1>9 DEF a2
  <2>3. itemAlg \in Bytes /\ Len(itemAlg) = 1 /\ a3 \in Bytes /\ z \in Bytes
    BY <1>1, <1>2, <1>3, <1>4
  <2>4. Found(data, 6, itemAlg, Cat(a3, z), 7)
    BY <2>1, <2>2, <2>3, StepIn, Zenon
  <2> QED
    BY <2>3, <2>4 DEF Found
<1>11. Slice(data, 7, 10) = reserved /\ From(data, 10, Cat(a4, z))
  <2>1. 7 \in Nat /\ 10 \in Nat /\ 10 = 7 + Len(reserved)
    BY <1>1
  <2>2. From(data, 7, Cat(Cat(reserved, a4), z))
    BY <1>10 DEF a3
  <2>3. reserved \in Bytes /\ Len(reserved) = 3 /\ a4 \in Bytes /\ z \in Bytes
    BY <1>1, <1>2, <1>3, <1>4
  <2>4. Found(data, 7, reserved, Cat(a4, z), 10)
    BY <2>1, <2>2, <2>3, StepIn, Zenon
  <2> QED
    BY <2>3, <2>4 DEF Found
<1>12. Slice(data, 10, 14) = m /\ From(data, 14, Cat(a5, z))
  <2>1. 10 \in Nat /\ 14 \in Nat /\ 14 = 10 + Len(m)
    BY <1>1
  <2>2. From(data, 10, Cat(Cat(m, a5), z))
    BY <1>11 DEF a4
  <2>3. m \in Bytes /\ Len(m) = 4 /\ a5 \in Bytes /\ z \in Bytes
    BY <1>1, <1>2, <1>3, <1>4
  <2>4. Found(data, 10, m, Cat(a5, z), 14)
    BY <2>1, <2>2, <2>3, StepIn, Zenon
  <2> QED
    BY <2>3, <2>4 DEF Found
<1>13. Slice(data, 14, 18) = t /\ From(data, 18, Cat(a6, z))
  <2>1. 14 \in Nat /\ 18 \in Nat /\ 18 = 14 + Len(t)
    BY <1>1
  <2>2. From(data, 14, Cat(Cat(t, a6), z))
    BY <1>12 DEF a5
  <2>3. t \in Bytes /\ Len(t) = 4 /\ a6 \in Bytes /\ z \in Bytes
    BY <1>1, <1>2, <1>3, <1>4
  <2>4. Found(data, 14, t, Cat(a6, z), 18)
    BY <2>1, <2>2, <2>3, StepIn, Zenon
  <2> QED
    BY <2>3, <2>4 DEF Found
<1>14. data[19] = p[1] /\ From(data, 19, Cat(a7, z))
  <2>1. 18 \in Nat /\ 19 \in Nat /\ 19 = 18 + Len(p)
    BY <1>1
  <2>2. From(data, 18, Cat(Cat(p, a7), z))
    BY <1>13 DEF a6
  <2>3. p \in Bytes /\ Len(p) = 1 /\ a7 \in Bytes /\ z \in Bytes
    BY <1>1, <1>2, <1>3, <1>4
  <2>4. Found(data, 18, p, Cat(a7, z), 19)
    BY <2>1, <2>2, <2>3, StepIn, Zenon
  <2> QED
    BY <2>3, <2>4 DEF Found
<1>15. Slice(data, 19, 35) = salt /\ From(data, 35, Cat(a8, z))
  <2>1. 19 \in Nat /\ 35 \in Nat /\ 35 = 19 + Len(salt)
    BY <1>1
  <2>2. From(data, 19, Cat(Cat(salt, a8), z))
    BY <1>14 DEF a7
  <2>3. salt \in Bytes /\ Len(salt) = 16 /\ a8 \in Bytes /\ z \in Bytes
    BY <1>1, <1>2, <1>3, <1>4
  <2>4. Found(data, 19, salt, Cat(a8, z), 35)
    BY <2>1, <2>2, <2>3, StepIn, Zenon
  <2> QED
    BY <2>3, <2>4 DEF Found
<1>16. Slice(data, 35, 39) = counter /\ From(data, 39, Cat(nonce, z))
  <2>1. 35 \in Nat /\ 39 \in Nat /\ 39 = 35 + Len(counter)
    BY <1>1
  <2>2. From(data, 35, Cat(Cat(counter, nonce), z))
    BY <1>15 DEF a8
  <2>3. counter \in Bytes /\ Len(counter) = 4 /\ nonce \in Bytes /\ z \in Bytes
    BY <1>1, <1>2, <1>3, <1>4
  <2>4. Found(data, 35, counter, Cat(nonce, z), 39)
    BY <2>1, <2>2, <2>3, StepIn, Zenon
  <2> QED
    BY <2>3, <2>4 DEF Found
<1>17. Slice(data, 39, 51) = nonce /\ From(data, 51, Cat(dek, z1))
  <2>1. 39 \in Nat /\ 51 \in Nat /\ 51 = 39 + Len(nonce)
    BY <1>1
  <2>2. From(data, 39, Cat(nonce, Cat(dek, z1)))
    BY <1>16 DEF z
  <2>3. nonce \in Bytes /\ Len(nonce) = 12 /\ Cat(dek, z1) \in Bytes
    BY <1>1, <1>2, <1>3, <1>4 DEF z
  <2>4. Found(data, 39, nonce, Cat(dek, z1), 51)
    BY <2>1, <2>2, <2>3, Step, Zenon
  <2> QED
    BY <2>3, <2>4 DEF Found
<1>18. Slice(data, 51, 83) = dek /\ From(data, 83, Cat(tag, pad))
  <2>1. 51 \in Nat /\ 83 \in Nat /\ 83 = 51 + Len(dek)
    BY <1>1
  <2>2. From(data, 51, Cat(dek, Cat(tag, pad)))
    BY <1>17 DEF z1
  <2>3. dek \in Bytes /\ Len(dek) = 32 /\ Cat(tag, pad) \in Bytes
    BY <1>1, <1>2, <1>3, <1>4 DEF z1
  <2>4. Found(data, 51, dek, Cat(tag, pad), 83)
    BY <2>1, <2>2, <2>3, Step, ZenonT(40)
  <2> QED
    BY <2>3, <2>4 DEF Found
<1>19. Slice(data, 83, 99) = tag /\ From(data, 99, pad)
  <2>1. 83 \in Nat /\ 99 \in Nat /\ 99 = 83 + Len(tag)
    BY <1>1
  <2>2. From(data, 83, Cat(tag, pad))
    BY <1>18
  <2>3. tag \in Bytes /\ Len(tag) = 16 /\ pad \in Bytes
    BY <1>1, <1>2, <1>3, <1>4
  <2>4. Found(data, 83, tag, pad, 99)
    BY <2>1, <2>2, <2>3, Step, ZenonT(40)
  <2> QED
    BY <2>3, <2>4 DEF Found
<1>20. Slice(data, 99, 117) = pad /\ Len(data) = 117
  <2>1. <<>> \in Bytes /\ Cat(pad, <<>>) = pad
    BY <1>1, ConcatEmptySeq DEF Cat, Bytes
  <2>2. From(data, 99, Cat(pad, <<>>))
    BY <1>19, <2>1, Zenon
  <2>3. 99 \in Nat /\ 117 \in Nat /\ 117 = 99 + Len(pad) /\ pad \in Bytes
    BY <1>1
  <2>4. Found(data, 99, pad, <<>>, 117)
    BY <2>1, <2>2, <2>3, Step, Zenon
  <2>5. Slice(data, 99, 117) = pad
    BY <2>4 DEF Found
  <2>6. PICK pre \in Bytes : Len(pre) = 99 /\ data = Cat(pre, pad)
    BY <1>19 DEF From
  <2>7. Len(Cat(pre, pad)) = Len(pre) + Len(pad) /\ Len(pad) = 18
    BY <1>1, Lens
  <2>8. Len(data) = 99 + 18
    BY <2>6, <2>7, Zenon
  <2> QED
    BY <2>5, <2>8
<1> QED
  BY <1>6, <1>7, <1>8, <1>9, <1>10, <1>11, <1>12, <1>13, <1>14, <1>15, <1>16, <1>17, <1>18, <1>19, <1>20 DEF LaidOut

Header(ve, kd, wa, it, re, mm, tt, pp, sa, ct, no, de, ta, pa) ==
  [version |-> ve, kdf_id |-> kd, wrap_alg_id |-> wa, item_alg_id |-> it, reserved |-> re,
   argon2_m_mib |-> mm, argon2_t |-> tt, argon2_p |-> pp, kdf_salt |-> sa, enc_counter |-> ct,
   wrap_nonce |-> no, wrapped_dek |-> de, wrap_tag |-> ta, future_pad |-> pa]

LEMMA HeaderOf ==
  ASSUME NEW h \in Headers
  PROVE  h = Header(h.version, h.kdf_id, h.wrap_alg_id, h.item_alg_id, h.reserved, h.argon2_m_mib,
                    h.argon2_t, h.argon2_p, h.kdf_salt, h.enc_counter, h.wrap_nonce, h.wrapped_dek,
                    h.wrap_tag, h.future_pad)
  BY DEF Headers, Header

LEMMA FrontSlice ==
  ASSUME NEW data \in Bytes, NEW x \in Bytes, NEW a \in Nat, NEW b \in Nat, a <= b, b <= Len(data)
  PROVE  Slice(Cat(data, x), a, b) = Slice(data, a, b)
<1> DEFINE d == Cat(data, x)
<1>1. /\ d \in Bytes /\ Len(data) \in Nat /\ b <= Len(d) /\ Len(d) \in Nat
      /\ \A i \in 1 .. Len(data) : d[i] = data[i]
  <2>1. Len(d) = Len(data) + Len(x) /\ Len(data) \in Nat /\ Len(x) \in Nat
    BY Lens
  <2> QED
    BY <2>1, Cats, Elements
<1> HIDE DEF d
<1>2. /\ \A i \in (a + 1) .. b : d[i] \in Byte
      /\ \A i \in (a + 1) .. b : data[i] \in Byte
  BY <1>1, ElementOfSeq DEF Bytes
<1>3. /\ SubSeq(d, a + 1, b) \in Bytes /\ Len(SubSeq(d, a + 1, b)) = b - a
      /\ \A i \in 1 .. (b - a) : SubSeq(d, a + 1, b)[i] = d[a + i]
  BY <1>1, <1>2, SubSeqProperties DEF Bytes
<1>4. /\ SubSeq(data, a + 1, b) \in Bytes /\ Len(SubSeq(data, a + 1, b)) = b - a
      /\ \A i \in 1 .. (b - a) : SubSeq(data, a + 1, b)[i] = data[a + i]
  BY <1>1, <1>2, SubSeqProperties DEF Bytes
<1>5. \A i \in 1 .. (b - a) : d[a + i] = data[a + i]
  BY <1>1
<1>6. SubSeq(d, a + 1, b) = SubSeq(data, a + 1, b)
  BY <1>3, <1>4, <1>5, SeqEqual DEF Bytes
<1> QED
  BY <1>6 DEF Slice, d

\* Nothing is read past the header.
LEMMA HeaderFront ==
  ASSUME NEW data \in Of(HeaderLen), NEW x \in Bytes, NEW v
  PROVE  ParseHeader(Cat(data, x), v) = ParseHeader(data, v)
<1> DEFINE d == Cat(data, x)
<1>1. data \in Bytes /\ Len(data) = 117 /\ Len(d) \in Nat /\ 117 <= Len(d)
  <2>1. data \in Bytes /\ Len(data) = 117
    BY DEF Of, HeaderLen
  <2>2. Len(d) = Len(data) + Len(x) /\ Len(x) \in Nat
    BY <2>1, Lens
  <2> QED
    BY <2>1, <2>2
<1>2. d[4] = data[4] /\ d[5] = data[5] /\ d[6] = data[6] /\ d[7] = data[7] /\ d[19] = data[19]
  <2>1. \A i \in 1 .. Len(data) : d[i] = data[i]
    <3>1. data \in Bytes
      BY <1>1
    <3> QED
      BY <3>1, Elements
  <2> QED
    BY <1>1, <2>1
<1>3. /\ Slice(d, 0, 3) = Slice(data, 0, 3) /\ Slice(d, 7, 10) = Slice(data, 7, 10)
      /\ Slice(d, 10, 14) = Slice(data, 10, 14) /\ Slice(d, 14, 18) = Slice(data, 14, 18)
      /\ Slice(d, 19, 35) = Slice(data, 19, 35) /\ Slice(d, 35, 39) = Slice(data, 35, 39)
      /\ Slice(d, 39, 51) = Slice(data, 39, 51) /\ Slice(d, 51, 83) = Slice(data, 51, 83)
      /\ Slice(d, 83, 99) = Slice(data, 83, 99) /\ Slice(d, 99, 117) = Slice(data, 99, 117)
  <2>1. \A a \in Nat : \A b \in Nat : a <= b /\ b <= 117 => Slice(d, a, b) = Slice(data, a, b)
    BY <1>1, FrontSlice
  <2> HIDE DEF d
  <2> QED
    BY <2>1
<1>4. ~(Len(data) < HeaderLen) /\ ~(Len(d) < HeaderLen)
  BY <1>1 DEF HeaderLen
<1> HIDE DEF d
<1>5. ParseHeader(d, v) = ParseHeader(data, v)
  BY <1>2, <1>3, <1>4 DEF ParseHeader
<1> QED
  BY <1>5 DEF d

(***************************************************************************)
(* The header build_header writes is read back by parse_header as the same *)
(* header, whatever the file goes on with.                                 *)
(***************************************************************************)
THEOREM HeaderRoundTrip ==
  ASSUME NEW h \in Headers, h.future_pad = NoPad
  PROVE  /\ BuildHeader(h) \in Of(HeaderLen)
         /\ ParseHeader(BuildHeader(h), h.version) = Got(h, <<>>)
         /\ \A x \in Bytes : ParseHeader(BuildHeader(h) \o x, h.version) = Got(h, <<>>)
<1> DEFINE magic    == Magic
           version  == <<h.version>>
           kdf      == <<h.kdf_id>>
           wrapAlg  == <<h.wrap_alg_id>>
           itemAlg  == <<h.item_alg_id>>
           reserved == h.reserved
           m        == Be32(h.argon2_m_mib)
           t        == Be32(h.argon2_t)
           p        == <<h.argon2_p>>
           salt     == h.kdf_salt
           counter  == Be32(h.enc_counter)
           nonce    == h.wrap_nonce
           dek      == h.wrapped_dek
           tag      == h.wrap_tag
           pad      == h.future_pad
           data     == BuildHeader(h)
<1>1. /\ h.version \in Byte /\ h.kdf_id \in Byte /\ h.wrap_alg_id \in Byte /\ h.item_alg_id \in Byte
      /\ reserved \in Of(3) /\ h.argon2_m_mib \in U32 /\ h.argon2_t \in U32 /\ h.argon2_p \in Byte
      /\ salt \in Of(16) /\ h.enc_counter \in U32 /\ nonce \in Of(12) /\ dek \in Of(32)
      /\ tag \in Of(16) /\ pad \in Of(18)
  BY DEF Headers
<1>2. magic \in Of(3)
  BY DEF Magic, Of, Bytes, Byte, Below
<1>3. version \in Of(1) /\ kdf \in Of(1) /\ wrapAlg \in Of(1) /\ itemAlg \in Of(1) /\ p \in Of(1)
  BY <1>1, OneByte DEF Of
<1>4. m \in Of(4) /\ t \in Of(4) /\ counter \in Of(4)
  BY <1>1, Number32 DEF Of
<1>5. data = Cat(magic, Cat(version, Cat(Cat(kdf, Cat(wrapAlg, Cat(itemAlg, Cat(reserved, Cat(m,
                Cat(t, Cat(p, Cat(salt, Cat(counter, nonce))))))))), Cat(dek, Cat(tag, pad)))))
  BY Zenon DEF BuildHeader, HeaderAad, Cat
<1>6. /\ version[1] = h.version /\ kdf[1] = h.kdf_id /\ wrapAlg[1] = h.wrap_alg_id
      /\ itemAlg[1] = h.item_alg_id /\ p[1] = h.argon2_p
      /\ Un32(m) = h.argon2_m_mib /\ Un32(t) = h.argon2_t /\ Un32(counter) = h.enc_counter
  BY <1>1, OneByte, Number32
<1> HIDE DEF magic, version, kdf, wrapAlg, itemAlg, reserved, m, t, p, salt, counter, nonce,
             dek, tag, pad, data
<1>7. data \in Bytes
  <2>1. /\ magic \in Bytes /\ version \in Bytes /\ kdf \in Bytes /\ wrapAlg \in Bytes /\ itemAlg \in Bytes
        /\ reserved \in Bytes /\ m \in Bytes /\ t \in Bytes /\ p \in Bytes /\ salt \in Bytes
        /\ counter \in Bytes /\ nonce \in Bytes /\ dek \in Bytes /\ tag \in Bytes /\ pad \in Bytes
    BY <1>1, <1>2, <1>3, <1>4 DEF Of
  <2> DEFINE a == Cat(t, Cat(p, Cat(salt, Cat(counter, nonce))))
             b == Cat(kdf, Cat(wrapAlg, Cat(itemAlg, Cat(reserved, Cat(m, a)))))
             z == Cat(dek, Cat(tag, pad))
  <2>2. a \in Bytes /\ z \in Bytes
    BY <2>1, Cats
  <2>3. data = Cat(magic, Cat(version, Cat(b, z)))
    BY <1>5
  <2> HIDE DEF a, z
  <2>4. b \in Bytes
    BY <2>1, <2>2, Cats
  <2> HIDE DEF b
  <2> QED
    BY <2>1, <2>2, <2>3, <2>4, Cats
<1>8. From(data, 0, data)
  <2>1. <<>> \in Bytes /\ Len(<<>>) = 0
    BY DEF Bytes
  <2>2. Cat(<<>>, data) = data
    BY <1>7, ConcatEmptySeq DEF Cat, Bytes
  <2> QED
    BY <1>7, <2>1, <2>2 DEF From
<1>9. From(data, 0, Cat(magic, Cat(version, Cat(Cat(kdf, Cat(wrapAlg, Cat(itemAlg, Cat(reserved, Cat(m,
                Cat(t, Cat(p, Cat(salt, Cat(counter, nonce))))))))), Cat(dek, Cat(tag, pad))))))
  BY <1>5, <1>8, Zenon
<1>10. /\ Len(data) = 117
       /\ Slice(data, 0, 3) = magic /\ data[4] = version[1] /\ data[5] = kdf[1]
       /\ data[6] = wrapAlg[1] /\ data[7] = itemAlg[1] /\ Slice(data, 7, 10) = reserved
       /\ Slice(data, 10, 14) = m /\ Slice(data, 14, 18) = t /\ data[19] = p[1]
       /\ Slice(data, 19, 35) = salt /\ Slice(data, 35, 39) = counter /\ Slice(data, 39, 51) = nonce
       /\ Slice(data, 51, 83) = dek /\ Slice(data, 83, 99) = tag /\ Slice(data, 99, 117) = pad
  <2>1. LaidOut(data, magic, version, kdf, wrapAlg, itemAlg, reserved, m, t, p, salt, counter, nonce,
                dek, tag, pad)
    BY <1>1, <1>2, <1>3, <1>4, <1>9, Layout
  <2> QED
    BY <2>1 DEF LaidOut
<1>11. pad = NoPad /\ magic = Magic
  BY DEF pad, magic
<1>12. ParseHeader(data, h.version) =
         Got(Header(h.version, h.kdf_id, h.wrap_alg_id, h.item_alg_id, reserved, h.argon2_m_mib,
                    h.argon2_t, h.argon2_p, salt, h.enc_counter, nonce, dek, tag, pad), <<>>)
  BY <1>6, <1>10, <1>11 DEF ParseHeader, HeaderLen, Header
<1>13. h = Header(h.version, h.kdf_id, h.wrap_alg_id, h.item_alg_id, reserved, h.argon2_m_mib,
                  h.argon2_t, h.argon2_p, salt, h.enc_counter, nonce, dek, tag, pad)
  BY HeaderOf DEF reserved, salt, nonce, dek, tag, pad
<1>14. data \in Of(HeaderLen)
  BY <1>7, <1>10 DEF Of, HeaderLen
<1>15. ParseHeader(data, h.version) = Got(h, <<>>)
  BY <1>12, <1>13
<1>16. \A x \in Bytes : ParseHeader(data \o x, h.version) = Got(h, <<>>)
  BY <1>14, <1>15, HeaderFront DEF Cat
<1> QED
  BY <1>14, <1>15, <1>16 DEF data

LEMMA SliceIn ==
  ASSUME NEW data \in Bytes, NEW a \in Nat, NEW b \in Nat, a <= b, b <= Len(data)
  PROVE  /\ Slice(data, a, b) \in Bytes /\ Len(Slice(data, a, b)) = b - a
         /\ \A i \in 1 .. b - a : Slice(data, a, b)[i] = data[a + i]
<1>1. Len(data) \in Nat /\ \A i \in 1 .. Len(data) : data[i] \in Byte
  BY LenProperties, ElementOfSeq DEF Bytes
<1>2. \A i \in (a + 1) .. b : data[i] \in Byte
  BY <1>1
<1> DEFINE s == Slice(data, a, b)
<1>3. /\ s \in Bytes
      /\ Len(s) = IF a + 1 <= b THEN b - (a + 1) + 1 ELSE 0
      /\ \A i \in 1 .. b - (a + 1) + 1 : s[i] = data[a + 1 + i - 1]
  BY <1>1, <1>2, SubSeqProperties DEF Bytes, Slice
<1> HIDE DEF s
<1>4. (IF a + 1 <= b THEN b - (a + 1) + 1 ELSE 0) = b - a /\ b - (a + 1) + 1 = b - a
  OBVIOUS
<1>5. /\ s \in Bytes /\ Len(s) = b - a
      /\ \A i \in 1 .. b - a : s[i] = data[a + 1 + i - 1]
  <2>1. Len(s) = b - a
    BY <1>3, <1>4, Zenon
  <2>2. \A i \in 1 .. b - a : s[i] = data[a + 1 + i - 1]
    BY <1>3, <1>4, Zenon
  <2> QED
    BY <1>3, <2>1, <2>2
<1>6. \A i \in 1 .. b - a : a + 1 + i - 1 = a + i
  OBVIOUS
<1>7. \A i \in 1 .. b - a : s[i] = data[a + i]
  BY <1>5, <1>6
<1> QED
  BY <1>5, <1>7 DEF s

LEMMA SliceOfLen ==
  ASSUME NEW data \in Bytes, NEW a \in Nat, NEW b \in Nat, NEW n \in Nat, b = a + n, b <= Len(data)
  PROVE  Slice(data, a, b) \in Of(n)
<1>1. a <= b /\ b - a = n
  OBVIOUS
<1>2. Slice(data, a, b) \in Bytes /\ Len(Slice(data, a, b)) = b - a
  BY <1>1, SliceIn
<1> QED
  BY <1>1, <1>2 DEF Of

LEMMA OneSlice ==
  ASSUME NEW data \in Bytes, NEW a \in Nat, NEW b \in Nat, b = a + 1, b <= Len(data)
  PROVE  Slice(data, a, b) = <<data[b]>>
<1> DEFINE s == Slice(data, a, b)
<1>1. s \in Bytes /\ Len(s) = 1
  BY SliceOfLen DEF Of
<1>2. s[1] = data[b]
  <2>1. \A i \in 1 .. b - a : s[i] = data[a + i]
    BY SliceIn
  <2>2. 1 \in 1 .. b - a
    OBVIOUS
  <2>3. s[1] = data[a + 1]
    BY <2>1, <2>2, Zenon
  <2> QED
    BY <2>3, Zenon
<1> HIDE DEF s
<1>3. s = <<data[b]>>
  BY <1>1, <1>2, OneOf
<1> QED
  BY <1>3 DEF s

LEMMA Glue ==
  ASSUME NEW data \in Bytes, NEW a \in Nat, NEW b \in Nat, NEW e \in Nat,
         a <= b, b <= e, e <= Len(data)
  PROVE  Cat(Slice(data, a, b), Slice(data, b, e)) = Slice(data, a, e)
<1>1. Len(data) \in Nat
  BY LenProperties DEF Bytes
<1>2. a + 1 \in 1 .. Len(data) + 1 /\ b \in (a + 1 - 1) .. Len(data) /\ e \in b .. Len(data)
  BY <1>1
<1> QED
  BY <1>2, ConcatAdjacentSubSeq DEF Cat, Slice, Bytes

(***************************************************************************)
(* What header_aad computes from a header the reader has parsed is bytes 4 *)
(* to 50 of the file itself: the tag over the wrapped key is checked       *)
(* against all that was read, not against a re-encoding that could differ. *)
(***************************************************************************)
THEOREM AadIsTheFile ==
  ASSUME NEW data \in Bytes, NEW expected, ParseHeader(data, expected).ok
  PROVE  HeaderAad(ParseHeader(data, expected).val) = Slice(data, 4, 51)
<1>1. Len(data) \in Nat /\ 117 <= Len(data)
  <2>1. ~(Len(data) < HeaderLen)
    <3>1. ASSUME Len(data) < HeaderLen PROVE ParseHeader(data, expected) = Fail
      BY <3>1, Zenon DEF ParseHeader
    <3> QED
      BY <3>1, Parts
  <2>2. Len(data) \in Nat
    BY LenProperties DEF Bytes
  <2> QED
    BY <2>1, <2>2 DEF HeaderLen
<1>2. ParseHeader(data, expected).val =
        Header(data[4], data[5], data[6], data[7], Slice(data, 7, 10), Un32(Slice(data, 10, 14)),
               Un32(Slice(data, 14, 18)), data[19], Slice(data, 19, 35), Un32(Slice(data, 35, 39)),
               Slice(data, 39, 51), Slice(data, 51, 83), Slice(data, 83, 99), Slice(data, 99, 117))
  BY Parts DEF ParseHeader, Header
<1> DEFINE S(a, b) == Slice(data, a, b)
<1>3. /\ <<data[5]>> = S(4, 5) /\ <<data[6]>> = S(5, 6) /\ <<data[7]>> = S(6, 7)
      /\ <<data[19]>> = S(18, 19)
  BY <1>1, OneSlice
<1>4. /\ S(10, 14) \in Bytes /\ Len(S(10, 14)) = 4 /\ S(14, 18) \in Bytes /\ Len(S(14, 18)) = 4
      /\ S(35, 39) \in Bytes /\ Len(S(35, 39)) = 4
  <2>1. S(10, 14) \in Of(4)
    BY <1>1, SliceOfLen
  <2>2. S(14, 18) \in Of(4)
    BY <1>1, SliceOfLen
  <2>3. S(35, 39) \in Of(4)
    BY <1>1, SliceOfLen
  <2> QED
    BY <2>1, <2>2, <2>3 DEF Of
<1> HIDE DEF S
<1>5. /\ Be32(Un32(S(10, 14))) = S(10, 14) /\ Be32(Un32(S(14, 18))) = S(14, 18)
      /\ Be32(Un32(S(35, 39))) = S(35, 39)
  BY <1>4, Written32
<1>6. \A a, b, e \in Nat : a <= b /\ b <= e /\ e <= 117 => Cat(S(a, b), S(b, e)) = S(a, e)
  BY <1>1, Glue DEF S
<1>7. HeaderAad(ParseHeader(data, expected).val) =
        Cat(S(4, 5), Cat(S(5, 6), Cat(S(6, 7), Cat(S(7, 10), Cat(S(10, 14), Cat(S(14, 18),
          Cat(S(18, 19), Cat(S(19, 35), Cat(S(35, 39), S(39, 51))))))))))
  <2> DEFINE h == ParseHeader(data, expected).val
  <2>1. /\ h.kdf_id = data[5] /\ h.wrap_alg_id = data[6] /\ h.item_alg_id = data[7]
        /\ h.reserved = S(7, 10) /\ h.argon2_m_mib = Un32(S(10, 14)) /\ h.argon2_t = Un32(S(14, 18))
        /\ h.argon2_p = data[19] /\ h.kdf_salt = S(19, 35) /\ h.enc_counter = Un32(S(35, 39))
        /\ h.wrap_nonce = S(39, 51)
    BY <1>2 DEF Header, S
  <2> HIDE DEF h
  <2>2. HeaderAad(h) = Cat(<<h.kdf_id>>, Cat(<<h.wrap_alg_id>>, Cat(<<h.item_alg_id>>,
          Cat(h.reserved, Cat(Be32(h.argon2_m_mib), Cat(Be32(h.argon2_t), Cat(<<h.argon2_p>>,
          Cat(h.kdf_salt, Cat(Be32(h.enc_counter), h.wrap_nonce)))))))))
    BY Zenon DEF HeaderAad, Cat
  <2> QED
    BY <1>3, <1>5, <2>1, <2>2 DEF h
<1>8. Cat(S(35, 39), S(39, 51)) = S(35, 51) /\ Cat(S(19, 35), S(35, 51)) = S(19, 51)
      /\ Cat(S(18, 19), S(19, 51)) = S(18, 51) /\ Cat(S(14, 18), S(18, 51)) = S(14, 51)
  BY <1>6
<1>9. Cat(S(10, 14), S(14, 51)) = S(10, 51) /\ Cat(S(7, 10), S(10, 51)) = S(7, 51)
      /\ Cat(S(6, 7), S(7, 51)) = S(6, 51) /\ Cat(S(5, 6), S(6, 51)) = S(5, 51)
      /\ Cat(S(4, 5), S(5, 51)) = S(4, 51)
  BY <1>6
<1> QED
  BY <1>7, <1>8, <1>9 DEF S

-----------------------------------------------------------------------------
(* Induction.  The library's theorems take a predicate; here it is the set *)
(* of the numbers that satisfy it.                                         *)

\* A set that has 0 and the successor of each of its numbers has them all.
LEMMA Inductive ==
  ASSUME NEW T, 0 \in T, \A n \in Nat : n \in T => n + 1 \in T
  PROVE  Nat \subseteq T
<1> DEFINE R == {ss \in Nat \X Nat : ss[1] < ss[2]}
           S == Nat \ T
<1>1. IsWellFoundedOn(R, Nat)
  BY NatLessThanWellFounded DEF OpToRel
<1>2. SUFFICES ASSUME S # {} PROVE FALSE
  OBVIOUS
<1>3. PICK x \in S : \A y \in S : ~(<<y, x>> \in R)
  <2> HIDE DEF R
  <2>1. S \subseteq Nat
    OBVIOUS
  <2> HIDE DEF S
  <2> QED
    BY <1>1, <1>2, <2>1, WFMin
<1>4. x \in Nat /\ x # 0 /\ x - 1 \in Nat /\ <<x - 1, x>> \in R
  OBVIOUS
<1>5. x - 1 \in T
  BY <1>3, <1>4
<1> QED
  BY <1>4, <1>5

\* f[i] is what a loop has after i turns: z before the first, G[i] takes turn i.
IsLoop(f, S, n, z, G) ==
  /\ f \in [0 .. n -> S]
  /\ f[0] = z
  /\ \A i \in 1 .. n : f[i] = G[i][f[i - 1]]

\* A loop has such values, whatever its turns are.
LEMMA LoopExists ==
  ASSUME NEW S, NEW n \in Nat, NEW z \in S, NEW G \in [1 .. n -> [S -> S]]
  PROVE  \E f : IsLoop(f, S, n, z, G)
<1> DEFINE T == {m \in Nat : m <= n => \E f : IsLoop(f, S, m, z, G)}
<1>1. 0 \in T
  <2>1. IsLoop([i \in 0 .. 0 |-> z], S, 0, z, G)
    BY DEF IsLoop
  <2> QED
    BY <2>1
<1>2. ASSUME NEW m \in Nat, m \in T PROVE m + 1 \in T
  <2>1. SUFFICES ASSUME m + 1 <= n PROVE \E f : IsLoop(f, S, m + 1, z, G)
    OBVIOUS
  <2>2. PICK f : IsLoop(f, S, m, z, G)
    BY <1>2, <2>1
  <2> DEFINE g == [i \in 0 .. (m + 1) |-> IF i = m + 1 THEN G[m + 1][f[m]] ELSE f[i]]
  <2>3. f[m] \in S /\ G[m + 1] \in [S -> S]
    BY <2>1, <2>2 DEF IsLoop
  <2>4. G[m + 1][f[m]] \in S
    BY <2>3
  <2>5. g \in [0 .. (m + 1) -> S] /\ g[0] = z
    BY <2>2, <2>4 DEF IsLoop
  <2>6. ASSUME NEW i \in 1 .. (m + 1) PROVE g[i] = G[i][g[i - 1]]
    <3>1. CASE i = m + 1
      <4>1. g[i] = G[m + 1][f[m]] /\ i - 1 = m /\ m # m + 1 /\ m \in 0 .. (m + 1)
        BY <3>1
      <4>2. g[m] = f[m]
        BY <4>1
      <4> HIDE DEF g
      <4> QED
        BY <3>1, <4>1, <4>2
    <3>2. CASE i \in 1 .. m
      <4>1. g[i] = f[i] /\ g[i - 1] = f[i - 1]
        BY <3>2
      <4> HIDE DEF g
      <4> QED
        BY <2>2, <3>2, <4>1 DEF IsLoop
    <3> QED
      BY <3>1, <3>2
  <2>7. IsLoop(g, S, m + 1, z, G)
    BY <2>5, <2>6 DEF IsLoop
  <2> QED
    BY <2>7
<1> HIDE DEF T
<1>3. n \in T
  BY <1>1, <1>2, Inductive
<1> QED
  BY <1>3 DEF T

-----------------------------------------------------------------------------
(* Sequences written one behind the other *)

\* The function that the loop of FlattenSeq defines, for a sequence that is not empty.
Flattening(s, f) == [i \in 1 .. Len(s) |-> IF i = 1 THEN s[i] ELSE f[i - 1] \o s[i]]

LEMMA FlatteningParts ==
  ASSUME NEW s \in Seq(Bytes), NEW f
  PROVE  /\ DOMAIN Flattening(s, f) = 1 .. Len(s)
         /\ \A i \in 1 .. Len(s) : Flattening(s, f)[i] = IF i = 1 THEN s[i] ELSE f[i - 1] \o s[i]
  BY DEF Flattening

\* p[n] is the first n of s, one behind the other.
IsPrefixes(p, s) ==
  /\ p \in [0 .. Len(s) -> Bytes]
  /\ p[0] = <<>>
  /\ \A n \in 1 .. Len(s) : p[n] = p[n - 1] \o s[n]

LEMMA PrefixesExist ==
  ASSUME NEW s \in Seq(Bytes)
  PROVE  \E p : IsPrefixes(p, s)
<1> DEFINE G == [i \in 1 .. Len(s) |-> [x \in Bytes |-> x \o s[i]]]
<1>1. Len(s) \in Nat /\ <<>> \in Bytes /\ \A i \in 1 .. Len(s) : s[i] \in Bytes
  BY DEF Bytes
<1>2. G \in [1 .. Len(s) -> [Bytes -> Bytes]]
  BY <1>1, Joins
<1>3. \A i \in 1 .. Len(s) : \A x \in Bytes : G[i][x] = x \o s[i]
  OBVIOUS
<1> HIDE DEF G
<1>4. PICK f : IsLoop(f, Bytes, Len(s), <<>>, G)
  BY <1>1, <1>2, LoopExists
<1>5. f \in [0 .. Len(s) -> Bytes] /\ f[0] = <<>> /\ \A i \in 1 .. Len(s) : f[i] = G[i][f[i - 1]]
  BY <1>4 DEF IsLoop
<1>6. \A i \in 1 .. Len(s) : f[i - 1] \in Bytes
  <2>1. \A i \in 1 .. Len(s) : i - 1 \in 0 .. Len(s)
    BY <1>1
  <2> QED
    BY <1>5, <2>1
<1>7. IsPrefixes(f, s)
  BY <1>3, <1>5, <1>6 DEF IsPrefixes
<1> QED
  BY <1>7

LEMMA NoBytes == <<>> \in Bytes /\ Len(<<>>) = 0
  BY DEF Bytes

LEMMA NothingBefore ==
  ASSUME NEW a \in Bytes
  PROVE  <<>> \o a = a /\ a \o <<>> = a /\ <<>> \in Bytes /\ Len(<<>>) = 0
  BY ConcatEmptySeq DEF Bytes

\* FlattenSeq is the last of the prefixes.
LEMMA FlattenIs ==
  ASSUME NEW s \in Seq(Bytes), NEW p, IsPrefixes(p, s)
  PROVE  FlattenSeq(s) = p[Len(s)]
<1> DEFINE u == CHOOSE f : f = Flattening(s, f)
           g == [i \in 1 .. Len(s) |-> p[i]]
<1>1. /\ Len(s) \in Nat /\ \A i \in 1 .. Len(s) : s[i] \in Bytes
      /\ p[0] = <<>> /\ \A n \in 1 .. Len(s) : p[n] = p[n - 1] \o s[n]
      /\ Len(s) # 0 => p[1] = s[1] /\ s[1] \in Bytes
  <2>1. /\ Len(s) \in Nat /\ \A i \in 1 .. Len(s) : s[i] \in Bytes
        /\ p[0] = <<>> /\ \A n \in 1 .. Len(s) : p[n] = p[n - 1] \o s[n]
    BY DEF IsPrefixes
  <2>2. ASSUME Len(s) # 0 PROVE p[1] = s[1] /\ s[1] \in Bytes
    <3>1. 1 \in 1 .. Len(s) /\ 1 - 1 = 0
      BY <2>1, <2>2
    <3>2. p[1] = p[1 - 1] \o s[1] /\ s[1] \in Bytes
      BY <2>1, <3>1, Zenon
    <3>3. p[1] = <<>> \o s[1]
      BY <2>1, <3>1, <3>2, Zenon
    <3> QED
      BY <3>2, <3>3, NothingBefore
  <2> QED
    BY <2>1, <2>2
<1>2. CASE Len(s) = 0
  <2>1. s = <<>> /\ FlattenSeq(s) = s
    BY <1>2 DEF FlattenSeq
  <2> QED
    BY <1>1, <1>2, <2>1
<1>3. CASE Len(s) # 0
  <2>1. DOMAIN g = 1 .. Len(s) /\ \A i \in 1 .. Len(s) : g[i] = p[i]
    OBVIOUS
  <2>2. g = [i \in 1 .. Len(s) |-> g[i]]
    OBVIOUS
  <2> HIDE DEF g
  <2>3. \A i \in 1 .. Len(s) : g[i] = IF i = 1 THEN s[i] ELSE g[i - 1] \o s[i]
    <3>1. ASSUME NEW i \in 1 .. Len(s), i = 1 PROVE g[i] = s[i]
      BY <1>1, <1>3, <2>1, <3>1
    <3>2. ASSUME NEW i \in 1 .. Len(s), i # 1 PROVE g[i] = g[i - 1] \o s[i]
      <4>1. i - 1 \in 1 .. Len(s)
        BY <1>1, <3>2
      <4> QED
        BY <1>1, <2>1, <4>1
    <3> QED
      BY <3>1, <3>2
  <2> DEFINE h == Flattening(s, g)
  <2>4. h = [i \in 1 .. Len(s) |-> h[i]]
    BY DEF Flattening
  <2>5. \A i \in 1 .. Len(s) : h[i] = IF i = 1 THEN s[i] ELSE g[i - 1] \o s[i]
    BY FlatteningParts
  <2> HIDE DEF h
  <2>6. g = h
    BY <2>2, <2>3, <2>4, <2>5, ZenonT(40)
  <2>7. u = Flattening(s, u)
    BY <2>6 DEF h
  <2>8. FlattenSeq(s) = u[Len(s)]
    BY <1>3 DEF FlattenSeq, Flattening
  <2> HIDE DEF u
  <2>9. \A i \in 1 .. Len(s) : u[i] = IF i = 1 THEN s[i] ELSE u[i - 1] \o s[i]
    BY <2>7, FlatteningParts
  <2> DEFINE T == {n \in Nat : n + 1 <= Len(s) => u[n + 1] = p[n + 1]}
  <2>10. 0 \in T
    <3>1. 1 \in 1 .. Len(s) /\ 0 + 1 = 1
      BY <1>1, <1>3
    <3>2. u[1] = s[1]
      BY <2>9, <3>1, Zenon
    <3>3. u[1] = p[1]
      BY <1>1, <1>3, <3>2
    <3> QED
      BY <3>1, <3>3
  <2>11. ASSUME NEW n \in Nat, n \in T PROVE n + 1 \in T
    <3>1. SUFFICES ASSUME (n + 1) + 1 <= Len(s) PROVE u[(n + 1) + 1] = p[(n + 1) + 1]
      OBVIOUS
    <3>2. (n + 1) + 1 \in 1 .. Len(s) /\ (n + 1) + 1 # 1 /\ ((n + 1) + 1) - 1 = n + 1 /\ n + 1 <= Len(s)
      BY <1>1, <3>1
    <3>3. u[n + 1] = p[n + 1]
      BY <2>11, <3>2
    <3> DEFINE m == (n + 1) + 1
    <3>4. u[m] = u[n + 1] \o s[m] /\ p[m] = p[n + 1] \o s[m]
      <4>1. m \in 1 .. Len(s) /\ m # 1 /\ m - 1 = n + 1
        BY <3>2
      <4> HIDE DEF m
      <4> QED
        BY <1>1, <2>9, <4>1
    <3> HIDE DEF m
    <3>5. u[m] = p[m]
      BY <3>3, <3>4
    <3> QED
      BY <3>5 DEF m
  <2> HIDE DEF T
  <2>12. Len(s) - 1 \in Nat /\ (Len(s) - 1) + 1 = Len(s)
    BY <1>1, <1>3
  <2>13. Len(s) - 1 \in T
    BY <2>10, <2>11, <2>12, Inductive
  <2> QED
    BY <2>8, <2>12, <2>13 DEF T
<1> QED
  BY <1>2, <1>3

\* What FlattenSeq returns, from its last sequence on.
LEMMA FlattenLast ==
  ASSUME NEW s \in Seq(Bytes), NEW w \in Bytes
  PROVE  /\ FlattenSeq(s) \in Bytes /\ FlattenSeq(<<>>) = <<>>
         /\ Append(s, w) \in Seq(Bytes) /\ Len(Append(s, w)) = Len(s) + 1
         /\ FlattenSeq(Append(s, w)) = FlattenSeq(s) \o w
<1> DEFINE t == Append(s, w)
<1>1. Len(s) \in Nat
  OBVIOUS
<1>2. t \in Seq(Bytes) /\ Len(t) = Len(s) + 1 /\ t[Len(s) + 1] = w
      /\ \A i \in 1 .. Len(s) : t[i] = s[i]
  BY AppendProperties
<1>3. PICK p : IsPrefixes(p, s)
  BY PrefixesExist
<1> HIDE DEF t
<1>4. PICK q : IsPrefixes(q, t)
  BY <1>2, PrefixesExist
<1>5. FlattenSeq(s) = p[Len(s)] /\ p[Len(s)] \in Bytes
  BY <1>1, <1>3, FlattenIs DEF IsPrefixes
<1>6. FlattenSeq(t) = q[Len(s) + 1] /\ q[Len(s) + 1] = q[Len(s)] \o w
  <2>1. FlattenSeq(t) = q[Len(t)]
    BY <1>2, <1>4, FlattenIs
  <2>2. Len(s) + 1 \in 1 .. Len(t) /\ (Len(s) + 1) - 1 = Len(s)
    BY <1>1, <1>2
  <2>3. q[Len(s) + 1] = q[(Len(s) + 1) - 1] \o t[Len(s) + 1]
    BY <1>4, <2>2 DEF IsPrefixes
  <2> QED
    BY <1>2, <2>1, <2>2, <2>3
<1> DEFINE T == {n \in Nat : n <= Len(s) => q[n] = p[n]}
<1>7. 0 \in T
  BY <1>3, <1>4 DEF IsPrefixes
<1>8. ASSUME NEW n \in Nat, n \in T PROVE n + 1 \in T
  <2>1. SUFFICES ASSUME n + 1 <= Len(s) PROVE q[n + 1] = p[n + 1]
    OBVIOUS
  <2>2. n + 1 \in 1 .. Len(s) /\ n + 1 \in 1 .. Len(t) /\ (n + 1) - 1 = n
    BY <1>1, <1>2, <2>1
  <2>3. q[n] = p[n]
    BY <1>1, <1>8, <2>1
  <2>4. q[n + 1] = q[n] \o t[n + 1] /\ p[n + 1] = p[n] \o s[n + 1] /\ t[n + 1] = s[n + 1]
    BY <1>2, <1>3, <1>4, <2>2 DEF IsPrefixes
  <2> QED
    BY <2>3, <2>4
<1> HIDE DEF T
<1>9. Len(s) \in T
  BY <1>1, <1>7, <1>8, Inductive
<1>10. q[Len(s)] = p[Len(s)]
  BY <1>1, <1>9 DEF T
<1>11. FlattenSeq(<<>>) = <<>>
  BY DEF FlattenSeq
<1> QED
  BY <1>2, <1>5, <1>6, <1>10, <1>11 DEF t

-----------------------------------------------------------------------------
(* Repeat.  R[b] is what the reader makes of the buffer b. *)

IsReader(R, X) ==
  \A b \in Bytes : R[b].ok \in BOOLEAN /\ R[b].rest \in Bytes /\ (R[b].ok => R[b].val \in X)

Readings(X) == [ok: BOOLEAN, val: Seq(X), rest: Bytes]

Turn(R, x) ==
  IF x.ok /\ R[x.rest].ok THEN Got(Append(x.val, R[x.rest].val), R[x.rest].rest) ELSE Fail

\* u[n] is what n readings give.
IsRun(u, R, X, count, buf) ==
  /\ u \in [0 .. count -> Readings(X)]
  /\ u[0] = Got(<<>>, buf)
  /\ \A n \in 1 .. count : u[n] = Turn(R, u[n - 1])

LEMMA ReadingsAre ==
  ASSUME NEW X, NEW v \in Seq(X), NEW rest \in Bytes
  PROVE  Got(v, rest) \in Readings(X) /\ Fail \in Readings(X) /\ Got(<<>>, rest) \in Readings(X)
<1>1. <<>> \in Seq(X) /\ <<>> \in Bytes
  BY DEF Bytes
<1> QED
  BY <1>1 DEF Readings, Got, Fail

LEMMA TurnParts ==
  ASSUME NEW X, NEW R, IsReader(R, X), NEW x \in Readings(X)
  PROVE  Turn(R, x) \in Readings(X)
<1>1. x.rest \in Bytes /\ x.val \in Seq(X)
  BY DEF Readings
<1>2. CASE x.ok /\ R[x.rest].ok
  <2>1. R[x.rest].rest \in Bytes /\ R[x.rest].val \in X
    BY <1>1, <1>2 DEF IsReader
  <2>2. Append(x.val, R[x.rest].val) \in Seq(X)
    BY <1>1, <2>1, AppendProperties
  <2>3. Turn(R, x) = Got(Append(x.val, R[x.rest].val), R[x.rest].rest)
    BY <1>2 DEF Turn
  <2> QED
    BY <2>1, <2>2, <2>3, ReadingsAre
<1>3. CASE ~(x.ok /\ R[x.rest].ok)
  <2>1. Turn(R, x) = Fail
    BY <1>3 DEF Turn
  <2> QED
    BY <1>1, <2>1, ReadingsAre
<1> QED
  BY <1>2, <1>3

LEMMA RunExists ==
  ASSUME NEW X, NEW R, IsReader(R, X), NEW count \in Nat, NEW buf \in Bytes
  PROVE  \E u : IsRun(u, R, X, count, buf)
<1> DEFINE G == [i \in 1 .. count |-> [x \in Readings(X) |-> Turn(R, x)]]
<1>1. Got(<<>>, buf) \in Readings(X)
  <2>1. <<>> \in Seq(X)
    OBVIOUS
  <2> QED
    BY <2>1, ReadingsAre
<1>2. G \in [1 .. count -> [Readings(X) -> Readings(X)]]
  BY TurnParts
<1>3. \A i \in 1 .. count : \A x \in Readings(X) : G[i][x] = Turn(R, x)
  OBVIOUS
<1> HIDE DEF G
<1>4. PICK u : IsLoop(u, Readings(X), count, Got(<<>>, buf), G)
  BY <1>1, <1>2, LoopExists
<1>5. /\ u \in [0 .. count -> Readings(X)] /\ u[0] = Got(<<>>, buf)
      /\ \A i \in 1 .. count : u[i] = G[i][u[i - 1]]
  BY <1>4 DEF IsLoop
<1>6. \A i \in 1 .. count : u[i - 1] \in Readings(X)
  <2>1. \A i \in 1 .. count : i - 1 \in 0 .. count
    OBVIOUS
  <2> QED
    BY <1>5, <2>1
<1>7. IsRun(u, R, X, count, buf)
  BY <1>3, <1>5, <1>6 DEF IsRun
<1> QED
  BY <1>7

\* g is what one round of the definition of Repeat makes of f.
IsRound(g, f, R, X, count, buf) ==
  /\ g = [n \in 0 .. count |-> g[n]]
  /\ g[0] = Got(<<>>, buf)
  /\ \A n \in 1 .. count : f[n - 1] \in Readings(X) => g[n] = Turn(R, f[n - 1])

\* A run is what that round makes of itself, and nothing else is.
LEMMA RunFixed ==
  ASSUME NEW X, NEW R, NEW count \in Nat, NEW buf, NEW r, IsRun(r, R, X, count, buf),
         NEW g, IsRound(g, r, R, X, count, buf)
  PROVE  r = g
<1>1. /\ r \in [0 .. count -> Readings(X)] /\ r[0] = Got(<<>>, buf)
      /\ \A n \in 1 .. count : r[n] = Turn(R, r[n - 1])
  BY DEF IsRun
<1>2. \A n \in 1 .. count : r[n - 1] \in Readings(X)
  <2>1. \A n \in 1 .. count : n - 1 \in 0 .. count
    OBVIOUS
  <2> QED
    BY <1>1, <2>1
<1>3. \A n \in 0 .. count : r[n] = g[n]
  <2>1. \A n \in 0 .. count : n = 0 \/ n \in 1 .. count
    OBVIOUS
  <2>2. g[0] = Got(<<>>, buf) /\ \A n \in 1 .. count : g[n] = Turn(R, r[n - 1])
    BY <1>2 DEF IsRound
  <2> QED
    BY <1>1, <2>1, <2>2
<1>4. g = [n \in 0 .. count |-> g[n]]
  BY DEF IsRound
<1> QED
  BY <1>1, <1>3, <1>4

LEMMA RunUnique ==
  ASSUME NEW X, NEW R, NEW count \in Nat, NEW buf, NEW r, IsRun(r, R, X, count, buf),
         NEW u, IsRound(u, u, R, X, count, buf)
  PROVE  u[count] = r[count]
<1> DEFINE T == {n \in Nat : n <= count => u[n] = r[n]}
<1>1. 0 \in T
  BY DEF IsRun, IsRound
<1>2. ASSUME NEW n \in Nat, n \in T PROVE n + 1 \in T
  <2>1. SUFFICES ASSUME n + 1 <= count PROVE u[n + 1] = r[n + 1]
    OBVIOUS
  <2>2. n + 1 \in 1 .. count /\ (n + 1) - 1 = n /\ n \in 0 .. count
    BY <2>1
  <2>3. u[n] = r[n] /\ r[n] \in Readings(X)
    BY <1>2, <2>1, <2>2 DEF IsRun
  <2>4. u[n + 1] = Turn(R, u[n]) /\ r[n + 1] = Turn(R, r[n])
    BY <2>2, <2>3 DEF IsRun, IsRound
  <2> QED
    BY <2>3, <2>4
<1> HIDE DEF T
<1>3. count \in T
  BY <1>1, <1>2, Inductive
<1> QED
  BY <1>3 DEF T

LEMMA AppendOne ==
  ASSUME NEW X, NEW s \in Seq(X), NEW n \in Nat, n + 1 <= Len(s)
  PROVE  /\ SubSeq(s, 1, n) \in Seq(X) /\ s[n + 1] \in X
         /\ SubSeq(s, 1, n + 1) = Append(SubSeq(s, 1, n), s[n + 1])
<1>1. Len(s) \in Nat /\ n + 1 \in 1 .. Len(s) /\ \A i \in 1 .. Len(s) : s[i] \in X
  OBVIOUS
<1> DEFINE a == SubSeq(s, 1, n)
           b == SubSeq(s, 1, n + 1)
<1>2. a \in Seq(X) /\ Len(a) = n /\ \A i \in 1 .. n : a[i] = s[i]
  <2>1. \A i \in 1 .. n : s[i] \in X
    BY <1>1
  <2>2. /\ a \in Seq(X) /\ Len(a) = IF 1 <= n THEN n - 1 + 1 ELSE 0
        /\ \A i \in 1 .. n - 1 + 1 : a[i] = s[1 + i - 1]
    BY <2>1, SubSeqProperties
  <2> HIDE DEF a
  <2> QED
    BY <2>2
<1>3. b \in Seq(X) /\ Len(b) = n + 1 /\ \A i \in 1 .. n + 1 : b[i] = s[i]
  <2>1. \A i \in 1 .. n + 1 : s[i] \in X
    BY <1>1
  <2>2. /\ b \in Seq(X) /\ Len(b) = IF 1 <= n + 1 THEN (n + 1) - 1 + 1 ELSE 0
        /\ \A i \in 1 .. (n + 1) - 1 + 1 : b[i] = s[1 + i - 1]
    BY <2>1, SubSeqProperties
  <2> HIDE DEF b
  <2> QED
    BY <2>2
<1> DEFINE c == Append(a, s[n + 1])
<1> HIDE DEF a, b
<1>4. /\ c \in Seq(X) /\ Len(c) = n + 1 /\ c[n + 1] = s[n + 1]
      /\ \A i \in 1 .. n : c[i] = s[i]
  BY <1>1, <1>2, AppendProperties
<1> HIDE DEF c
<1>5. \A i \in 1 .. n + 1 : b[i] = c[i]
  BY <1>3, <1>4
<1>6. b = c
  BY <1>3, <1>4, <1>5, SeqEqual
<1> QED
  BY <1>1, <1>2, <1>6 DEF a, b, c

\* Each of xs is what R reads of its piece, whatever follows that.
ReadsBack(R, ws, xs) ==
  Len(xs) = Len(ws) /\ \A i \in 1 .. Len(ws) : \A b \in Bytes : R[ws[i] \o b] = Got(xs[i], b)

\* What was written piece by piece is read piece by piece.
LEMMA RunBack ==
  ASSUME NEW X, NEW R, NEW ws \in Seq(Bytes), NEW xs \in Seq(X), ReadsBack(R, ws, xs),
         NEW left \in Bytes, NEW count \in Nat, Len(ws) = count,
         NEW u, IsRun(u, R, X, count, FlattenSeq(ws) \o left)
  PROVE  u[count] = Got(xs, left)
<1> DEFINE buf == FlattenSeq(ws) \o left
           Good(n) == \A b \in Bytes : buf = FlattenSeq(SubSeq(ws, 1, n)) \o b
                                           => u[n] = Got(SubSeq(xs, 1, n), b)
           T == {n \in Nat : n <= count => Good(n)}
<1>1. /\ count \in Nat /\ Len(ws) = count /\ Len(xs) = count
      /\ \A i \in 1 .. count : \A b \in Bytes : R[ws[i] \o b] = Got(xs[i], b)
  BY DEF ReadsBack
<1>2. 0 \in T
  <2>0. SUFFICES Good(0)
    BY Zenon
  <2>1. SUFFICES ASSUME NEW b \in Bytes, buf = FlattenSeq(SubSeq(ws, 1, 0)) \o b
                 PROVE  u[0] = Got(SubSeq(xs, 1, 0), b)
    BY Zenon DEF Good
  <2>2. SubSeq(ws, 1, 0) = <<>> /\ SubSeq(xs, 1, 0) = <<>>
    BY SubSeqEmpty
  <2>3. FlattenSeq(<<>>) = <<>>
    BY DEF FlattenSeq
  <2> HIDE DEF buf
  <2>4. buf = b
    BY <2>1, <2>2, <2>3, NothingBefore
  <2>5. u[0] = Got(<<>>, buf)
    BY DEF IsRun, buf
  <2> QED
    BY <2>2, <2>4, <2>5
<1>3. ASSUME NEW n \in Nat, n \in T PROVE n + 1 \in T
  <2>0. SUFFICES ASSUME n + 1 <= count PROVE Good(n + 1)
    <3> HIDE DEF Good
    <3> QED
      OBVIOUS
  <2>1. SUFFICES ASSUME NEW b \in Bytes, buf = FlattenSeq(SubSeq(ws, 1, n + 1)) \o b
                 PROVE  u[n + 1] = Got(SubSeq(xs, 1, n + 1), b)
    BY Zenon DEF Good
  <2> DEFINE w == ws[n + 1]
             x == xs[n + 1]
             a == SubSeq(ws, 1, n)
             v == SubSeq(xs, 1, n)
  <2>2. /\ a \in Seq(Bytes) /\ w \in Bytes /\ SubSeq(ws, 1, n + 1) = Append(a, w)
        /\ v \in Seq(X) /\ x \in X /\ SubSeq(xs, 1, n + 1) = Append(v, x)
    BY <1>1, <2>0, AppendOne
  <2>3. \A c \in Bytes : buf = FlattenSeq(a) \o c => u[n] = Got(v, c)
    <3> HIDE DEF Good
    <3>1. Good(n)
      BY <1>1, <1>3, <2>0
    <3> QED
      BY <3>1, Zenon DEF Good
  <2>4. n + 1 \in 1 .. count /\ (n + 1) - 1 = n
    BY <1>1, <2>0
  <2>5. R[w \o b] = Got(x, b)
    BY <1>1, <2>4
  <2>6. u[n + 1] = Turn(R, u[n])
    BY <2>4 DEF IsRun
  <2>7. buf = FlattenSeq(Append(a, w)) \o b
    BY <2>1, <2>2, Zenon
  <2> HIDE DEF w, x, a, v, buf
  <2>8. FlattenSeq(a) \in Bytes /\ FlattenSeq(Append(a, w)) = FlattenSeq(a) \o w
    BY <2>2, FlattenLast
  <2>9. w \o b \in Bytes /\ buf = FlattenSeq(a) \o (w \o b)
    <3>1. w \o b \in Bytes
      BY <2>2, Joins
    <3>2. (FlattenSeq(a) \o w) \o b = FlattenSeq(a) \o (w \o b)
      BY <2>2, <2>8, Regroup
    <3> QED
      BY <2>7, <2>8, <3>1, <3>2, Zenon
  <2>10. u[n] = Got(v, w \o b)
    BY <2>3, <2>9
  <2>11. Turn(R, u[n]) = Got(Append(v, x), b)
    BY <2>5, <2>10, Parts DEF Turn
  <2> QED
    BY <2>2, <2>6, <2>11 DEF v, x
<1> HIDE DEF T
<1>4. count \in T
  BY <1>1, <1>2, <1>3, Inductive
<1>5. SubSeq(ws, 1, count) = ws /\ SubSeq(xs, 1, count) = xs
  BY <1>1, SubSeqFull
<1>6. Good(count)
  <2> HIDE DEF Good
  <2> QED
    BY <1>1, <1>4 DEF T
<1>7. buf = FlattenSeq(SubSeq(ws, 1, count)) \o left
  BY <1>5
<1>8. u[count] = Got(SubSeq(xs, 1, count), left)
  <2> HIDE DEF buf
  <2> QED
    BY <1>6, <1>7, Zenon DEF Good
<1> QED
  BY <1>5, <1>8

\* What is read whenever R succeeds was written so: w is read as x.
IsWriting(R, P) ==
  \A b \in Bytes : R[b].ok =>
    \E w \in Bytes : \E rest \in Bytes :
      R[b].rest = rest /\ b = w \o rest /\ <<w, R[b].val>> \in P

LEMMA RunSplit ==
  ASSUME NEW X, NEW R, NEW P, IsReader(R, X), IsWriting(R, P), NEW count \in Nat, NEW buf \in Bytes,
         NEW u, IsRun(u, R, X, count, buf), u[count].ok
  PROVE  \E ws \in Seq(Bytes) :
           /\ Len(ws) = count /\ Len(u[count].val) = count
           /\ buf = FlattenSeq(ws) \o u[count].rest
           /\ \A i \in 1 .. count : <<ws[i], u[count].val[i]>> \in P
<1> DEFINE Whole(n, ws) ==
             /\ Len(ws) = n /\ Len(u[n].val) = n
             /\ buf = FlattenSeq(ws) \o u[n].rest
             /\ \A i \in 1 .. n : <<ws[i], u[n].val[i]>> \in P
           T == {n \in Nat : n <= count => (u[n].ok => \E ws \in Seq(Bytes) : Whole(n, ws))}
<1>1. 0 \in T
  <2>1. u[0].val = <<>> /\ u[0].rest = buf
    BY Parts DEF IsRun
  <2>2. <<>> \in Seq(Bytes) /\ FlattenSeq(<<>>) = <<>> /\ Len(<<>>) = 0
    BY DEF FlattenSeq
  <2>3. buf = <<>> \o buf
    BY NothingBefore
  <2>4. Whole(0, <<>>)
    <3> HIDE DEF IsRun
    <3>1. Len(u[0].val) = 0 /\ buf = FlattenSeq(<<>>) \o u[0].rest
      BY <2>1, <2>2, <2>3
    <3>2. \A i \in 1 .. 0 : <<(<<>>)[i], u[0].val[i]>> \in P
      OBVIOUS
    <3> QED
      BY <2>2, <3>1, <3>2, Zenon
  <2> HIDE DEF Whole
  <2> QED
    BY <2>2, <2>4
<1>2. ASSUME NEW n \in Nat, n \in T PROVE n + 1 \in T
  <2> HIDE DEF Whole
  <2>1. SUFFICES ASSUME n + 1 <= count, u[n + 1].ok PROVE \E ws \in Seq(Bytes) : Whole(n + 1, ws)
    OBVIOUS
  <2> DEFINE x == u[n]
  <2>2. n + 1 \in 1 .. count /\ (n + 1) - 1 = n /\ n \in 0 .. count
    BY <2>1
  <2>3. u[n + 1] = Turn(R, x) /\ x \in Readings(X)
    BY <2>2 DEF IsRun
  <2> HIDE DEF x
  <2>4. x.ok /\ R[x.rest].ok /\ u[n + 1] = Got(Append(x.val, R[x.rest].val), R[x.rest].rest)
    BY <2>1, <2>3, Parts DEF Turn
  <2> DEFINE y == R[x.rest]
  <2>5. x.val \in Seq(X) /\ x.rest \in Bytes
    BY <2>3 DEF Readings
  <2>6. y.val \in X
    BY <2>4, <2>5 DEF IsReader
  <2>7. PICK w \in Bytes : \E rest \in Bytes :
          y.rest = rest /\ x.rest = w \o rest /\ <<w, y.val>> \in P
    BY <2>4, <2>5 DEF IsWriting
  <2>8. u[n + 1].val = Append(x.val, y.val) /\ u[n + 1].rest = y.rest
    <3> HIDE DEF y
    <3>1. u[n + 1] = Got(Append(x.val, y.val), y.rest)
      BY <2>4 DEF y
    <3> QED
      BY <3>1 DEF Got
  <2>9. PICK ws \in Seq(Bytes) : Whole(n, ws)
    BY <1>2, <2>1, <2>4 DEF x
  <2>10. /\ Len(ws) = n /\ Len(x.val) = n /\ buf = FlattenSeq(ws) \o x.rest
         /\ \A i \in 1 .. n : <<ws[i], x.val[i]>> \in P
    BY <2>9 DEF Whole, x
  <2> DEFINE vs == Append(ws, w)
             z == Append(x.val, y.val)
  <2> HIDE DEF y
  <2>11. /\ vs \in Seq(Bytes) /\ Len(vs) = n + 1 /\ FlattenSeq(vs) = FlattenSeq(ws) \o w
         /\ FlattenSeq(ws) \in Bytes
    BY <2>10, FlattenLast
  <2>12. vs[n + 1] = w /\ \A i \in 1 .. n : vs[i] = ws[i]
    BY <2>10, AppendProperties
  <2>13. Len(z) = n + 1 /\ z[n + 1] = y.val /\ \A i \in 1 .. n : z[i] = x.val[i]
    BY <2>5, <2>6, <2>10, AppendProperties
  <2> HIDE DEF vs, z
  <2>14. buf = FlattenSeq(vs) \o y.rest
    <3>1. y.rest \in Bytes /\ x.rest = w \o y.rest
      BY <2>7
    <3>2. (FlattenSeq(ws) \o w) \o y.rest = FlattenSeq(ws) \o (w \o y.rest)
      <4>1. FlattenSeq(ws) \in Bytes /\ y.rest \in Bytes
        BY <2>11, <3>1
      <4> QED
        BY <4>1, Regroup, ZenonT(40)
    <3> QED
      BY <2>10, <2>11, <3>1, <3>2, Zenon
  <2>15. \A i \in 1 .. n + 1 : <<vs[i], z[i]>> \in P
    <3>1. \A i \in 1 .. n + 1 : i \in 1 .. n \/ i = n + 1
      OBVIOUS
    <3> QED
      BY <2>7, <2>10, <2>12, <2>13, <3>1
  <2>16. Whole(n + 1, vs)
    BY <2>8, <2>11, <2>13, <2>14, <2>15 DEF Whole, z
  <2> QED
    BY <2>11, <2>16
<1> HIDE DEF T
<1>3. count \in T
  BY <1>1, <1>2, Inductive
<1> QED
  BY <1>3 DEF T

-----------------------------------------------------------------------------
(* Index entries *)

NewEntry(id, slot, state, title, username) ==
  [item_id |-> id, slot |-> slot, state |-> state, title |-> title, username |-> username]

States == {LiveState, TombstoneState, 255}

LEMMA StatesAre == States \subseteq Byte /\ LiveState \in States /\ TombstoneState \in States
                   /\ LiveState # TombstoneState
  BY DEF States, LiveState, TombstoneState, Byte, Below

LEMMA EntryOf ==
  ASSUME NEW e \in Entries
  PROVE  /\ e.item_id \in U32 /\ e.slot \in U32 /\ e.state \in States
         /\ e.title \in Utf8 \cap Bytes /\ e.username \in Utf8 \cap Bytes
         /\ e = NewEntry(e.item_id, e.slot, e.state, e.title, e.username)
  BY DEF Entries, NewEntry, States

LEMMA EntryIn ==
  ASSUME NEW id \in U32, NEW slot \in U32, NEW state \in States,
         NEW title \in Utf8 \cap Bytes, NEW username \in Utf8 \cap Bytes
  PROVE  /\ NewEntry(id, slot, state, title, username) \in Entries
         /\ NewEntry(id, slot, state, title, username).title = title
         /\ NewEntry(id, slot, state, title, username).username = username
  BY DEF Entries, NewEntry, States

\* Normal changes nothing but the state, and that only once.
LEMMA NormalIs ==
  ASSUME NEW e \in Entries
  PROVE  /\ Normal(e) \in Entries /\ Normal(Normal(e)) = Normal(e)
         /\ ValidEntry(e) => ValidEntry(Normal(e))
         /\ e.state # 255 => Normal(e) = e
<1> DEFINE s == IF e.state = LiveState THEN LiveState ELSE TombstoneState
           n == Normal(e)
<1>1. n = [e EXCEPT !.state = s] /\ s \in States
  BY StatesAre DEF Normal
<1>2. /\ e.item_id \in U32 /\ e.slot \in U32 /\ e.state \in States
      /\ e.title \in Utf8 \cap Bytes /\ e.username \in Utf8 \cap Bytes
      /\ e = NewEntry(e.item_id, e.slot, e.state, e.title, e.username)
  BY EntryOf
<1>3. n = NewEntry(e.item_id, e.slot, s, e.title, e.username)
  <2> HIDE DEF s, n
  <2>1. [NewEntry(e.item_id, e.slot, e.state, e.title, e.username) EXCEPT !.state = s]
          = NewEntry(e.item_id, e.slot, s, e.title, e.username)
    BY DEF NewEntry
  <2> QED
    BY <1>1, <1>2, <2>1
<1>4. n \in Entries /\ n.title = e.title /\ n.username = e.username
  <2> HIDE DEF s, n
  <2> QED
    BY <1>1, <1>2, <1>3, EntryIn
<1>5. n.state = s /\ (s = LiveState <=> e.state = LiveState) /\ (s = LiveState \/ s = TombstoneState)
  <2>1. n.state = s
    <3> HIDE DEF s, n
    <3> QED
      BY <1>3 DEF NewEntry
  <2> QED
    BY <2>1, StatesAre
<1>6. Normal(n) = [n EXCEPT !.state = s]
  <2>1. Normal(n) = [n EXCEPT !.state = IF n.state = LiveState THEN LiveState ELSE TombstoneState]
    BY DEF Normal
  <2>2. (IF n.state = LiveState THEN LiveState ELSE TombstoneState) = s
    <3> HIDE DEF s, n
    <3> QED
      BY <1>5, StatesAre
  <2> HIDE DEF s, n
  <2> QED
    BY <2>1, <2>2
<1>7. Normal(n) = n
  <2> HIDE DEF s, n
  <2>1. [NewEntry(e.item_id, e.slot, s, e.title, e.username) EXCEPT !.state = s]
          = NewEntry(e.item_id, e.slot, s, e.title, e.username)
    BY DEF NewEntry
  <2> QED
    BY <1>3, <1>6, <2>1
<1>8. e.state # 255 => s = e.state
  BY <1>2 DEF States
<1> HIDE DEF s, n
<1>9. e.state # 255 => n = e
  BY <1>2, <1>3, <1>8
<1> QED
  BY <1>4, <1>7, <1>9 DEF ValidEntry, n

LEMMA TitleLimits == MaxTitle \in U16 /\ MaxUsername \in U16
  BY DEF MaxTitle, MaxUsername, U16, Below

LEMMA EntryGot ==
  ASSUME NEW buf, NEW id, NEW slot, NEW state \in States, NEW title, NEW username,
         NEW r1, NEW r2, NEW r3, NEW r4, NEW r5,
         ReadU32(buf) = Got(id, r1), ReadU32(r1) = Got(slot, r2), ReadU8(r2) = Got(state, r3),
         ReadStr(r3, MaxTitle) = Got(title, r4), ReadStr(r4, MaxUsername) = Got(username, r5)
  PROVE  ReadEntry(buf) = Got(Normal(NewEntry(id, slot, state, title, username)), r5)
<1>1. /\ ReadU32(buf).val = id /\ ReadU32(buf).rest = r1
      /\ ReadU32(r1).val = slot /\ ReadU32(r1).rest = r2
      /\ ReadU8(r2).val = state /\ ReadU8(r2).rest = r3
      /\ ReadStr(r3, MaxTitle).val = title /\ ReadStr(r3, MaxTitle).rest = r4
      /\ ReadStr(r4, MaxUsername).val = username /\ ReadStr(r4, MaxUsername).rest = r5
      /\ ReadStr(r4, MaxUsername).ok
  BY Parts
<1> QED
  BY <1>1 DEF ReadEntry, NewEntry, States

\* Each reading of an entry succeeds, or the entry's does not.
LEMMA EntryRead ==
  ASSUME NEW buf
  PROVE  LET id       == ReadU32(buf)
             slot     == ReadU32(id.rest)
             state    == ReadU8(slot.rest)
             title    == ReadStr(state.rest, MaxTitle)
             username == ReadStr(title.rest, MaxUsername)
         IN  \/ ReadEntry(buf) = Fail
             \/ id.ok /\ slot.ok /\ state.ok /\ title.ok /\ username.ok /\ state.val \in States
<1> DEFINE id       == ReadU32(buf)
           slot     == ReadU32(id.rest)
           state    == ReadU8(slot.rest)
           title    == ReadStr(state.rest, MaxTitle)
           username == ReadStr(title.rest, MaxUsername)
<1>1. ReadEntry(buf) = Fail \/ (username.ok /\ state.val \in States)
  BY DEF ReadEntry, States
<1>2. SUFFICES ASSUME username.ok, state.val \in States
               PROVE  id.ok /\ slot.ok /\ state.ok /\ title.ok
  BY <1>1
<1>3. title.ok
  BY <1>2, Spent, Stuck
<1>4. state.ok
  BY <1>3, Spent, Stuck
<1>5. slot.ok
  BY <1>4, Spent, Stuck
<1>6. id.ok
  BY <1>5, Spent, Stuck
<1> QED
  BY <1>3, <1>4, <1>5, <1>6, Zenon

LEMMA EntryBack ==
  ASSUME NEW e \in Entries, ValidEntry(e), NEW b \in Bytes
  PROVE  PushEntry(e) \in Bytes /\ ReadEntry(PushEntry(e) \o b) = Got(Normal(e), b)
<1> DEFINE id       == Be32(e.item_id)
           slot     == Be32(e.slot)
           state    == <<e.state>>
           title    == PushStr(e.title)
           username == PushStr(e.username)
<1>1. /\ e.item_id \in U32 /\ e.slot \in U32 /\ e.state \in States /\ e.state \in Byte
      /\ e.title \in Utf8 \cap Bytes /\ e.username \in Utf8 \cap Bytes
      /\ e = NewEntry(e.item_id, e.slot, e.state, e.title, e.username)
      /\ Len(e.title) <= MaxTitle /\ Len(e.username) <= MaxUsername
  BY EntryOf, StatesAre DEF ValidEntry
<1>2. \A c \in Bytes : id \in Bytes /\ ReadU32(Cat(id, c)) = Got(e.item_id, c)
  BY <1>1, U32Back, Number32 DEF Cat
<1>3. \A c \in Bytes : slot \in Bytes /\ ReadU32(Cat(slot, c)) = Got(e.slot, c)
  BY <1>1, U32Back, Number32 DEF Cat
<1>4. \A c \in Bytes : state \in Bytes /\ ReadU8(Cat(state, c)) = Got(e.state, c)
  BY <1>1, U8Back, OneByte DEF Cat
<1>5. \A c \in Bytes : title \in Bytes /\ ReadStr(Cat(title, c), MaxTitle) = Got(e.title, c)
  BY <1>1, StrBack, TitleLimits DEF Cat
<1>6. \A c \in Bytes :
        username \in Bytes /\ ReadStr(Cat(username, c), MaxUsername) = Got(e.username, c)
  BY <1>1, StrBack, TitleLimits DEF Cat
<1>7. PushEntry(e) = Cat(id, Cat(slot, Cat(state, Cat(title, username))))
  BY Zenon DEF PushEntry, Cat
<1> HIDE DEF id, slot, state, title, username
<1>8. /\ PushEntry(e) \in Bytes
      /\ PushEntry(e) \o b = Cat(id, Cat(slot, Cat(state, Cat(title, Cat(username, b)))))
  <2>1. id \in Bytes /\ slot \in Bytes /\ state \in Bytes /\ title \in Bytes /\ username \in Bytes
    BY <1>2, <1>3, <1>4, <1>5, <1>6
  <2> DEFINE all == Cat(id, Cat(slot, Cat(state, Cat(title, username))))
  <2>2. all \in Bytes /\ Cat(all, b) = Cat(id, Cat(slot, Cat(state, Cat(title, Cat(username, b)))))
    BY <2>1, Chain
  <2> HIDE DEF all
  <2>3. PushEntry(e) = all
    BY <1>7 DEF all
  <2>4. Cat(all, b) = all \o b
    BY DEF Cat
  <2> QED
    BY <2>2, <2>3, <2>4, Zenon
<1> DEFINE r5 == b
           r4 == Cat(username, r5)
           r3 == Cat(title, r4)
           r2 == Cat(state, r3)
           r1 == Cat(slot, r2)
           r0 == Cat(id, r1)
<1>9. r4 \in Bytes /\ ReadStr(r4, MaxUsername) = Got(e.username, r5)
  BY <1>6, Cats
<1> HIDE DEF r4
<1>10. r3 \in Bytes /\ ReadStr(r3, MaxTitle) = Got(e.title, r4)
  BY <1>5, <1>9, Cats
<1> HIDE DEF r3
<1>11. r2 \in Bytes /\ ReadU8(r2) = Got(e.state, r3)
  BY <1>4, <1>10, Cats
<1> HIDE DEF r2
<1>12. r1 \in Bytes /\ ReadU32(r1) = Got(e.slot, r2)
  BY <1>3, <1>11, Cats
<1> HIDE DEF r1
<1>13. ReadU32(r0) = Got(e.item_id, r1)
  BY <1>2, <1>12
<1>14. PushEntry(e) \o b = r0
  BY <1>8 DEF r1, r2, r3, r4
<1> HIDE DEF r0
<1>15. ReadEntry(r0) = Got(Normal(NewEntry(e.item_id, e.slot, e.state, e.title, e.username)), r5)
  BY <1>1, <1>9, <1>10, <1>11, <1>12, <1>13, EntryGot
<1> QED
  BY <1>1, <1>8, <1>14, <1>15

LEMMA EntrySplit ==
  ASSUME NEW buf \in Bytes, ReadEntry(buf).ok
  PROVE  \E e \in Entries : \E rest \in Bytes :
           ValidEntry(e) /\ ReadEntry(buf) = Got(Normal(e), rest) /\ buf = PushEntry(e) \o rest
<1> DEFINE id       == ReadU32(buf)
           slot     == ReadU32(id.rest)
           state    == ReadU8(slot.rest)
           title    == ReadStr(state.rest, MaxTitle)
           username == ReadStr(title.rest, MaxUsername)
<1>1. id.ok /\ slot.ok /\ state.ok /\ title.ok /\ username.ok /\ state.val \in States
  BY EntryRead, Parts
<1>2. PICK i \in U32, r1 \in Bytes : id = Got(i, r1) /\ buf = Cat(Be32(i), r1)
  BY <1>1, U32Split DEF Cat
<1>3. id.rest = r1
  BY <1>2, Parts
<1>4. PICK s \in U32, r2 \in Bytes : slot = Got(s, r2) /\ r1 = Cat(Be32(s), r2)
  BY <1>1, <1>3, U32Split DEF Cat
<1>5. slot.rest = r2
  BY <1>4, Parts
<1>6. PICK k \in Byte, r3 \in Bytes : state = Got(k, r3) /\ r2 = Cat(<<k>>, r3)
  BY <1>1, <1>5, U8Split DEF Cat
<1>7. state.rest = r3 /\ k \in States
  BY <1>1, <1>6, Parts
<1>8. PICK t \in Utf8 \cap Bytes, r4 \in Bytes :
        title = Got(t, r4) /\ Len(t) <= MaxTitle /\ r3 = Cat(PushStr(t), r4)
  BY <1>1, <1>7, StrSplit, TitleLimits DEF Cat
<1>9. title.rest = r4
  BY <1>8, Parts
<1>10. PICK u \in Utf8 \cap Bytes, r5 \in Bytes :
         username = Got(u, r5) /\ Len(u) <= MaxUsername /\ r4 = Cat(PushStr(u), r5)
  BY <1>1, <1>9, StrSplit, TitleLimits DEF Cat
<1> DEFINE e == NewEntry(i, s, k, t, u)
<1>11. /\ ReadU32(buf) = Got(i, r1) /\ ReadU32(r1) = Got(s, r2) /\ ReadU8(r2) = Got(k, r3)
       /\ ReadStr(r3, MaxTitle) = Got(t, r4) /\ ReadStr(r4, MaxUsername) = Got(u, r5)
  BY <1>2, <1>3, <1>4, <1>5, <1>6, <1>7, <1>8, <1>9, <1>10, Zenon
<1> HIDE DEF id, slot, state, title, username
<1>12. ReadEntry(buf) = Got(Normal(e), r5)
  BY <1>7, <1>11, EntryGot
<1>13. e \in Entries /\ ValidEntry(e)
  BY <1>7, <1>8, <1>10, EntryIn DEF ValidEntry
<1>14. PushEntry(e) = Cat(Be32(i), Cat(Be32(s), Cat(<<k>>, Cat(PushStr(t), PushStr(u)))))
  <2>1. e.item_id = i /\ e.slot = s /\ e.state = k /\ e.title = t /\ e.username = u
    BY DEF NewEntry
  <2> HIDE DEF e
  <2>2. PushEntry(e) = Cat(Be32(e.item_id), Cat(Be32(e.slot), Cat(<<e.state>>,
                         Cat(PushStr(e.title), PushStr(e.username)))))
    BY Zenon DEF PushEntry, Cat
  <2> QED
    BY <2>1, <2>2, Zenon
<1> HIDE DEF e
<1>15. buf = PushEntry(e) \o r5
  <2>1. Be32(i) \in Bytes /\ Be32(s) \in Bytes /\ <<k>> \in Bytes
    BY Number32, OneByte
  <2>2. PushStr(t) \in Bytes /\ PushStr(u) \in Bytes
    BY <1>8, <1>10, StrBack, TitleLimits
  <2>3. Cat(PushEntry(e), r5) =
          Cat(Be32(i), Cat(Be32(s), Cat(<<k>>, Cat(PushStr(t), Cat(PushStr(u), r5)))))
    BY <1>14, <2>1, <2>2, Chain, SMTT(40)
  <2>4. buf = Cat(Be32(i), Cat(Be32(s), Cat(<<k>>, Cat(PushStr(t), Cat(PushStr(u), r5)))))
    BY <1>2, <1>4, <1>6, <1>8, <1>10, Zenon
  <2> QED
    BY <2>3, <2>4 DEF Cat
<1> QED
  BY <1>12, <1>13, <1>15

\* What ReadEntry makes of each buffer, and what it makes it of.
EntryReader  == [b \in Bytes |-> ReadEntry(b)]
EntryWriting == {<<PushEntry(e), Normal(e)>> : e \in {x \in Entries : ValidEntry(x)}}

LEMMA EntryReaderIs == IsReader(EntryReader, Entries) /\ IsWriting(EntryReader, EntryWriting)
<1>1. \A b \in Bytes : EntryReader[b] = ReadEntry(b)
  BY DEF EntryReader
<1>2. ASSUME NEW b \in Bytes
      PROVE  /\ ReadEntry(b).ok \in BOOLEAN /\ ReadEntry(b).rest \in Bytes
             /\ ReadEntry(b).ok => ReadEntry(b).val \in Entries
  <2>1. CASE ReadEntry(b) = Fail
    <3>1. ~Fail.ok /\ Fail.ok \in BOOLEAN /\ Fail.rest \in Bytes
      BY DEF Fail, Bytes
    <3> QED
      BY <2>1, <3>1
  <2>2. CASE ReadEntry(b) # Fail
    <3>1. ReadEntry(b).ok
      BY <2>2 DEF ReadEntry, Got
    <3>2. PICK e \in Entries, rest \in Bytes : ReadEntry(b) = Got(Normal(e), rest)
      BY <3>1, EntrySplit
    <3>3. Normal(e) \in Entries
      BY NormalIs
    <3> QED
      BY <3>2, <3>3 DEF Got
  <2> QED
    BY <2>1, <2>2
<1>3. ASSUME NEW b \in Bytes, ReadEntry(b).ok
      PROVE  \E w \in Bytes : \E rest \in Bytes :
               ReadEntry(b).rest = rest /\ b = w \o rest /\ <<w, ReadEntry(b).val>> \in EntryWriting
  <2>1. PICK e \in Entries, rest \in Bytes :
          ValidEntry(e) /\ ReadEntry(b) = Got(Normal(e), rest) /\ b = PushEntry(e) \o rest
    BY <1>3, EntrySplit
  <2>2. PushEntry(e) \in Bytes
    BY <2>1, EntryBack
  <2>3. ReadEntry(b).rest = rest /\ ReadEntry(b).val = Normal(e)
    BY <2>1, Parts
  <2>4. <<PushEntry(e), Normal(e)>> \in EntryWriting
    BY <2>1 DEF EntryWriting
  <2> QED
    BY <2>1, <2>2, <2>3, <2>4
<1>4. IsReader(EntryReader, Entries)
  BY <1>1, <1>2, Zenon DEF IsReader
<1>5. IsWriting(EntryReader, EntryWriting)
  BY <1>1, <1>3, Zenon DEF IsWriting
<1> QED
  BY <1>4, <1>5

\* The function that Repeat defines, for entries.
RepeatingEntries(count, buf, f) ==
  [n \in 0 .. count |->
     IF n = 0 THEN Got(<<>>, buf)
     ELSE LET next == ReadEntry(f[n - 1].rest)
          IN  IF f[n - 1].ok /\ next.ok
              THEN Got(Append(f[n - 1].val, next.val), next.rest) ELSE Fail]

LEMMA EntriesRound ==
  ASSUME NEW count \in Nat, NEW buf, NEW f
  PROVE  IsRound(RepeatingEntries(count, buf, f), f, EntryReader, Entries, count, buf)
<1> DEFINE g == RepeatingEntries(count, buf, f)
<1>1. g = [n \in 0 .. count |-> g[n]]
  BY DEF RepeatingEntries
<1>2. g[0] = Got(<<>>, buf)
  BY DEF RepeatingEntries
<1>3. ASSUME NEW n \in 1 .. count, f[n - 1] \in Readings(Entries)
      PROVE  g[n] = Turn(EntryReader, f[n - 1])
  <2> DEFINE x == f[n - 1]
  <2>1. g[n] = IF x.ok /\ ReadEntry(x.rest).ok
               THEN Got(Append(x.val, ReadEntry(x.rest).val), ReadEntry(x.rest).rest) ELSE Fail
    BY DEF RepeatingEntries
  <2>2. x.rest \in Bytes
    BY <1>3 DEF Readings
  <2> HIDE DEF g, x
  <2>3. EntryReader[x.rest] = ReadEntry(x.rest)
    BY <2>2 DEF EntryReader
  <2>4. g[n] = Turn(EntryReader, x)
    BY <2>1, <2>3, Zenon DEF Turn
  <2> QED
    BY <2>4 DEF x
<1> HIDE DEF g
<1>4. IsRound(g, f, EntryReader, Entries, count, buf)
  BY <1>1, <1>2, <1>3 DEF IsRound
<1> QED
  BY <1>4 DEF g

\* Repeat returns the last value of a run.
LEMMA RepeatEntries ==
  ASSUME NEW count \in Nat, NEW buf \in Bytes
  PROVE  \E u : IsRun(u, EntryReader, Entries, count, buf) /\ Repeat(ReadEntry, count, buf) = u[count]
<1>1. PICK r : IsRun(r, EntryReader, Entries, count, buf)
  BY EntryReaderIs, RunExists
<1> DEFINE u == CHOOSE f : f = RepeatingEntries(count, buf, f)
<1>2. r = RepeatingEntries(count, buf, r)
  BY <1>1, EntriesRound, RunFixed
<1>3. u = RepeatingEntries(count, buf, u)
  BY <1>2
<1>4. Repeat(ReadEntry, count, buf) = u[count]
  BY DEF Repeat, RepeatingEntries
<1> HIDE DEF u
<1>5. IsRound(u, u, EntryReader, Entries, count, buf)
  <2>1. IsRound(RepeatingEntries(count, buf, u), u, EntryReader, Entries, count, buf)
    BY EntriesRound
  <2> QED
    BY <1>3, <2>1
<1>6. u[count] = r[count]
  BY <1>1, <1>5, RunUnique
<1> QED
  BY <1>1, <1>4, <1>6

LEMMA FlattenIn ==
  ASSUME NEW s \in Seq(Bytes)
  PROVE  FlattenSeq(s) \in Bytes
  BY FlattenLast, NoBytes

\* parse_index, once its parts are read.
LEMMA IndexGot ==
  ASSUME NEW buf, NEW n, NEW left, ReadU32(buf) = Got(n, left), NEW es,
         Repeat(ReadEntry, n, left) = Got(es, <<>>)
  PROVE  ParseIndex(buf) = Got(es, <<>>)
<1>1. ReadU32(buf).ok /\ ReadU32(buf).val = n /\ ReadU32(buf).rest = left
  BY Parts
<1>2. Repeat(ReadEntry, ReadU32(buf).val, ReadU32(buf).rest) = Got(es, <<>>)
  BY <1>1
<1> DEFINE r == Repeat(ReadEntry, ReadU32(buf).val, ReadU32(buf).rest)
<1>3. ParseIndex(buf) = IF ReadU32(buf).ok /\ r.ok /\ r.rest = <<>> THEN Got(r.val, <<>>) ELSE Fail
  BY DEF ParseIndex
<1>4. r = Got(es, <<>>)
  BY <1>2
<1> HIDE DEF r
<1>5. r.ok /\ r.val = es /\ r.rest = <<>>
  BY <1>4, Parts
<1> QED
  BY <1>1, <1>3, <1>5

LEMMA IndexRead ==
  ASSUME NEW buf, ParseIndex(buf).ok
  PROVE  LET entries == Repeat(ReadEntry, ReadU32(buf).val, ReadU32(buf).rest)
         IN  /\ ReadU32(buf).ok /\ entries.ok /\ entries.rest = <<>>
             /\ ParseIndex(buf) = Got(entries.val, <<>>)
<1> DEFINE r == Repeat(ReadEntry, ReadU32(buf).val, ReadU32(buf).rest)
<1>1. ParseIndex(buf) = IF ReadU32(buf).ok /\ r.ok /\ r.rest = <<>> THEN Got(r.val, <<>>) ELSE Fail
  BY DEF ParseIndex
<1> HIDE DEF r
<1>2. ReadU32(buf).ok /\ r.ok /\ r.rest = <<>>
  BY <1>1, Parts
<1>3. ParseIndex(buf) = Got(r.val, <<>>)
  BY <1>1, <1>2
<1> QED
  BY <1>2, <1>3, Zenon DEF r

(***************************************************************************)
(* Every index that serialize_index writes, parse_index reads back, entry  *)
(* for entry and in the same order, however many there are; the state 255  *)
(* alone comes back as the tombstone it stands for.                        *)
(***************************************************************************)
THEOREM IndexRoundTrip ==
  ASSUME NEW entries \in Seq(Entries), Len(entries) \in U32,
         \A i \in DOMAIN entries : ValidEntry(entries[i])
  PROVE  /\ SerializeIndex(entries) \in Bytes
         /\ ParseIndex(SerializeIndex(entries))
              = Got([i \in DOMAIN entries |-> Normal(entries[i])], <<>>)
<1> DEFINE n  == Len(entries)
           ws == [i \in DOMAIN entries |-> PushEntry(Normal(entries[i]))]
           xs == [i \in DOMAIN entries |-> Normal(entries[i])]
<1>1. n \in Nat /\ DOMAIN entries = 1 .. n /\ \A i \in 1 .. n : entries[i] \in Entries
  OBVIOUS
<1>2. ASSUME NEW i \in 1 .. n
      PROVE  /\ PushEntry(Normal(entries[i])) \in Bytes /\ Normal(entries[i]) \in Entries
             /\ \A b \in Bytes : EntryReader[PushEntry(Normal(entries[i])) \o b] = Got(Normal(entries[i]), b)
  <2> DEFINE e == entries[i]
  <2>1. e \in Entries /\ ValidEntry(e)
    BY <1>1
  <2> HIDE DEF e
  <2>2. Normal(e) \in Entries /\ ValidEntry(Normal(e)) /\ Normal(Normal(e)) = Normal(e)
    BY <2>1, NormalIs
  <2>3. PushEntry(Normal(e)) \in Bytes
    BY <2>2, EntryBack, NoBytes
  <2>4. ASSUME NEW b \in Bytes PROVE EntryReader[PushEntry(Normal(e)) \o b] = Got(Normal(e), b)
    <3>1. ReadEntry(PushEntry(Normal(e)) \o b) = Got(Normal(e), b)
      BY <2>2, EntryBack
    <3>2. PushEntry(Normal(e)) \o b \in Bytes
      BY <2>3, Joins
    <3> QED
      BY <3>1, <3>2 DEF EntryReader
  <2> QED
    BY <2>2, <2>3, <2>4 DEF e
<1>3. /\ ws \in Seq(Bytes) /\ Len(ws) = n /\ xs \in Seq(Entries) /\ Len(xs) = n
      /\ \A i \in 1 .. n : ws[i] = PushEntry(Normal(entries[i])) /\ xs[i] = Normal(entries[i])
  BY <1>1, <1>2
<1>4. SerializeIndex(entries) = Be32(n) \o FlattenSeq(ws)
  BY DEF SerializeIndex
<1> HIDE DEF ws, n
<1>5. \A i \in 1 .. n : \A b \in Bytes : EntryReader[ws[i] \o b] = Got(xs[i], b)
  BY <1>2, <1>3
<1> HIDE DEF xs
<1>6. /\ FlattenSeq(ws) \in Bytes /\ Be32(n) \in Bytes /\ FlattenSeq(ws) \o <<>> = FlattenSeq(ws)
      /\ n \in U32
  BY <1>3, FlattenIn, Number32, NothingBefore DEF n
<1>7. SerializeIndex(entries) \in Bytes /\ ReadU32(SerializeIndex(entries)) = Got(n, FlattenSeq(ws))
  BY <1>4, <1>6, Joins, U32Back
<1>8. PICK u : /\ IsRun(u, EntryReader, Entries, n, FlattenSeq(ws))
               /\ Repeat(ReadEntry, n, FlattenSeq(ws)) = u[n]
  BY <1>1, <1>6, RepeatEntries
<1>9. u[n] = Got(xs, <<>>)
  <2> DEFINE none == <<>>
  <2>1. IsRun(u, EntryReader, Entries, n, FlattenSeq(ws) \o none) /\ none \in Bytes
    BY <1>6, <1>8, NoBytes
  <2> HIDE DEF none
  <2>2. ReadsBack(EntryReader, ws, xs)
    BY <1>3, <1>5 DEF ReadsBack
  <2>3. ws \in Seq(Bytes) /\ xs \in Seq(Entries) /\ Len(ws) = n
    BY <1>3
  <2>4. u[n] = Got(xs, none)
    BY <1>1, <2>1, <2>2, <2>3, RunBack
  <2> QED
    BY <2>4 DEF none
<1>10. ParseIndex(SerializeIndex(entries)) = Got(xs, <<>>)
  BY <1>7, <1>8, <1>9, IndexGot
<1> QED
  BY <1>7, <1>10 DEF xs

(***************************************************************************)
(* parse_index accepts nothing but a list of valid entries, one behind the *)
(* other to the end of the buffer, and returns these entries: there is no  *)
(* slack in the index for two readers to take in two ways, and no entry of *)
(* it is left out.                                                         *)
(***************************************************************************)
THEOREM IndexCanonical ==
  ASSUME NEW buf \in Bytes, ParseIndex(buf).ok
  PROVE  \E entries \in Seq(Entries) :
           /\ Len(entries) \in U32 /\ \A i \in DOMAIN entries : ValidEntry(entries[i])
           /\ ParseIndex(buf) = Got([i \in DOMAIN entries |-> Normal(entries[i])], <<>>)
           /\ buf = Be32(Len(entries)) \o FlattenSeq([i \in DOMAIN entries |-> PushEntry(entries[i])])
<1> DEFINE r == Repeat(ReadEntry, ReadU32(buf).val, ReadU32(buf).rest)
<1>1. ReadU32(buf).ok /\ r.ok /\ r.rest = <<>> /\ ParseIndex(buf) = Got(r.val, <<>>)
  BY IndexRead, Zenon
<1>2. PICK n \in U32, left \in Bytes : ReadU32(buf) = Got(n, left) /\ buf = Be32(n) \o left
  BY <1>1, U32Split
<1>3. n \in Nat
  BY DEF U32, Below
<1>4. r = Repeat(ReadEntry, n, left)
  <2>1. ReadU32(buf).val = n /\ ReadU32(buf).rest = left
    BY <1>2, Parts
  <2> QED
    BY <2>1
<1>5. PICK u : IsRun(u, EntryReader, Entries, n, left) /\ Repeat(ReadEntry, n, left) = u[n]
  BY <1>3, RepeatEntries
<1> HIDE DEF r
<1>6. r = u[n]
  BY <1>4, <1>5
<1>7. PICK ws \in Seq(Bytes) :
        /\ Len(ws) = n /\ Len(r.val) = n /\ left = FlattenSeq(ws) \o r.rest
        /\ \A i \in 1 .. n : <<ws[i], r.val[i]>> \in EntryWriting
  <2>1. u[n].ok
    BY <1>1, <1>6
  <2>2. \E ws \in Seq(Bytes) :
          /\ Len(ws) = n /\ Len(u[n].val) = n /\ left = FlattenSeq(ws) \o u[n].rest
          /\ \A i \in 1 .. n : <<ws[i], u[n].val[i]>> \in EntryWriting
    <3>1. IsReader(EntryReader, Entries) /\ IsWriting(EntryReader, EntryWriting)
      BY EntryReaderIs
    <3>2. IsRun(u, EntryReader, Entries, n, left)
      BY <1>5
    <3> QED
      BY <1>3, <2>1, <3>1, <3>2, RunSplit
  <2> QED
    BY <1>6, <2>2
<1>8. \A i \in 1 .. n : \E e \in Entries :
        ValidEntry(e) /\ ws[i] = PushEntry(e) /\ r.val[i] = Normal(e)
  BY <1>7 DEF EntryWriting
<1> DEFINE es == [i \in 1 .. n |-> CHOOSE e \in Entries :
                    ValidEntry(e) /\ ws[i] = PushEntry(e) /\ r.val[i] = Normal(e)]
<1>9. \A i \in 1 .. n : /\ es[i] \in Entries /\ ValidEntry(es[i])
                        /\ ws[i] = PushEntry(es[i]) /\ r.val[i] = Normal(es[i])
  BY <1>8
<1>10. es \in Seq(Entries) /\ Len(es) = n /\ DOMAIN es = 1 .. n
  BY <1>3, <1>9
<1> HIDE DEF es
<1>11. ws = [i \in 1 .. n |-> PushEntry(es[i])]
  <2>1. ws = [i \in 1 .. n |-> ws[i]]
    BY <1>7, LenProperties
  <2> QED
    BY <1>9, <2>1
<1>12. r.val = [i \in 1 .. n |-> Normal(es[i])]
  <2>1. r.val \in Seq(Entries)
    <3>1. u[n] \in Readings(Entries)
      BY <1>3, <1>5 DEF IsRun
    <3> QED
      BY <1>6, <3>1 DEF Readings
  <2>2. r.val = [i \in 1 .. n |-> r.val[i]]
    BY <1>7, <2>1, LenProperties
  <2> QED
    BY <1>9, <2>2
<1>13. buf = Be32(n) \o FlattenSeq(ws)
  BY <1>1, <1>2, <1>7, FlattenIn, NothingBefore
<1>14. ParseIndex(buf) = Got([i \in DOMAIN es |-> Normal(es[i])], <<>>)
  BY <1>1, <1>10, <1>12
<1>15. buf = Be32(Len(es)) \o FlattenSeq([i \in DOMAIN es |-> PushEntry(es[i])])
  BY <1>10, <1>11, <1>13
<1>16. Len(es) \in U32 /\ \A i \in DOMAIN es : ValidEntry(es[i])
  BY <1>9, <1>10
<1> QED
  BY <1>10, <1>14, <1>15, <1>16, Zenon

-----------------------------------------------------------------------------
(* Frames *)

LEMMA U32AtBack ==
  ASSUME NEW a \in Bytes, NEW k, Len(a) = k, NEW n \in U32, NEW b \in Bytes
  PROVE  U32At(a \o (Be32(n) \o b), k) = Got(n, b)
<1>1. Be32(n) \in Bytes /\ Be32(n) \o b \in Bytes
  BY Number32, Joins
<1>2. Take(a \o (Be32(n) \o b), k) = Got(a, Be32(n) \o b)
  BY <1>1, TakeBack
<1>3. Take(a \o (Be32(n) \o b), k).rest = Be32(n) \o b
  <2> DEFINE c == Be32(n) \o b
             t == Take(a \o c, k)
  <2>1. t = Got(a, c)
    BY <1>2
  <2> HIDE DEF c, t
  <2>2. t.rest = c
    BY <2>1, Parts
  <2> QED
    BY <2>2 DEF c, t
<1>4. ReadU32(Be32(n) \o b) = Got(n, b)
  BY U32Back
<1> QED
  BY <1>3, <1>4 DEF U32At

LEMMA U32AtSplit ==
  ASSUME NEW buf \in Bytes, NEW k \in Nat, U32At(buf, k).ok
  PROVE  \E a \in Bytes, n \in U32, b \in Bytes :
           U32At(buf, k) = Got(n, b) /\ Len(a) = k /\ buf = a \o (Be32(n) \o b)
<1>1. Take(buf, k).ok
  <2>1. CASE Take(buf, k) = Fail
    <3>1. U32At(buf, k) = ReadU32(<<>>)
      BY <2>1, Parts DEF U32At
    <3> QED
      BY <3>1, Stuck
  <2>2. CASE Take(buf, k) # Fail
    BY <2>2 DEF Take, Got
  <2> QED
    BY <2>1, <2>2
<1>2. PICK a \in Bytes, c \in Bytes : Take(buf, k) = Got(a, c) /\ Len(a) = k /\ buf = a \o c
  BY <1>1, TakeSplit
<1>3. U32At(buf, k) = ReadU32(c)
  BY <1>2, Parts DEF U32At
<1>4. PICK n \in U32, b \in Bytes : ReadU32(c) = Got(n, b) /\ c = Be32(n) \o b
  BY <1>3, U32Split
<1> QED
  BY <1>2, <1>3, <1>4

LEMMA FrameParts ==
  ASSUME NEW nonce \in Of(NonceLen), NEW ct \in Bytes, Len(ct) \in U32, NEW tagLen \in Nat,
         NEW tag \in Of(tagLen)
  PROVE  /\ nonce \in Bytes /\ tag \in Bytes /\ Be32(Len(ct)) \in Bytes
         /\ Frame(nonce, ct, tag) = Cat(nonce, Cat(Be32(Len(ct)), Cat(ct, tag)))
         /\ Frame(nonce, ct, tag) \in Bytes
         /\ Len(Frame(nonce, ct, tag)) = NonceLen + 4 + Len(ct) + tagLen
<1>1. nonce \in Bytes /\ tag \in Bytes /\ Len(nonce) = NonceLen /\ Len(tag) = tagLen
  BY DEF Of
<1>2. Be32(Len(ct)) \in Bytes /\ Len(Be32(Len(ct))) = 4
  BY Number32
<1>3. PushBytes(ct) = Cat(Be32(Len(ct)), ct)
  BY Zenon DEF PushBytes, Cat
<1>4. Frame(nonce, ct, tag) = Cat(nonce, Cat(PushBytes(ct), tag))
  BY Zenon DEF Frame, Cat
<1>5. Frame(nonce, ct, tag) = Cat(nonce, Cat(Be32(Len(ct)), Cat(ct, tag)))
  BY <1>1, <1>2, <1>3, <1>4, Regrouped
<1>6. Cat(ct, tag) \in Bytes /\ Len(Cat(ct, tag)) = Len(ct) + tagLen
  BY <1>1, Cats, Lens
<1> DEFINE c == Cat(ct, tag)
           d == Cat(Be32(Len(ct)), c)
<1>7. d \in Bytes /\ Len(d) = 4 + (Len(ct) + tagLen)
  <2> HIDE DEF c
  <2> QED
    BY <1>2, <1>6, Cats, Lens DEF c
<1>8. Cat(nonce, d) \in Bytes /\ Len(Cat(nonce, d)) = NonceLen + (4 + (Len(ct) + tagLen))
  <2> HIDE DEF d
  <2> QED
    <3>1. Cat(nonce, d) \in Bytes /\ Len(Cat(nonce, d)) = Len(nonce) + Len(d)
      BY <1>1, <1>7, Cats, Lens
    <3> QED
      BY <1>1, <1>7, <3>1, Zenon
<1>9. Len(ct) \in Nat /\ NonceLen \in Nat
  BY LenProperties DEF Bytes, NonceLen
<1>10. NonceLen + (4 + (Len(ct) + tagLen)) = NonceLen + 4 + Len(ct) + tagLen
  BY <1>9
<1> QED
  BY <1>1, <1>2, <1>5, <1>8, <1>10, Zenon

LEMMA FrameBack ==
  ASSUME NEW tagLen \in Nat, NEW frame \in FramesOf(tagLen), NEW b \in Bytes
  PROVE  frame \in Bytes /\ ReadFrame(frame \o b, tagLen) = Got(frame, b)
<1>1. PICK nonce \in Of(NonceLen), ct \in Bytes, tag \in Of(tagLen) :
        frame = Frame(nonce, ct, tag) /\ Len(ct) \in U32
  BY DEF FramesOf
<1>2. /\ nonce \in Bytes /\ tag \in Bytes /\ Be32(Len(ct)) \in Bytes /\ Len(nonce) = NonceLen
      /\ frame = Cat(nonce, Cat(Be32(Len(ct)), Cat(ct, tag)))
      /\ frame \in Bytes /\ Len(frame) = NonceLen + 4 + Len(ct) + tagLen
  BY <1>1, FrameParts DEF Of
<1> DEFINE c == Cat(ct, tag)
           left == Cat(c, b)
<1>3. c \in Bytes /\ left \in Bytes
  BY <1>2, Cats
<1>4. frame \o b = nonce \o (Be32(Len(ct)) \o left)
  <2> HIDE DEF c
  <2>1. Cat(Cat(nonce, Cat(Be32(Len(ct)), c)), b) = Cat(nonce, Cat(Cat(Be32(Len(ct)), c), b))
    BY <1>2, <1>3, Cats, Regrouped
  <2>2. Cat(Cat(Be32(Len(ct)), c), b) = Cat(Be32(Len(ct)), Cat(c, b))
    BY <1>2, <1>3, Regrouped
  <2>3. Cat(frame, b) = Cat(nonce, Cat(Be32(Len(ct)), left))
    BY <1>2, <2>1, <2>2, Zenon DEF c
  <2> HIDE DEF left
  <2> QED
    BY <2>3, Zenon DEF Cat
<1> HIDE DEF c, left
<1>5. U32At(frame \o b, NonceLen) = Got(Len(ct), left)
  BY <1>1, <1>2, <1>3, <1>4, U32AtBack
<1>6. U32At(frame \o b, NonceLen).ok /\ U32At(frame \o b, NonceLen).val = Len(ct)
  BY <1>5, Parts
<1>7. Take(frame \o b, NonceLen + 4 + Len(ct) + tagLen) = Got(frame, b)
  BY <1>2, TakeBack
<1> QED
  BY <1>2, <1>6, <1>7 DEF ReadFrame

LEMMA FrameSplit ==
  ASSUME NEW tagLen \in Nat, NEW buf \in Bytes, ReadFrame(buf, tagLen).ok
  PROVE  \E frame \in FramesOf(tagLen) : \E rest \in Bytes :
           ReadFrame(buf, tagLen) = Got(frame, rest) /\ buf = frame \o rest
<1>1. /\ U32At(buf, NonceLen).ok
      /\ ReadFrame(buf, tagLen) = Take(buf, NonceLen + 4 + U32At(buf, NonceLen).val + tagLen)
  BY Parts DEF ReadFrame
<1>2. NonceLen \in Nat
  BY DEF NonceLen
<1>3. PICK nonce \in Bytes, n \in U32, b \in Bytes :
        U32At(buf, NonceLen) = Got(n, b) /\ Len(nonce) = NonceLen /\ buf = nonce \o (Be32(n) \o b)
  BY <1>1, <1>2, U32AtSplit
<1>4. U32At(buf, NonceLen).val = n /\ n \in Nat
  BY <1>3, Parts DEF U32, Below
<1> DEFINE k == NonceLen + 4 + n + tagLen
<1>5. k \in Nat /\ Take(buf, k).ok /\ ReadFrame(buf, tagLen) = Take(buf, k)
  BY <1>1, <1>2, <1>4
<1>6. PICK v \in Bytes, rest \in Bytes : Take(buf, k) = Got(v, rest) /\ Len(v) = k /\ buf = v \o rest
  BY <1>5, TakeSplit
<1> DEFINE front == Cat(nonce, Be32(n))
<1>7. /\ front \in Bytes /\ Len(front) = NonceLen + 4 /\ buf = Cat(front, b) /\ Be32(n) \in Bytes
  <2>1. Be32(n) \in Bytes /\ Len(Be32(n)) = 4
    BY Number32
  <2>2. Cat(front, b) = Cat(nonce, Cat(Be32(n), b))
    BY <2>1, Regrouped
  <2>3. buf = Cat(nonce, Cat(Be32(n), b))
    BY <1>3, Zenon DEF Cat
  <2>4. front \in Bytes /\ Len(front) = Len(nonce) + Len(Be32(n))
    BY <2>1, Cats, Lens
  <2> HIDE DEF front
  <2> QED
    BY <1>3, <2>1, <2>2, <2>3, <2>4, Zenon
<1> HIDE DEF k
<1>8. Len(buf) = Len(front) + Len(b) /\ Len(buf) = k + Len(rest) /\ Len(b) \in Nat /\ Len(rest) \in Nat
  BY <1>6, <1>7, Lens DEF Cat
<1>9. n + tagLen <= Len(b)
  BY <1>2, <1>4, <1>7, <1>8 DEF k
<1>10. PICK ct \in Bytes, c \in Bytes : b = Cat(ct, c) /\ Len(ct) = n
  <2>1. Take(b, n).ok
    BY <1>4, <1>8, <1>9, Parts DEF Take
  <2> QED
    BY <1>4, <2>1, TakeSplit DEF Cat
<1>11. PICK tag \in Bytes, d \in Bytes : c = Cat(tag, d) /\ Len(tag) = tagLen
  <2>1. Len(c) \in Nat /\ Len(b) = n + Len(c)
    BY <1>10, Lens
  <2>2. Take(c, tagLen).ok
    BY <1>4, <1>9, <2>1, Parts DEF Take
  <2> QED
    BY <2>2, TakeSplit, SMTT(40) DEF Cat
<1> DEFINE frame == Frame(nonce, ct, tag)
<1>12. nonce \in Of(NonceLen) /\ tag \in Of(tagLen) /\ Len(ct) \in U32 /\ Len(ct) = n
  BY <1>3, <1>10, <1>11 DEF Of
<1>13. frame \in FramesOf(tagLen)
  BY <1>12 DEF FramesOf
<1>14. /\ frame = Cat(nonce, Cat(Be32(n), Cat(ct, tag)))
       /\ frame \in Bytes /\ Len(frame) = k
  BY <1>12, FrameParts DEF k
<1>15. buf = Cat(frame, d)
  <2>1. b = Cat(Cat(ct, tag), d)
    BY <1>10, <1>11, Regrouped
  <2> DEFINE w == Cat(ct, tag)
  <2>2. w \in Bytes
    BY <1>11, Cats
  <2> HIDE DEF w
  <2>3. buf = Cat(nonce, Cat(Be32(n), Cat(w, d)))
    BY <1>3, <2>1, Zenon DEF Cat, w
  <2>4. Cat(Be32(n), Cat(w, d)) = Cat(Cat(Be32(n), w), d) /\ Cat(Be32(n), w) \in Bytes
    BY <1>7, <2>2, Regrouped, Cats
  <2>5. Cat(nonce, Cat(Cat(Be32(n), w), d)) = Cat(Cat(nonce, Cat(Be32(n), w)), d)
    BY <2>4, Regrouped
  <2> QED
    BY <1>14, <2>3, <2>4, <2>5, Zenon DEF w
<1> HIDE DEF frame
<1>16. Take(buf, k) = Got(frame, d)
  BY <1>14, <1>15, TakeBack DEF Cat
<1> QED
  BY <1>5, <1>13, <1>15, <1>16 DEF Cat

\* What ReadFrame makes of each buffer, and what it makes it of.
FrameReader(tagLen)  == [b \in Bytes |-> ReadFrame(b, tagLen)]
FrameWriting(tagLen) == {<<f, f>> : f \in FramesOf(tagLen)}

LEMMA FrameReaderIs ==
  ASSUME NEW tagLen \in Nat
  PROVE  IsReader(FrameReader(tagLen), Bytes) /\ IsWriting(FrameReader(tagLen), FrameWriting(tagLen))
<1> DEFINE R == FrameReader(tagLen)
<1>1. \A b \in Bytes : R[b] = ReadFrame(b, tagLen)
  BY DEF FrameReader
<1>2. ASSUME NEW b \in Bytes
      PROVE  /\ ReadFrame(b, tagLen).ok \in BOOLEAN /\ ReadFrame(b, tagLen).rest \in Bytes
             /\ ReadFrame(b, tagLen).ok => ReadFrame(b, tagLen).val \in Bytes
  <2>1. ReadFrame(b, tagLen) = Fail \/ ReadFrame(b, tagLen).ok = TRUE
    BY DEF ReadFrame, Take, Got
  <2>2. CASE ReadFrame(b, tagLen) = Fail
    <3>1. ~Fail.ok /\ Fail.ok \in BOOLEAN /\ Fail.rest \in Bytes
      BY DEF Fail, Bytes
    <3> QED
      BY <2>2, <3>1
  <2>3. CASE ReadFrame(b, tagLen).ok = TRUE
    <3>1. PICK f \in FramesOf(tagLen), rest \in Bytes : ReadFrame(b, tagLen) = Got(f, rest)
      BY <2>3, FrameSplit
    <3>2. f \in Bytes
      BY FrameBack, NoBytes
    <3> QED
      BY <3>1, <3>2 DEF Got
  <2> QED
    BY <2>1, <2>2, <2>3
<1>3. ASSUME NEW b \in Bytes, ReadFrame(b, tagLen).ok
      PROVE  \E w \in Bytes : \E rest \in Bytes :
               /\ ReadFrame(b, tagLen).rest = rest /\ b = w \o rest
               /\ <<w, ReadFrame(b, tagLen).val>> \in FrameWriting(tagLen)
  <2>1. PICK f \in FramesOf(tagLen), rest \in Bytes :
          ReadFrame(b, tagLen) = Got(f, rest) /\ b = f \o rest
    BY <1>3, FrameSplit
  <2>2. f \in Bytes
    BY FrameBack, NoBytes
  <2>3. ReadFrame(b, tagLen).rest = rest /\ ReadFrame(b, tagLen).val = f
    BY <2>1, Parts
  <2>4. <<f, f>> \in FrameWriting(tagLen)
    BY DEF FrameWriting
  <2> QED
    BY <2>1, <2>2, <2>3, <2>4
<1> HIDE DEF R
<1>4. IsReader(R, Bytes)
  BY <1>1, <1>2, Zenon DEF IsReader
<1>5. IsWriting(R, FrameWriting(tagLen))
  BY <1>1, <1>3, Zenon DEF IsWriting
<1> QED
  BY <1>4, <1>5 DEF R

\* The function that Repeat defines, for frames.
RepeatingFrames(count, buf, tagLen, f) ==
  [n \in 0 .. count |->
     IF n = 0 THEN Got(<<>>, buf)
     ELSE LET next == ReadFrame(f[n - 1].rest, tagLen)
          IN  IF f[n - 1].ok /\ next.ok
              THEN Got(Append(f[n - 1].val, next.val), next.rest) ELSE Fail]

LEMMA FramesRound ==
  ASSUME NEW count \in Nat, NEW buf, NEW tagLen, NEW f
  PROVE  IsRound(RepeatingFrames(count, buf, tagLen, f), f, FrameReader(tagLen), Bytes, count, buf)
<1> DEFINE g == RepeatingFrames(count, buf, tagLen, f)
           R == FrameReader(tagLen)
<1>1. g = [n \in 0 .. count |-> g[n]]
  BY DEF RepeatingFrames
<1>2. g[0] = Got(<<>>, buf)
  BY DEF RepeatingFrames
<1>3. ASSUME NEW n \in 1 .. count, f[n - 1] \in Readings(Bytes) PROVE g[n] = Turn(R, f[n - 1])
  <2> DEFINE x == f[n - 1]
  <2>1. g[n] = IF x.ok /\ ReadFrame(x.rest, tagLen).ok
               THEN Got(Append(x.val, ReadFrame(x.rest, tagLen).val), ReadFrame(x.rest, tagLen).rest)
               ELSE Fail
    BY DEF RepeatingFrames
  <2>2. x.rest \in Bytes
    BY <1>3 DEF Readings
  <2> HIDE DEF g, x
  <2>3. R[x.rest] = ReadFrame(x.rest, tagLen)
    BY <2>2 DEF FrameReader
  <2> HIDE DEF R
  <2>4. g[n] = Turn(R, x)
    BY <2>1, <2>3, Zenon DEF Turn
  <2> QED
    BY <2>4 DEF x
<1> HIDE DEF g, R
<1>4. IsRound(g, f, R, Bytes, count, buf)
  BY <1>1, <1>2, <1>3 DEF IsRound
<1> QED
  BY <1>4 DEF g, R

LEMMA RepeatFrames ==
  ASSUME NEW count \in Nat, NEW buf \in Bytes, NEW tagLen \in Nat
  PROVE  \E u : IsRun(u, FrameReader(tagLen), Bytes, count, buf) /\ ReadFrames(buf, count, tagLen) = u[count]
<1>1. PICK r : IsRun(r, FrameReader(tagLen), Bytes, count, buf)
  BY FrameReaderIs, RunExists
<1> DEFINE u == CHOOSE f : f = RepeatingFrames(count, buf, tagLen, f)
<1>2. r = RepeatingFrames(count, buf, tagLen, r)
  BY <1>1, FramesRound, RunFixed
<1>3. u = RepeatingFrames(count, buf, tagLen, u)
  BY <1>2
<1>4. ReadFrames(buf, count, tagLen) = u[count]
  BY DEF ReadFrames, Repeat, RepeatingFrames
<1> HIDE DEF u
<1>5. IsRound(u, u, FrameReader(tagLen), Bytes, count, buf)
  <2>1. IsRound(RepeatingFrames(count, buf, tagLen, u), u, FrameReader(tagLen), Bytes, count, buf)
    BY FramesRound
  <2> QED
    BY <1>3, <2>1
<1>6. u[count] = r[count]
  BY <1>1, <1>5, RunUnique
<1> QED
  BY <1>1, <1>4, <1>6

LEMMA FramesBack ==
  ASSUME NEW tagLen \in Nat, NEW frames \in Seq(FramesOf(tagLen)), NEW count \in Nat, Len(frames) = count
  PROVE  /\ frames \in Seq(Bytes) /\ FlattenSeq(frames) \in Bytes
         /\ ReadFrames(FlattenSeq(frames), count, tagLen) = Got(frames, <<>>)
<1> DEFINE R == FrameReader(tagLen)
<1>1. FramesOf(tagLen) \subseteq Bytes
  BY FrameBack, NoBytes
<1>2. frames \in Seq(Bytes) /\ \A i \in 1 .. count : frames[i] \in FramesOf(tagLen)
  <2>1. frames \in Seq(Bytes)
    BY <1>1, SeqMonotonic
  <2> QED
    BY <2>1, ElementOfSeq
<1>3. FlattenSeq(frames) \in Bytes
  BY <1>2, FlattenIn
<1>4. PICK u : IsRun(u, R, Bytes, count, FlattenSeq(frames))
               /\ ReadFrames(FlattenSeq(frames), count, tagLen) = u[count]
  BY <1>3, RepeatFrames
<1>6. ASSUME NEW i \in 1 .. Len(frames), NEW b \in Bytes PROVE R[frames[i] \o b] = Got(frames[i], b)
  <2> DEFINE f == frames[i]
  <2>1. f \in FramesOf(tagLen)
    BY <1>2
  <2> HIDE DEF f
  <2>2. f \in Bytes /\ ReadFrame(f \o b, tagLen) = Got(f, b) /\ f \o b \in Bytes
    BY <2>1, FrameBack, Joins
  <2>3. R[f \o b] = Got(f, b)
    BY <2>2 DEF FrameReader
  <2> QED
    BY <2>3 DEF f
<1>7. ReadsBack(R, frames, frames)
  BY <1>6, Zenon DEF ReadsBack
<1> HIDE DEF R
<1>9. u[count] = Got(frames, <<>>)
  <2> DEFINE none == <<>>
             ws == frames
             xs == frames
             X == Bytes
  <2>1. FlattenSeq(frames) \o none = FlattenSeq(frames) /\ none \in Bytes
    BY <1>3, NothingBefore, NoBytes
  <2> HIDE DEF none
  <2>2. IsRun(u, R, X, count, FlattenSeq(ws) \o none)
    BY <1>4, <2>1
  <2>3. ReadsBack(R, ws, xs)
    BY <1>7
  <2>4. ws \in Seq(Bytes) /\ xs \in Seq(X) /\ Len(ws) = count
    BY <1>2
  <2> HIDE DEF ws, xs, X
  <2>5. u[count] = Got(xs, none)
    BY <2>1, <2>2, <2>3, <2>4, RunBack
  <2> QED
    BY <2>5 DEF none, xs
<1> QED
  BY <1>2, <1>3, <1>4, <1>9

LEMMA FramesRead ==
  ASSUME NEW tagLen \in Nat, NEW count \in Nat, NEW buf \in Bytes,
         ReadFrames(buf, count, tagLen).ok, ReadFrames(buf, count, tagLen).rest = <<>>
  PROVE  \E frames \in Seq(FramesOf(tagLen)) :
           /\ Len(frames) = count /\ buf = FlattenSeq(frames)
           /\ ReadFrames(buf, count, tagLen).val = frames
<1> DEFINE r == ReadFrames(buf, count, tagLen)
<1>1. PICK u : IsRun(u, FrameReader(tagLen), Bytes, count, buf) /\ r = u[count]
  BY RepeatFrames
<1>2. r.ok /\ r.rest = <<>>
  OBVIOUS
<1> HIDE DEF r
<1>3. \E ws \in Seq(Bytes) :
        /\ Len(ws) = count /\ Len(u[count].val) = count /\ buf = FlattenSeq(ws) \o u[count].rest
        /\ \A i \in 1 .. count : <<ws[i], u[count].val[i]>> \in FrameWriting(tagLen)
  <2>1. u[count].ok
    BY <1>1, <1>2
  <2>2. IsReader(FrameReader(tagLen), Bytes) /\ IsWriting(FrameReader(tagLen), FrameWriting(tagLen))
    BY FrameReaderIs
  <2>3. IsRun(u, FrameReader(tagLen), Bytes, count, buf)
    BY <1>1
  <2> QED
    BY <2>1, <2>2, <2>3, RunSplit
<1>4. PICK ws \in Seq(Bytes) :
        /\ Len(ws) = count /\ Len(r.val) = count /\ buf = FlattenSeq(ws) \o r.rest
        /\ \A i \in 1 .. count : <<ws[i], r.val[i]>> \in FrameWriting(tagLen)
  BY <1>1, <1>3
<1>5. \A i \in 1 .. count : ws[i] \in FramesOf(tagLen) /\ r.val[i] = ws[i]
  BY <1>4 DEF FrameWriting
<1>6. ws \in Seq(FramesOf(tagLen))
  <2>1. ws = [i \in 1 .. count |-> ws[i]]
    BY <1>4, LenProperties
  <2> QED
    BY <1>5, <2>1
<1>7. r.val = ws
  <2>1. r.val \in Seq(Bytes)
    <3>1. u[count] \in Readings(Bytes)
      BY <1>1 DEF IsRun
    <3> QED
      BY <1>1, <3>1 DEF Readings
  <2> QED
    BY <1>4, <1>5, <2>1, SeqEqual
<1>8. buf = FlattenSeq(ws)
  BY <1>2, <1>4, FlattenIn, NothingBefore
<1> QED
  BY <1>4, <1>6, <1>7, <1>8 DEF r

\* Two ways to cut the same bytes: the longer front has the shorter one as its front.
LEMMA Overlap ==
  ASSUME NEW p \in Bytes, NEW x \in Bytes, NEW q \in Bytes, NEW y \in Bytes,
         Cat(p, x) = Cat(q, y), Len(p) <= Len(q)
  PROVE  \E w \in Bytes : q = Cat(p, w) /\ x = Cat(w, y) /\ Len(w) = Len(q) - Len(p)
<1>1. /\ Len(p) + Len(x) = Len(q) + Len(y)
      /\ Len(p) \in Nat /\ Len(q) \in Nat /\ Len(x) \in Nat /\ Len(y) \in Nat
  <2>1. Len(Cat(p, x)) = Len(p) + Len(x) /\ Len(Cat(q, y)) = Len(q) + Len(y)
    BY Lens
  <2> QED
    BY <2>1, Lens
<1> DEFINE k == Len(q) - Len(p)
<1>2. k \in Nat /\ Take(x, k).ok
  BY <1>1, Parts DEF Take
<1> HIDE DEF k
<1>3. PICK w \in Bytes, z \in Bytes : Len(w) = k /\ x = w \o z
  BY <1>2, TakeSplit
<1>4. x = Cat(w, z) /\ Cat(p, w) \in Bytes /\ Len(Cat(p, w)) = Len(q)
  BY <1>1, <1>3, Cats, Lens DEF Cat, k
<1>5. Cat(Cat(p, w), z) = Cat(q, y)
  <2>1. Cat(Cat(p, w), z) = Cat(p, Cat(w, z))
    BY Regrouped
  <2> QED
    BY <1>4, <2>1
<1>6. Got(Cat(p, w), z) = Got(q, y)
  <2> DEFINE v == Cat(p, w)
  <2>1. v \in Bytes /\ Len(v) = Len(q) /\ Cat(v, z) = Cat(q, y)
    BY <1>4, <1>5
  <2> HIDE DEF v
  <2>2. Take(Cat(v, z), Len(v)) = Got(v, z)
    BY <2>1, TakeBack DEF Cat
  <2>3. Take(Cat(q, y), Len(q)) = Got(q, y)
    BY TakeBack DEF Cat
  <2>4. Got(v, z) = Got(q, y)
    BY <2>1, <2>2, <2>3
  <2> QED
    BY <2>4 DEF v
<1>7. Cat(p, w) = q /\ z = y
  <2> DEFINE v == Cat(p, w)
  <2>1. Got(v, z) = Got(q, y)
    BY <1>6
  <2> HIDE DEF v
  <2>2. v = q /\ z = y
    BY <2>1, Parts
  <2> QED
    BY <2>2 DEF v
<1> QED
  BY <1>3, <1>4, <1>7 DEF k

LEMMA Cuts ==
  ASSUME NEW a \in Bytes, NEW b \in Bytes, NEW c \in Bytes, NEW d \in Bytes, NEW e \in Bytes,
         NEW z \in Bytes
  PROVE  LET ab   == Cat(a, b)
             abc  == Cat(ab, c)
             abcd == Cat(abc, d)
             raw  == Cat(a, Cat(b, Cat(c, Cat(d, Cat(e, z)))))
         IN  /\ raw \in Bytes /\ ab \in Bytes /\ abc \in Bytes /\ abcd \in Bytes /\ Cat(abcd, e) \in Bytes
             /\ Cat(e, z) \in Bytes /\ Cat(c, Cat(d, Cat(e, z))) \in Bytes
             /\ raw = Cat(ab, Cat(c, Cat(d, Cat(e, z))))
             /\ raw = Cat(abc, Cat(d, Cat(e, z)))
             /\ raw = Cat(Cat(abcd, e), z)
<1>1. Cat(e, z) \in Bytes /\ Cat(d, Cat(e, z)) \in Bytes /\ Cat(c, Cat(d, Cat(e, z))) \in Bytes
  BY Cats
<1> DEFINE ab == Cat(a, b)
           abc == Cat(ab, c)
           abcd == Cat(abc, d)
           f == Cat(e, z)
           g == Cat(d, f)
           h == Cat(c, g)
           raw == Cat(a, Cat(b, h))
<1>2. f \in Bytes /\ g \in Bytes /\ h \in Bytes
  BY <1>1
<1>3. ab \in Bytes
  BY Cats
<1>4. abc \in Bytes
  <2> HIDE DEF ab
  <2> QED
    BY <1>3, Cats
<1>5. abcd \in Bytes
  <2> HIDE DEF abc
  <2> QED
    BY <1>4, Cats
<1>6. Cat(abcd, e) \in Bytes
  <2> HIDE DEF abcd
  <2> QED
    BY <1>5, Cats
<1>7. raw = Cat(ab, h) /\ raw \in Bytes
  <2> HIDE DEF h
  <2> QED
    BY <1>2, Cats, Regrouped
<1>8. Cat(ab, h) = Cat(abc, g)
  <2> HIDE DEF ab, g
  <2> QED
    BY <1>2, <1>3, Regrouped
<1>9. Cat(abc, g) = Cat(abcd, f)
  <2> HIDE DEF abc, f
  <2> QED
    BY <1>2, <1>4, Regrouped
<1>10. Cat(abcd, f) = Cat(Cat(abcd, e), z)
  <2> HIDE DEF abcd
  <2> QED
    BY <1>5, Regrouped
<1> QED
  BY <1>2, <1>3, <1>4, <1>5, <1>6, <1>7, <1>8, <1>9, <1>10, Zenon

\* What the parts are, as they are read.
CutAs(raw, trailerLen, len, b1, k, n, b2, trailer, b3, a3, b4, a4, flat) ==
  /\ U32At(raw, HeaderLen + NonceLen) = Got(len, b1) /\ k = HeaderLen + NonceLen + 4 + len
  /\ U32At(raw, k) = Got(n, b2) /\ trailer = Len(raw) - trailerLen /\ k + 4 <= trailer
  /\ U32At(raw, trailer) = Got(n, b3) /\ Take(raw, trailer) = Got(a3, b4)
  /\ Take(a3, k + 4) = Got(a4, flat)

\* SplitItemFrames, once its parts are read.
LEMMA SplitGot ==
  ASSUME NEW raw, NEW separate, NEW trailerLen, NEW len, NEW b1, NEW k, NEW n, NEW b2, NEW trailer,
         NEW b3, NEW a3, NEW b4, NEW a4, NEW flat, NEW r,
         CutAs(raw, trailerLen, len, b1, k, n, b2, trailer, b3, a3, b4, a4, flat),
         ReadFrames(flat, n, TagOf(separate)) = r
  PROVE  SplitItemFrames(raw, separate, trailerLen) =
           IF r.ok /\ r.rest = <<>> THEN Got(r.val, <<>>) ELSE Fail
<1>0. /\ U32At(raw, HeaderLen + NonceLen) = Got(len, b1) /\ k = HeaderLen + NonceLen + 4 + len
      /\ U32At(raw, k) = Got(n, b2) /\ trailer = Len(raw) - trailerLen /\ k + 4 <= trailer
      /\ U32At(raw, trailer) = Got(n, b3) /\ Take(raw, trailer) = Got(a3, b4)
      /\ Take(a3, k + 4) = Got(a4, flat)
  BY Zenon DEF CutAs
<1>1. U32At(raw, HeaderLen + NonceLen).ok /\ U32At(raw, HeaderLen + NonceLen).val = len
  BY <1>0, Parts
<1>2. U32At(raw, k).ok /\ U32At(raw, k).val = n /\ U32At(raw, trailer).val = n
  BY <1>0, Parts
<1>3. Take(raw, trailer).val = a3 /\ Take(a3, k + 4).rest = flat
  BY <1>0, Parts
<1> DEFINE l == U32At(raw, HeaderLen + NonceLen)
           reg == HeaderLen + NonceLen + 4 + l.val
           c == U32At(raw, reg)
           t == Len(raw) - trailerLen
           f == ReadFrames(Take(Take(raw, t).val, reg + 4).rest, c.val, TagOf(separate))
<1>4. SplitItemFrames(raw, separate, trailerLen) =
        IF /\ l.ok /\ c.ok /\ reg + 4 <= t
           /\ U32At(raw, t).val = c.val
           /\ f.ok /\ f.rest = <<>>
        THEN Got(f.val, <<>>) ELSE Fail
  BY DEF SplitItemFrames, TagOf
<1>5. reg = k /\ t = trailer
  BY <1>0, <1>1
<1>6. c = U32At(raw, k)
  BY <1>5, Zenon
<1>7. f = r
  BY <1>2, <1>3, <1>5, <1>6, Zenon
<1>8. l.ok /\ c.ok /\ reg + 4 <= t /\ U32At(raw, t).val = c.val
  BY <1>0, <1>1, <1>2, <1>5, <1>6, Zenon
<1> HIDE DEF l, reg, c, t, f
<1> QED
  BY <1>4, <1>7, <1>8, Zenon

\* What lies between the start of a file and its trailer.
Framed(front, ct, n, flat, rest) ==
  Cat(front, Cat(Be32(Len(ct)), Cat(ct, Cat(Be32(n), Cat(flat, Cat(Be32(n), rest))))))

LEMMA FramedAt ==
  ASSUME NEW front \in Of(HeaderLen + NonceLen), NEW ct \in Bytes, Len(ct) \in U32, NEW n \in U32,
         NEW flat \in Bytes, NEW trailerLen \in Nat, NEW rest \in Bytes, trailerLen = 4 + Len(rest)
  PROVE  LET raw     == Framed(front, ct, n, flat, rest)
             k       == HeaderLen + NonceLen + 4 + Len(ct)
             trailer == Len(raw) - trailerLen
         IN  /\ raw \in Bytes /\ k + 4 <= trailer
             /\ \E b1 : U32At(raw, HeaderLen + NonceLen) = Got(Len(ct), b1)
             /\ \E b2 : U32At(raw, k) = Got(n, b2)
             /\ \E b3 : U32At(raw, trailer) = Got(n, b3)
             /\ \E a3 : \E b4 : \E a4 :
                  Take(raw, trailer) = Got(a3, b4) /\ Take(a3, k + 4) = Got(a4, flat)
<1> DEFINE b == Be32(Len(ct))
           d == Be32(n)
           z == Cat(d, rest)
           ab == Cat(front, b)
           abc == Cat(ab, ct)
           abcd == Cat(abc, d)
           a3 == Cat(abcd, flat)
           g == Cat(ct, Cat(d, Cat(flat, z)))
           raw == Cat(front, Cat(b, g))
           k == HeaderLen + NonceLen + 4 + Len(ct)
<1>1. b \in Bytes /\ Len(b) = 4 /\ d \in Bytes /\ Len(d) = 4
  BY Number32
<1>2. front \in Bytes /\ Len(front) = HeaderLen + NonceLen /\ HeaderLen + NonceLen \in Nat
  BY DEF Of, HeaderLen, NonceLen
<1>3. z \in Bytes /\ Len(z) = trailerLen
  <2> HIDE DEF d
  <2> QED
    BY <1>1, Cats, Lens, ZenonT(40)
<1>4. /\ raw \in Bytes /\ ab \in Bytes /\ abc \in Bytes /\ abcd \in Bytes /\ a3 \in Bytes
      /\ Cat(flat, z) \in Bytes /\ g \in Bytes
      /\ raw = Cat(ab, g) /\ raw = Cat(abc, Cat(d, Cat(flat, z))) /\ raw = Cat(a3, z)
  <2> HIDE DEF b, d, z
  <2> QED
    BY <1>1, <1>2, <1>3, Cuts
<1>5. raw = Framed(front, ct, n, flat, rest)
  BY DEF Framed
<1>6. Len(ab) = HeaderLen + NonceLen + 4
  <2> HIDE DEF b
  <2> QED
    BY <1>1, <1>2, Lens, ZenonT(40)
<1>7. Len(abc) = k /\ k \in Nat
  <2> HIDE DEF ab
  <2>1. Len(abc) = Len(ab) + Len(ct) /\ Len(ct) \in Nat
    BY <1>4, Lens
  <2> QED
    BY <1>2, <1>6, <2>1
<1>8. Len(abcd) = k + 4
  <2>1. abc \in Bytes /\ d \in Bytes /\ Len(d) = 4
    BY <1>1, <1>4
  <2> HIDE DEF abc, d
  <2>2. Len(abcd) = Len(abc) + Len(d)
    BY <2>1, Lens
  <2> HIDE DEF k, abcd
  <2> QED
    BY <1>7, <2>1, <2>2
<1>9. Len(a3) = (k + 4) + Len(flat) /\ Len(flat) \in Nat
  <2>1. abcd \in Bytes
    BY <1>4
  <2> HIDE DEF abcd
  <2>2. Len(a3) = Len(abcd) + Len(flat) /\ Len(flat) \in Nat
    BY <2>1, Lens
  <2> HIDE DEF k, a3
  <2> QED
    BY <1>7, <1>8, <2>2
<1>10. Len(raw) - trailerLen = Len(a3) /\ k + 4 <= Len(raw) - trailerLen
  <2> HIDE DEF a3, z, raw, k
  <2>1. Len(raw) = Len(a3) + Len(z)
    BY <1>3, <1>4, Lens
  <2> QED
    BY <1>3, <1>7, <1>9, <2>1
<1>11. U32At(raw, HeaderLen + NonceLen) = Got(Len(ct), g)
  <2>1. raw = front \o (Be32(Len(ct)) \o g) /\ g \in Bytes
    BY <1>4, Zenon DEF Cat
  <2> HIDE DEF g, raw
  <2> QED
    BY <1>2, <2>1, U32AtBack
<1>12. U32At(raw, k) = Got(n, Cat(flat, z))
  <2> DEFINE w == Cat(flat, z)
  <2>1. w \in Bytes /\ raw = abc \o (Be32(n) \o w)
    BY <1>4, Zenon DEF Cat
  <2> HIDE DEF w, abc, raw, k
  <2>2. U32At(abc \o (Be32(n) \o w), k) = Got(n, w)
    BY <1>4, <1>7, <2>1, U32AtBack
  <2> QED
    BY <2>1, <2>2 DEF w
<1>13. U32At(raw, Len(a3)) = Got(n, rest)
  <2>1. raw = a3 \o (Be32(n) \o rest)
    BY <1>4, Zenon DEF Cat
  <2> HIDE DEF a3, raw
  <2> QED
    BY <1>4, <2>1, U32AtBack
<1>14. Take(raw, Len(a3)) = Got(a3, z)
  <2> HIDE DEF a3, raw, z
  <2> QED
    BY <1>3, <1>4, TakeBack DEF Cat
<1>15. Take(a3, k + 4) = Got(abcd, flat)
  <2> HIDE DEF abcd, k
  <2>1. Take(Cat(abcd, flat), Len(abcd)) = Got(abcd, flat)
    BY <1>4, TakeBack DEF Cat
  <2> QED
    BY <1>8, <2>1
<1> HIDE DEF a3, raw, z, abcd, k, g, abc
<1>16. LET trailer == Len(raw) - trailerLen
       IN  /\ U32At(raw, trailer) = Got(n, rest)
           /\ Take(raw, trailer) = Got(a3, z)
  BY <1>10, <1>13, <1>14
<1> QED
  BY <1>4, <1>5, <1>10, <1>11, <1>12, <1>15, <1>16, Zenon DEF k

\* What SplitItemFrames makes of it.
LEMMA SplitFramed ==
  ASSUME NEW front \in Of(HeaderLen + NonceLen), NEW ct \in Bytes, Len(ct) \in U32, NEW n \in U32,
         NEW flat \in Bytes, NEW trailerLen \in Nat, NEW rest \in Bytes, trailerLen = 4 + Len(rest),
         NEW separate
  PROVE  LET r == ReadFrames(flat, n, TagOf(separate))
         IN  SplitItemFrames(Framed(front, ct, n, flat, rest), separate, trailerLen) =
               IF r.ok /\ r.rest = <<>> THEN Got(r.val, <<>>) ELSE Fail
<1> DEFINE raw     == Framed(front, ct, n, flat, rest)
           k       == HeaderLen + NonceLen + 4 + Len(ct)
           trailer == Len(raw) - trailerLen
           r       == ReadFrames(flat, n, TagOf(separate))
<1>1. /\ k + 4 <= trailer
      /\ \E b1 : U32At(raw, HeaderLen + NonceLen) = Got(Len(ct), b1)
      /\ \E b2 : U32At(raw, k) = Got(n, b2)
      /\ \E b3 : U32At(raw, trailer) = Got(n, b3)
      /\ \E a3 : \E b4 : \E a4 :
           Take(raw, trailer) = Got(a3, b4) /\ Take(a3, k + 4) = Got(a4, flat)
  BY FramedAt
<1> DEFINE len == Len(ct)
<1> HIDE DEF raw, r
<1>2. PICK b1 : U32At(raw, HeaderLen + NonceLen) = Got(len, b1)
  BY <1>1
<1>3. k = HeaderLen + NonceLen + 4 + len /\ trailer = Len(raw) - trailerLen
  OBVIOUS
<1> HIDE DEF len, k, trailer
<1>4. PICK b2 : U32At(raw, k) = Got(n, b2)
  BY <1>1
<1>5. PICK b3 : U32At(raw, trailer) = Got(n, b3)
  BY <1>1
<1>6. PICK a3, b4, a4 : Take(raw, trailer) = Got(a3, b4) /\ Take(a3, k + 4) = Got(a4, flat)
  BY <1>1
<1>7. ReadFrames(flat, n, TagOf(separate)) = r
  BY DEF r
<1>8. k + 4 <= trailer
  BY <1>1
<1>9. SplitItemFrames(raw, separate, trailerLen) =
        IF r.ok /\ r.rest = <<>> THEN Got(r.val, <<>>) ELSE Fail
  <2>1. CutAs(raw, trailerLen, len, b1, k, n, b2, trailer, b3, a3, b4, a4, flat)
    BY <1>2, <1>3, <1>4, <1>5, <1>6, <1>8, Zenon DEF CutAs
  <2> QED
    BY <1>7, <2>1, SplitGot
<1> QED
  BY <1>9 DEF raw, r

\* Whatever is split is laid out so.
LEMMA SplitParts ==
  ASSUME NEW raw \in Bytes, NEW separate \in BOOLEAN, NEW trailerLen \in Nat, 4 <= trailerLen,
         SplitItemFrames(raw, separate, trailerLen).ok
  PROVE  \E front \in Of(HeaderLen + NonceLen), ct \in Bytes, n \in U32, flat \in Bytes, rest \in Bytes :
           /\ Len(ct) \in U32 /\ trailerLen = 4 + Len(rest)
           /\ raw = Framed(front, ct, n, flat, rest)
<1> DEFINE h       == HeaderLen + NonceLen
           trailer == Len(raw) - trailerLen
           k       == h + 4 + U32At(raw, h).val
<1>1. /\ U32At(raw, h).ok /\ U32At(raw, k).ok /\ k + 4 <= trailer
      /\ U32At(raw, trailer).val = U32At(raw, k).val
  <2>1. ASSUME ~(/\ U32At(raw, h).ok /\ U32At(raw, k).ok /\ k + 4 <= trailer
                 /\ U32At(raw, trailer).val = U32At(raw, k).val)
        PROVE  SplitItemFrames(raw, separate, trailerLen) = Fail
    BY <2>1, Zenon DEF SplitItemFrames
  <2> QED
    BY <2>1, Parts
<1>2. h \in Nat /\ Len(raw) \in Nat
  BY LenProperties DEF HeaderLen, NonceLen, Bytes
<1> HIDE DEF h, k, trailer
<1>3. PICK front \in Bytes, len \in U32, b1 \in Bytes :
        U32At(raw, h) = Got(len, b1) /\ Len(front) = h /\ raw = front \o (Be32(len) \o b1)
  BY <1>1, <1>2, U32AtSplit
<1>4. len \in Nat /\ k = h + 4 + len /\ k \in Nat
  BY <1>2, <1>3, Parts DEF k, U32, Below
<1>5. PICK a2 \in Bytes, n \in U32, b2 \in Bytes :
        U32At(raw, k) = Got(n, b2) /\ Len(a2) = k /\ raw = a2 \o (Be32(n) \o b2)
  BY <1>1, <1>4, U32AtSplit
<1>6. /\ Be32(len) \in Bytes /\ Len(Be32(len)) = 4 /\ Be32(n) \in Bytes /\ Len(Be32(n)) = 4
  BY <1>3, <1>5, Number32
<1> DEFINE b == Be32(len)
           d == Be32(n)
<1>7. /\ b \in Bytes /\ Len(b) = 4 /\ d \in Bytes /\ Len(d) = 4
      /\ raw = Cat(front, Cat(b, b1)) /\ raw = Cat(a2, Cat(d, b2))
  BY <1>3, <1>5, <1>6, Zenon DEF Cat
<1> HIDE DEF b, d
<1> DEFINE ab == Cat(front, b)
<1>8. ab \in Bytes /\ Len(ab) = h + 4 /\ raw = Cat(ab, b1)
  <2>1. b \in Bytes
    BY <1>7
  <2>2. ab \in Bytes /\ Len(ab) = Len(front) + Len(b) /\ Cat(ab, b1) = Cat(front, Cat(b, b1))
    BY <2>1, Cats, Lens, Regrouped
  <2> HIDE DEF ab
  <2> QED
    BY <1>3, <1>7, <2>2, Zenon
<1> DEFINE db2 == Cat(d, b2)
<1>9. db2 \in Bytes /\ raw = Cat(a2, db2)
  BY <1>7, Cats
<1> HIDE DEF ab, db2
<1>10. PICK ct \in Bytes : a2 = Cat(ab, ct) /\ Len(ct) = Len(a2) - Len(ab)
  <2>1. Cat(ab, b1) = Cat(a2, db2) /\ Len(ab) <= Len(a2)
    BY <1>2, <1>4, <1>5, <1>8, <1>9
  <2>2. ab \in Bytes /\ db2 \in Bytes
    BY <1>8, <1>9
  <2> QED
    BY <2>1, <2>2, Overlap
<1>11. Len(ct) = len
  BY <1>2, <1>4, <1>5, <1>8, <1>10
<1> DEFINE abcd == Cat(a2, d)
<1>12. abcd \in Bytes /\ Len(abcd) = k + 4 /\ raw = Cat(abcd, b2)
  <2>0. d \in Bytes
    BY <1>7
  <2>1. abcd \in Bytes /\ Len(abcd) = Len(a2) + Len(d) /\ Cat(abcd, b2) = Cat(a2, Cat(d, b2))
    BY <2>0, Cats, Lens, Regrouped
  <2> HIDE DEF abcd
  <2> QED
    BY <1>5, <1>7, <2>1, Zenon
<1> HIDE DEF abcd
<1>13. trailer \in Nat /\ trailer + trailerLen = Len(raw)
  BY <1>1, <1>2, <1>4 DEF trailer
<1>14. PICK a3 \in Bytes, z \in Bytes : Take(raw, trailer) = Got(a3, z) /\ Len(a3) = trailer /\ raw = Cat(a3, z)
  <2>1. Take(raw, trailer).ok
    BY <1>2, <1>13, Parts DEF Take
  <2> QED
    BY <1>13, <2>1, TakeSplit DEF Cat
<1>15. Len(z) = trailerLen
  <2>1. Len(Cat(a3, z)) = Len(a3) + Len(z) /\ Len(z) \in Nat
    BY Lens
  <2> QED
    BY <1>13, <1>14, <2>1
<1>16. PICK flat \in Bytes : a3 = Cat(abcd, flat)
  <2>1. Cat(abcd, b2) = Cat(a3, z) /\ Len(abcd) <= Len(a3)
    BY <1>1, <1>12, <1>14
  <2>2. abcd \in Bytes
    BY <1>12
  <2> QED
    BY <2>1, <2>2, Overlap
<1>17. PICK m \in U32, rest \in Bytes : ReadU32(z) = Got(m, rest) /\ z = Be32(m) \o rest
  <2>1. Take(z, 4).ok
    BY <1>15, Parts DEF Take
  <2>2. ReadU32(z).ok
    BY <2>1, Parts DEF ReadU32
  <2> QED
    BY <2>2, U32Split
<1>18. m = n
  <2>1. U32At(raw, trailer) = Got(m, rest)
    BY <1>14, <1>17, Parts DEF U32At
  <2> QED
    BY <1>1, <1>5, <2>1, Parts
<1>19. z = Cat(d, rest) /\ Len(rest) + 4 = trailerLen
  <2>1. z = Cat(d, rest)
    BY <1>17, <1>18, Zenon DEF Cat, d
  <2>2. Len(Cat(d, rest)) = Len(d) + Len(rest) /\ Len(rest) \in Nat
    BY <1>7, Lens
  <2> QED
    BY <1>7, <1>15, <2>1, <2>2
<1>20. raw = Cat(front, Cat(b, Cat(ct, Cat(d, Cat(flat, z)))))
  <2>1. raw = Cat(Cat(Cat(Cat(Cat(front, b), ct), d), flat), z)
    BY <1>10, <1>14, <1>16, Zenon DEF abcd, ab
  <2> QED
    BY <1>7, <2>1, Cuts
<1>21. raw = Framed(front, ct, n, flat, rest)
  BY <1>11, <1>19, <1>20, Zenon DEF Framed, b, d
<1>22. front \in Of(HeaderLen + NonceLen) /\ Len(ct) \in U32 /\ trailerLen = 4 + Len(rest)
  <2>1. Len(rest) \in Nat
    BY LenProperties DEF Bytes
  <2> QED
    BY <1>3, <1>11, <1>19, <2>1 DEF Of, h
<1> QED
  BY <1>21, <1>22

LEMMA AroundFramed ==
  ASSUME NEW front \in Bytes, NEW ct \in Bytes, Len(ct) \in U32, NEW frames, Len(frames) \in U32,
         FlattenSeq(frames) \in Bytes, NEW rest \in Bytes
  PROVE  FileAround(front, ct, frames, rest) =
           Framed(front, ct, Len(frames), FlattenSeq(frames), rest)
<1> DEFINE n == Len(frames)
           flat == FlattenSeq(frames)
           b == Be32(Len(ct))
           d == Be32(n)
           x == Cat(d, Cat(flat, Cat(d, rest)))
<1>1. b \in Bytes /\ d \in Bytes /\ flat \in Bytes
  BY Number32
<1>2. x \in Bytes
  <2> HIDE DEF d, flat
  <2>1. Cat(d, rest) \in Bytes
    BY <1>1, Cats
  <2>2. Cat(flat, Cat(d, rest)) \in Bytes
    BY <1>1, <2>1, Cats
  <2> QED
    BY <1>1, <2>2, Cats
<1>3. FileAround(front, ct, frames, rest) = Cat(front, Cat(Cat(b, ct), x))
  BY Zenon DEF FileAround, PushBytes, Cat
<1>4. Framed(front, ct, n, flat, rest) = Cat(front, Cat(b, Cat(ct, x)))
  BY Zenon DEF Framed
<1>5. Cat(Cat(b, ct), x) = Cat(b, Cat(ct, x))
  <2> HIDE DEF b, x
  <2> QED
    BY <1>1, <1>2, Regrouped
<1> QED
  BY <1>3, <1>4, <1>5, Zenon

(***************************************************************************)
(* Whatever split_item_frames_with_layout accepts, in either layout, is    *)
(* laid out as a file around frames, and it is cut into exactly those:     *)
(* nothing lies between two frames, before the first or behind the last.   *)
(***************************************************************************)
THEOREM FramesCanonical ==
  ASSUME NEW raw \in Bytes, NEW separate \in BOOLEAN, NEW trailerLen \in Nat, 4 <= trailerLen,
         SplitItemFrames(raw, separate, trailerLen).ok
  PROVE  \E front \in Of(HeaderLen + NonceLen), ct \in Bytes, frames \in Seq(FramesOf(TagOf(separate))),
            rest \in Bytes :
           /\ Len(ct) \in U32 /\ Len(frames) \in U32 /\ Len(rest) + 4 = trailerLen
           /\ raw = FileAround(front, ct, frames, rest)
           /\ SplitItemFrames(raw, separate, trailerLen) = Got(frames, <<>>)
<1>1. PICK front \in Of(HeaderLen + NonceLen), ct \in Bytes, n \in U32, flat \in Bytes, rest \in Bytes :
        /\ Len(ct) \in U32 /\ trailerLen = 4 + Len(rest)
        /\ raw = Framed(front, ct, n, flat, rest)
  BY SplitParts
<1> DEFINE r == ReadFrames(flat, n, TagOf(separate))
<1>2. SplitItemFrames(raw, separate, trailerLen) =
        IF r.ok /\ r.rest = <<>> THEN Got(r.val, <<>>) ELSE Fail
  BY <1>1, SplitFramed
<1>3. r.ok /\ r.rest = <<>> /\ SplitItemFrames(raw, separate, trailerLen) = Got(r.val, <<>>)
  <2> HIDE DEF r
  <2> QED
    BY <1>2, Parts
<1>4. TagOf(separate) \in Nat /\ n \in Nat
  BY DEF TagOf, TagLen, U32, Below
<1>5. PICK frames \in Seq(FramesOf(TagOf(separate))) :
        Len(frames) = n /\ flat = FlattenSeq(frames) /\ r.val = frames
  BY <1>3, <1>4, FramesRead
<1>6. front \in Bytes
  BY DEF Of
<1>7. FileAround(front, ct, frames, rest) = Framed(front, ct, n, flat, rest)
  BY <1>1, <1>5, <1>6, AroundFramed
<1>8. Len(rest) + 4 = trailerLen
  <2>1. Len(rest) \in Nat
    BY LenProperties DEF Bytes
  <2> QED
    BY <1>1, <2>1
<1>9. raw = FileAround(front, ct, frames, rest)
  BY <1>1, <1>7
<1>10. SplitItemFrames(raw, separate, trailerLen) = Got(frames, <<>>)
  BY <1>3, <1>5
<1>11. Len(frames) \in U32
  BY <1>5
<1> QED
  BY <1>1, <1>8, <1>9, <1>10, <1>11

(***************************************************************************)
(* A file around frames is cut into those frames, and read_index_entries   *)
(* finds the nonce and the ciphertext of its index.                        *)
(***************************************************************************)
THEOREM FramesReadBack ==
  ASSUME NEW separate \in BOOLEAN, NEW header \in Of(HeaderLen), NEW nonce \in Of(NonceLen),
         NEW ct \in Bytes, Len(ct) \in U32,
         NEW frames \in Seq(FramesOf(TagOf(separate))), Len(frames) \in U32, NEW rest \in Bytes
  PROVE  LET raw == FileAround(header \o nonce, ct, frames, rest)
         IN  /\ raw \in Bytes
             /\ SplitItemFrames(raw, separate, 4 + Len(rest)) = Got(frames, <<>>)
             /\ \E left : SealedIndex(raw) = Got(<<nonce, ct>>, left)
<1> DEFINE n == Len(frames)
           flat == FlattenSeq(frames)
           front == Cat(header, nonce)
           tagLen == TagOf(separate)
           raw == FileAround(header \o nonce, ct, frames, rest)
<1>1. header \in Bytes /\ nonce \in Bytes /\ Len(header) = HeaderLen /\ Len(nonce) = NonceLen
  BY DEF Of
<1>2. front \in Bytes /\ front \in Of(HeaderLen + NonceLen)
  BY <1>1, Cats, Lens DEF Of
<1>3. tagLen \in Nat /\ n \in Nat
  BY DEF TagOf, TagLen, U32, Below
<1>4. flat \in Bytes /\ ReadFrames(flat, n, tagLen) = Got(frames, <<>>)
  <2>1. frames \in Seq(FramesOf(tagLen)) /\ n = Len(frames)
    OBVIOUS
  <2> HIDE DEF tagLen, n
  <2> QED
    BY <1>3, <2>1, FramesBack
<1>5. raw = Framed(front, ct, n, flat, rest)
  <2>1. raw = FileAround(front, ct, frames, rest)
    BY Zenon DEF Cat
  <2> HIDE DEF front
  <2> QED
    BY <1>2, <1>4, <2>1, AroundFramed
<1>6. Len(rest) \in Nat /\ 4 + Len(rest) \in Nat
  BY LenProperties DEF Bytes
<1>7. SplitItemFrames(raw, separate, 4 + Len(rest)) = Got(frames, <<>>)
  <2> DEFINE r == ReadFrames(flat, n, TagOf(separate))
             t == 4 + Len(rest)
  <2>1. r = Got(frames, <<>>)
    BY <1>4
  <2>2. SplitItemFrames(raw, separate, t) = IF r.ok /\ r.rest = <<>> THEN Got(r.val, <<>>) ELSE Fail
    <3> HIDE DEF r, front, flat, n, raw
    <3>1. n \in U32
      BY DEF n
    <3> QED
      BY <1>2, <1>4, <1>5, <1>6, <3>1, SplitFramed DEF r
  <2> HIDE DEF r
  <2> QED
    BY <2>1, <2>2, Parts
<1> DEFINE d == Be32(n)
           x == Cat(d, Cat(flat, Cat(d, rest)))
<1>8. x \in Bytes
  <2>1. d \in Bytes
    BY Number32
  <2> HIDE DEF d, flat
  <2>2. Cat(d, rest) \in Bytes
    BY <2>1, Cats
  <2>3. Cat(flat, Cat(d, rest)) \in Bytes
    BY <1>4, <2>2, Cats
  <2> QED
    BY <2>1, <2>3, Cats
<1>9. raw = Cat(header, Cat(nonce, Cat(PushBytes(ct), x)))
  <2> DEFINE y == Cat(PushBytes(ct), x)
  <2>1. raw = Cat(Cat(header, nonce), y)
    BY Zenon DEF FileAround, Cat
  <2>2. y \in Bytes
    <3>1. PushBytes(ct) \in Bytes
      BY Number32, Joins DEF PushBytes
    <3> HIDE DEF x
    <3> QED
      BY <1>8, <3>1, Cats
  <2> HIDE DEF y
  <2>3. Cat(Cat(header, nonce), y) = Cat(header, Cat(nonce, y))
    BY <1>1, <2>2, Regrouped
  <2> QED
    BY <2>1, <2>3 DEF y
<1> HIDE DEF x
<1> DEFINE y == Cat(PushBytes(ct), x)
           z == Cat(nonce, y)
<1>10. ReadBytes(y, U32Top - 1) = Got(ct, x) /\ y \in Bytes
  <2>1. U32Top - 1 \in U32 /\ Len(ct) <= U32Top - 1
    BY Top DEF U32, Below
  <2>2. PushBytes(ct) \in Bytes /\ ReadBytes(PushBytes(ct) \o x, U32Top - 1) = Got(ct, x)
    BY <1>8, <2>1, BytesBack
  <2> QED
    BY <1>8, <2>2, Cats DEF Cat
<1> HIDE DEF y
<1>11. Take(z, NonceLen) = Got(nonce, y) /\ z \in Bytes
  BY <1>1, <1>10, Cats, TakeBack DEF Cat
<1> HIDE DEF z
<1>12. Take(raw, HeaderLen) = Got(header, z) /\ raw \in Bytes
  <2>1. raw = Cat(header, z)
    BY <1>9 DEF y, z
  <2> HIDE DEF raw
  <2> QED
    BY <1>1, <1>11, <2>1, Cats, TakeBack DEF Cat
<1>13. SealedIndex(raw) = Got(<<nonce, ct>>, x)
  <2> HIDE DEF raw
  <2>1. Take(Take(raw, HeaderLen).rest, NonceLen) = Got(nonce, y)
    BY <1>11, <1>12, Parts
  <2> QED
    BY <1>10, <2>1, Parts DEF SealedIndex
<1> QED
  BY <1>7, <1>12, <1>13

\* decrypt_item_frame_with finds the nonce of a frame, and the ciphertext with its tag.
THEOREM FrameOpened ==
  ASSUME NEW nonce \in Of(NonceLen), NEW ct \in Bytes, Len(ct) \in U32, NEW tag \in Bytes
  PROVE  SealedItem(Frame(nonce, ct, tag)) = Got(<<nonce, ct \o tag>>, <<>>)
<1> DEFINE y == PushBytes(ct) \o tag
<1>1. U32Top - 1 \in U32 /\ Len(ct) <= U32Top - 1 /\ Len(ct) \in U32
  BY Top DEF U32, Below
<1>2. PushBytes(ct) \in Bytes /\ ReadBytes(y, U32Top - 1) = Got(ct, tag)
  BY <1>1, BytesBack
<1>3. y \in Bytes
  BY <1>2, Joins
<1> HIDE DEF y
<1>4. Take(nonce \o y, NonceLen) = Got(nonce, y)
  BY <1>3, TakeBack DEF Of
<1>5. Frame(nonce, ct, tag) = nonce \o y
  BY Zenon DEF Frame, y
<1>6. Take(Frame(nonce, ct, tag), NonceLen) = Got(nonce, y)
  BY <1>4, <1>5
<1> DEFINE o == Take(Frame(nonce, ct, tag), NonceLen)
           c == ReadBytes(o.rest, U32Top - 1)
<1>7. o.val = nonce /\ o.rest = y
  BY <1>6, Parts
<1>8. c.ok /\ c.val = ct /\ c.rest = tag
  BY <1>2, <1>7, Parts
<1>9. SealedItem(Frame(nonce, ct, tag)) = IF c.ok THEN Got(<<o.val, c.val \o c.rest>>, <<>>) ELSE Fail
  BY Zenon DEF SealedItem
<1> HIDE DEF o, c
<1> QED
  BY <1>7, <1>8, <1>9, Zenon

-----------------------------------------------------------------------------
(* Sizes *)

\* That many bytes.
Sized(b, n) == b \in Bytes /\ Len(b) = n

LEMMA CatSized ==
  ASSUME NEW a, NEW m \in Nat, Sized(a, m), NEW b, NEW n \in Nat, Sized(b, n)
  PROVE  Sized(Cat(a, b), m + n)
<1>1. a \in Bytes /\ b \in Bytes /\ Len(a) = m /\ Len(b) = n
  BY DEF Sized
<1>2. Cat(a, b) \in Bytes /\ Len(Cat(a, b)) = Len(a) + Len(b)
  BY <1>1, Cats, Lens
<1> QED
  BY <1>1, <1>2, Zenon DEF Sized

LEMMA BytesSized ==
  ASSUME NEW x \in Bytes, Len(x) \in U32
  PROVE  Sized(PushBytes(x), 4 + Len(x)) /\ Len(x) \in Nat
<1>1. Sized(Be32(Len(x)), 4) /\ Sized(x, Len(x)) /\ Len(x) \in Nat
  BY Number32, LenProperties DEF Sized, Bytes
<1>2. Sized(Cat(Be32(Len(x)), x), 4 + Len(x))
  BY <1>1, CatSized
<1> QED
  BY <1>1, <1>2 DEF PushBytes, Cat

LEMMA StrSized ==
  ASSUME NEW x \in Bytes, Len(x) \in U16
  PROVE  Sized(PushStr(x), 2 + Len(x)) /\ Len(x) \in Nat
<1>1. Sized(Be16(Len(x)), 2) /\ Sized(x, Len(x)) /\ Len(x) \in Nat
  BY Number16, LenProperties DEF Sized, Bytes
<1>2. Sized(Cat(Be16(Len(x)), x), 2 + Len(x))
  BY <1>1, CatSized
<1> QED
  BY <1>1, <1>2 DEF PushStr, Cat

LEMMA OptSized ==
  ASSUME NEW o \in Optional(Bytes), o # <<>> => Len(o[1]) \in U32
  PROVE  Sized(PushOpt(o), 1 + OptLen(o)) /\ OptLen(o) \in Nat
<1>1. CASE o = <<>>
  <2>1. PushOpt(o) = <<0>> /\ OptLen(o) = 0
    BY <1>1 DEF PushOpt, OptLen
  <2>2. Sized(<<0>>, 1)
    BY SmallBytes, OneByte DEF Sized
  <2> QED
    BY <2>1, <2>2
<1>2. CASE o # <<>>
  <2> DEFINE x == o[1]
  <2>1. x \in Bytes /\ Len(x) \in U32
    BY <1>2, Some
  <2>2. PushOpt(o) = Cat(<<1>>, PushBytes(x)) /\ OptLen(o) = 4 + Len(x)
    BY <1>2, Zenon DEF PushOpt, OptLen, Cat
  <2> HIDE DEF x
  <2>3. Sized(<<1>>, 1) /\ Sized(PushBytes(x), 4 + Len(x)) /\ Len(x) \in Nat
    BY <2>1, SmallBytes, OneByte, BytesSized DEF Sized
  <2>4. 4 + Len(x) \in Nat
    BY <2>3
  <2>5. Sized(Cat(<<1>>, PushBytes(x)), 1 + (4 + Len(x)))
    BY <2>3, <2>4, CatSized
  <2> QED
    BY <2>2, <2>4, <2>5, Zenon
<1> QED
  BY <1>1, <1>2

\* What the configuration of a code adds to the empty item.
TotpLen(o) == IF o = <<>> THEN 0 ELSE 13 + Len(o[1].secret)

LEMMA TotpSized ==
  ASSUME NEW o \in Optional(Totps), o # <<>> => Len(o[1].secret) \in U32
  PROVE  Sized(PushTotp(o), 1 + TotpLen(o)) /\ TotpLen(o) \in Nat
<1>1. CASE o = <<>>
  <2>1. PushTotp(o) = <<0>> /\ TotpLen(o) = 0
    BY <1>1 DEF PushTotp, TotpLen
  <2>2. Sized(<<0>>, 1)
    BY SmallBytes, OneByte DEF Sized
  <2> QED
    BY <2>1, <2>2
<1>2. CASE o # <<>>
  <2> DEFINE s == o[1].secret
             p == Be32(o[1].period)
             d == Be32(o[1].digits)
             a == <<o[1].algorithm>>
             b == PushBytes(s)
  <2>1. /\ s \in Bytes /\ Len(s) \in U32 /\ o[1].period \in U32 /\ o[1].digits \in U32
        /\ o[1].algorithm \in Byte
    BY <1>2, Some, ConfigOf, SmallBytes
  <2>2. PushTotp(o) = Cat(<<1>>, Cat(b, Cat(p, Cat(d, a)))) /\ TotpLen(o) = 13 + Len(s)
    BY <1>2, Zenon DEF PushTotp, TotpLen, Cat
  <2>3. Sized(p, 4) /\ Sized(d, 4) /\ Sized(a, 1)
    BY <2>1, Number32, OneByte DEF Sized
  <2> HIDE DEF s
  <2>4. Sized(<<1>>, 1) /\ Sized(b, 4 + Len(s)) /\ Len(s) \in Nat
    BY <2>1, SmallBytes, OneByte, BytesSized DEF Sized
  <2> HIDE DEF p, d, a, b
  <2>5. Sized(Cat(d, a), 4 + 1)
    BY <2>3, CatSized
  <2>6. Sized(Cat(p, Cat(d, a)), 4 + (4 + 1))
    BY <2>3, <2>5, CatSized
  <2>7. Sized(Cat(b, Cat(p, Cat(d, a))), (4 + Len(s)) + (4 + (4 + 1)))
    BY <2>4, <2>6, CatSized
  <2>8. Sized(Cat(<<1>>, Cat(b, Cat(p, Cat(d, a)))), 1 + ((4 + Len(s)) + (4 + (4 + 1))))
    BY <2>4, <2>7, CatSized
  <2>9. 1 + ((4 + Len(s)) + (4 + (4 + 1))) = 1 + (13 + Len(s)) /\ 13 + Len(s) \in Nat
    BY <2>4
  <2> QED
    BY <2>2, <2>8, <2>9, Zenon
<1> QED
  BY <1>1, <1>2

LEMMA Within ==
  ASSUME NEW max \in U32, NEW k \in Nat, k <= max
  PROVE  k \in U32
  BY Top DEF U32, Below

LEMMA SumOf ==
  ASSUME NEW a \in Nat, NEW b \in Nat, NEW c \in Nat, NEW d \in Nat
  PROVE  (1 + a) + ((2 + b) + ((1 + c) + ((1 + d) + 20))) = 25 + b + a + c + d
  OBVIOUS

LEMMA RecordSize ==
  ASSUME NEW p \in Optional(Bytes), NEW u \in Bytes, NEW n \in Optional(Bytes),
         NEW t \in Optional(Totps), NEW c \in U64, NEW m \in U64, NEW id \in U32,
         p # <<>> => Len(p[1]) <= MaxPassword, Len(u) <= MaxUrl,
         n # <<>> => Len(n[1]) <= MaxNotes, t # <<>> => Len(t[1].secret) <= MaxSecret
  PROVE  LET size == 25 + Len(u) + OptLen(p) + OptLen(n) + TotpLen(t)
         IN  Sized(Serialize(Record(p, u, n, t, c, m), id), size) /\ size \in Nat
<1>3. Sized(PushOpt(p), 1 + OptLen(p)) /\ OptLen(p) \in Nat
  <2>1. ASSUME p # <<>> PROVE Len(p[1]) \in U32
    <3>1. Len(p[1]) \in Nat
      BY <2>1, Some, LenProperties DEF Bytes
    <3> QED
      BY <2>1, <3>1, Limits, Within
  <2> QED
    BY <2>1, OptSized
<1>4. Sized(PushStr(u), 2 + Len(u)) /\ Len(u) \in Nat
  <2>1. Len(u) \in U16
    BY LenProperties, Limits DEF U16, Below, Bytes
  <2> QED
    BY <2>1, StrSized
<1>5. Sized(PushOpt(n), 1 + OptLen(n)) /\ OptLen(n) \in Nat
  <2>1. ASSUME n # <<>> PROVE Len(n[1]) \in U32
    <3>1. Len(n[1]) \in Nat
      BY <2>1, Some, LenProperties DEF Bytes
    <3> QED
      BY <2>1, <3>1, Limits, Within
  <2> QED
    BY <2>1, OptSized
<1>6. Sized(PushTotp(t), 1 + TotpLen(t)) /\ TotpLen(t) \in Nat
  <2>1. ASSUME t # <<>> PROVE Len(t[1].secret) \in U32
    <3>1. Len(t[1].secret) \in Nat
      BY <2>1, Some, ConfigOf, LenProperties DEF Bytes
    <3> QED
      BY <2>1, <3>1, SecretLimit, Within
  <2> QED
    BY <2>1, TotpSized
<1>7. Sized(Be64(c), 8) /\ Sized(Be64(m), 8) /\ Sized(Be32(id), 4)
  BY Number64, Number32 DEF Sized
<1> DEFINE l1 == 1 + OptLen(p)
           l2 == 2 + Len(u)
           l3 == 1 + OptLen(n)
           l4 == 1 + TotpLen(t)
           x == Cat(Be64(c), Cat(Be64(m), Be32(id)))
           size == 25 + Len(u) + OptLen(p) + OptLen(n) + TotpLen(t)
<1>8. l1 + (l2 + (l3 + (l4 + 20))) = size
  <2>1. OptLen(p) \in Nat /\ Len(u) \in Nat /\ OptLen(n) \in Nat /\ TotpLen(t) \in Nat
    BY <1>3, <1>4, <1>5, <1>6
  <2> DEFINE op == OptLen(p)
             lu == Len(u)
             on == OptLen(n)
             tt == TotpLen(t)
  <2>2. op \in Nat /\ lu \in Nat /\ on \in Nat /\ tt \in Nat
    BY <2>1
  <2> HIDE DEF op, lu, on, tt
  <2>3. (1 + op) + ((2 + lu) + ((1 + on) + ((1 + tt) + 20))) = 25 + lu + op + on + tt
    BY <2>2
  <2> QED
    BY <2>3 DEF op, lu, on, tt
<1>9. /\ Sized(PushOpt(p), l1) /\ Sized(PushStr(u), l2) /\ Sized(PushOpt(n), l3)
      /\ Sized(PushTotp(t), l4) /\ l1 \in Nat /\ l2 \in Nat /\ l3 \in Nat /\ l4 \in Nat
  BY <1>3, <1>4, <1>5, <1>6
<1>10. Serialize(Record(p, u, n, t, c, m), id) =
         Cat(PushOpt(p), Cat(PushStr(u), Cat(PushOpt(n), Cat(PushTotp(t), x))))
  BY Written
<1> HIDE DEF l1, l2, l3, l4, size
<1>11. Sized(x, 20)
  <2>1. Sized(Cat(Be64(m), Be32(id)), 8 + 4)
    BY <1>7, CatSized
  <2>2. Sized(x, 8 + (8 + 4))
    BY <1>7, <2>1, CatSized
  <2> QED
    BY <2>2
<1> HIDE DEF x
<1>12. Sized(Cat(PushTotp(t), x), l4 + 20) /\ l4 + 20 \in Nat
  BY <1>9, <1>11, CatSized
<1>13. Sized(Cat(PushOpt(n), Cat(PushTotp(t), x)), l3 + (l4 + 20)) /\ l3 + (l4 + 20) \in Nat
  BY <1>9, <1>12, CatSized
<1>14. /\ Sized(Cat(PushStr(u), Cat(PushOpt(n), Cat(PushTotp(t), x))), l2 + (l3 + (l4 + 20)))
       /\ l2 + (l3 + (l4 + 20)) \in Nat
  BY <1>9, <1>13, CatSized
<1>15. /\ Sized(Cat(PushOpt(p), Cat(PushStr(u), Cat(PushOpt(n), Cat(PushTotp(t), x)))),
                l1 + (l2 + (l3 + (l4 + 20))))
       /\ l1 + (l2 + (l3 + (l4 + 20))) \in Nat
  BY <1>9, <1>14, CatSized
<1>16. Sized(Serialize(Record(p, u, n, t, c, m), id), size) /\ size \in Nat
  BY <1>8, <1>10, <1>15, Zenon
<1> QED
  BY <1>16 DEF size

(***************************************************************************)
(* item_plaintext_len counts the bytes that serialize_item writes.         *)
(***************************************************************************)
THEOREM ItemSize ==
  ASSUME NEW r \in Items, NEW id \in U32, Valid(r)
  PROVE  Len(Serialize(r, id)) = ItemPlaintextLen(r) /\ ItemPlaintextLen(r) \in Nat
<1>1. /\ r.password \in Optional(Bytes) /\ r.url \in Bytes /\ r.notes \in Optional(Bytes)
      /\ r.totp \in Optional(Totps) /\ r.created \in U64 /\ r.modified \in U64
      /\ r = Record(r.password, r.url, r.notes, r.totp, r.created, r.modified)
  BY RecordOf
<1>2. /\ r.password # <<>> => Len(r.password[1]) <= MaxPassword
      /\ Len(r.url) <= MaxUrl
      /\ r.notes # <<>> => Len(r.notes[1]) <= MaxNotes
      /\ r.totp # <<>> => Len(r.totp[1].secret) <= MaxSecret
  BY DEF Valid
<1> DEFINE size == 25 + Len(r.url) + OptLen(r.password) + OptLen(r.notes) + TotpLen(r.totp)
<1>3. ItemPlaintextLen(r) = size
  BY DEF ItemPlaintextLen, TotpLen
<1>4. /\ Sized(Serialize(Record(r.password, r.url, r.notes, r.totp, r.created, r.modified), id), size)
      /\ size \in Nat
  BY <1>1, <1>2, RecordSize
<1> HIDE DEF size
<1>5. Sized(Serialize(r, id), size)
  BY <1>1, <1>4, Zenon
<1> QED
  BY <1>3, <1>4, <1>5 DEF Sized

\* A tombstone's item takes 25 bytes.
LEMMA BlankSize ==
  ASSUME NEW id \in U32
  PROVE  Len(Serialize(BlankItem, id)) = 25
<1> DEFINE none == <<>>
<1>1. BlankItem = Record(none, none, none, none, 0, 0)
  BY DEF BlankItem, Record
<1>2. none \in Optional(Bytes) /\ none \in Optional(Totps) /\ none \in Bytes /\ Len(none) = 0
  BY NoBytes DEF Optional
<1>3. 0 \in U64 /\ OptLen(none) = 0 /\ TotpLen(none) = 0
  BY TopJoined, Top DEF U64, Below, OptLen, TotpLen, U32Top
<1>4. Len(none) <= MaxUrl
  BY <1>2 DEF MaxUrl
<1>5. none = <<>>
  OBVIOUS
<1> HIDE DEF none
<1> DEFINE size == 25 + Len(none) + OptLen(none) + OptLen(none) + TotpLen(none)
<1>6. Sized(Serialize(Record(none, none, none, none, 0, 0), id), size)
  BY <1>2, <1>3, <1>4, <1>5, RecordSize
<1>7. size = 25
  BY <1>2, <1>3
<1> HIDE DEF size
<1> QED
  BY <1>1, <1>6, <1>7, Zenon DEF Sized

LEMMA SlotKinds ==
  ASSUME NEW slot \in Slots
  PROVE  \/ slot.kind = "cached" /\ slot.record \in Items /\ Valid(slot.record)
         \/ slot.kind = "tombstone"
         \/ slot.kind = "copied" /\ slot.frame \in FramesOf(TagLen)
  BY DEF Slots

LEMMA OptSmall ==
  ASSUME NEW o \in Optional(Bytes), NEW max \in Nat, o # <<>> => Len(o[1]) <= max
  PROVE  OptLen(o) \in Nat /\ OptLen(o) <= 4 + max
<1>1. CASE o = <<>>
  BY <1>1 DEF OptLen
<1>2. CASE o # <<>>
  <2>1. Len(o[1]) \in Nat /\ OptLen(o) = 4 + Len(o[1])
    BY <1>2, Some, LenProperties DEF OptLen, Bytes
  <2> QED
    BY <1>2, <2>1
<1> QED
  BY <1>1, <1>2

\* The plaintext of an item fits into the field of its length.
LEMMA SmallItem ==
  ASSUME NEW r \in Items, Valid(r)
  PROVE  ItemPlaintextLen(r) \in U32
<1>1. /\ r.password \in Optional(Bytes) /\ r.url \in Bytes /\ r.notes \in Optional(Bytes)
      /\ r.totp \in Optional(Totps)
  BY RecordOf
<1>2. /\ r.password # <<>> => Len(r.password[1]) <= 1024
      /\ Len(r.url) <= 2048
      /\ r.notes # <<>> => Len(r.notes[1]) <= 8192
      /\ r.totp # <<>> => Len(r.totp[1].secret) <= 128
  BY DEF Valid, MaxPassword, MaxUrl, MaxNotes, MaxSecret
<1> DEFINE a == OptLen(r.password)
           b == Len(r.url)
           c == OptLen(r.notes)
           d == TotpLen(r.totp)
<1>3. a \in Nat /\ a <= 4 + 1024 /\ c \in Nat /\ c <= 4 + 8192
  <2> DEFINE p == r.password
             n == r.notes
  <2>1. p \in Optional(Bytes) /\ (p # <<>> => Len(p[1]) <= 1024)
    BY <1>1, <1>2
  <2>2. n \in Optional(Bytes) /\ (n # <<>> => Len(n[1]) <= 8192)
    BY <1>1, <1>2
  <2> HIDE DEF p, n
  <2>3. OptLen(p) \in Nat /\ OptLen(p) <= 4 + 1024
    BY <2>1, OptSmall
  <2>4. OptLen(n) \in Nat /\ OptLen(n) <= 4 + 8192
    BY <2>2, OptSmall
  <2> QED
    BY <2>3, <2>4 DEF p, n
<1>4. b \in Nat /\ b <= 2048
  BY <1>1, <1>2, LenProperties DEF Bytes
<1>5. d \in Nat /\ d <= 13 + 128
  <2>1. CASE r.totp = <<>>
    BY <2>1 DEF TotpLen
  <2>2. CASE r.totp # <<>>
    <3>1. Len(r.totp[1].secret) \in Nat
      BY <1>1, <2>2, Some, ConfigOf, LenProperties DEF Bytes
    <3> QED
      BY <1>2, <2>2, <3>1 DEF TotpLen
  <2> QED
    BY <2>1, <2>2
<1>6. ItemPlaintextLen(r) = 25 + b + a + c + d
  BY DEF ItemPlaintextLen, TotpLen
<1> HIDE DEF a, b, c, d
<1>7. 25 + b + a + c + d \in Nat /\ 25 + b + a + c + d < U32Top
  BY <1>3, <1>4, <1>5, Top
<1> QED
  BY <1>6, <1>7 DEF U32, Below

\* What is written for a slot is a frame of the length that was counted.
LEMMA SlotFrame ==
  ASSUME NEW slot \in Slots, NEW id \in U32, NEW frame \in FramesFor(slot, id)
  PROVE  /\ frame \in FramesOf(TagLen) /\ frame \in Bytes
         /\ Len(frame) = FrameLen(slot) /\ FrameLen(slot) \in Nat /\ 1 <= FrameLen(slot)
<1>1. TagLen \in Nat /\ TagLen = 16 /\ NonceLen = 12
  BY DEF TagLen, NonceLen
<1>2. ASSUME NEW n \in U32, Len(Plaintext(slot, id)) = n, slot.kind # "copied",
             FrameLen(slot) = NonceLen + 4 + n + TagLen
      PROVE  frame \in FramesOf(TagLen) /\ Len(frame) = FrameLen(slot)
  <2>1. PICK nonce \in Of(NonceLen), ct \in Of(n), tag \in Of(TagLen) : frame = Frame(nonce, ct, tag)
    BY <1>2 DEF FramesFor
  <2>2. ct \in Bytes /\ Len(ct) = n /\ Len(ct) \in U32
    BY <2>1 DEF Of
  <2>3. frame \in FramesOf(TagLen)
    BY <2>1, <2>2 DEF FramesOf
  <2>4. Len(frame) = NonceLen + 4 + Len(ct) + TagLen
    BY <1>1, <2>1, <2>2, FrameParts
  <2> QED
    BY <1>2, <2>2, <2>3, <2>4
<1>3. ASSUME slot.kind = "cached"
      PROVE  frame \in FramesOf(TagLen) /\ Len(frame) = FrameLen(slot)
  <2>1. slot.record \in Items /\ Valid(slot.record)
    BY <1>3, SlotKinds
  <2>2. Plaintext(slot, id) = Serialize(slot.record, id)
    BY <1>3 DEF Plaintext
  <2> DEFINE n == ItemPlaintextLen(slot.record)
  <2>3. n \in U32 /\ Len(Plaintext(slot, id)) = n
    BY <2>1, <2>2, ItemSize, SmallItem
  <2>4. FrameLen(slot) = NonceLen + 4 + n + TagLen
    BY <1>3 DEF FrameLen
  <2> QED
    BY <1>2, <1>3, <2>3, <2>4
<1>4. ASSUME slot.kind = "tombstone"
      PROVE  frame \in FramesOf(TagLen) /\ Len(frame) = FrameLen(slot)
  <2>1. Plaintext(slot, id) = Serialize(BlankItem, id)
    BY <1>4 DEF Plaintext
  <2>2. 25 \in U32 /\ Len(Plaintext(slot, id)) = 25
    BY <2>1, BlankSize, Top DEF U32, Below
  <2>3. FrameLen(slot) = NonceLen + 4 + 25 + TagLen
    BY <1>4 DEF FrameLen
  <2> QED
    BY <1>2, <1>4, <2>2, <2>3
<1>5. ASSUME slot.kind = "copied"
      PROVE  frame \in FramesOf(TagLen) /\ Len(frame) = FrameLen(slot)
  <2>1. slot.frame \in FramesOf(TagLen) /\ frame = slot.frame /\ FrameLen(slot) = Len(slot.frame)
    BY <1>5, SlotKinds DEF FramesFor, FrameLen
  <2> QED
    BY <2>1
<1>6. frame \in FramesOf(TagLen) /\ Len(frame) = FrameLen(slot)
  BY <1>3, <1>4, <1>5, SlotKinds
<1>7. frame \in Bytes
  BY <1>1, <1>6, FrameBack, NoBytes
<1>8. 1 <= Len(frame) /\ Len(frame) \in Nat
  <2>1. PICK nonce \in Of(NonceLen), ct \in Bytes, tag \in Of(TagLen) :
          frame = Frame(nonce, ct, tag) /\ Len(ct) \in U32
    BY <1>6 DEF FramesOf
  <2>2. Len(frame) = NonceLen + 4 + Len(ct) + TagLen /\ Len(ct) \in Nat
    BY <1>1, <2>1, FrameParts DEF U32, Below
  <2> QED
    BY <1>1, <2>2
<1> QED
  BY <1>6, <1>7, <1>8

\* The function that CandidateLen defines.
Adding(base, slots, f) ==
  [n \in 0 .. Len(slots) |-> IF n = 0 THEN base ELSE f[n - 1] + FrameLen(slots[n])]

\* c[n] is the size with the first n slots.
IsSum(c, base, slots) ==
  c[0] = base /\ \A n \in 1 .. Len(slots) : c[n] = c[n - 1] + FrameLen(slots[n])

LEMMA AddingParts ==
  ASSUME NEW base, NEW slots, NEW f, Len(slots) \in Nat
  PROVE  LET g == Adding(base, slots, f)
         IN  /\ g = [n \in 0 .. Len(slots) |-> g[n]]
             /\ g[0] = base
             /\ \A n \in 1 .. Len(slots) : g[n] = f[n - 1] + FrameLen(slots[n])
  BY DEF Adding

LEMMA SumExists ==
  ASSUME NEW base \in Nat, NEW slots, Len(slots) \in Nat,
         \A n \in 1 .. Len(slots) : FrameLen(slots[n]) \in Nat
  PROVE  \E c : c = Adding(base, slots, c)
<1> DEFINE G == [i \in 1 .. Len(slots) |-> [x \in Nat |-> x + FrameLen(slots[i])]]
<1>1. G \in [1 .. Len(slots) -> [Nat -> Nat]]
  OBVIOUS
<1>2. \A i \in 1 .. Len(slots) : \A x \in Nat : G[i][x] = x + FrameLen(slots[i])
  OBVIOUS
<1> HIDE DEF G
<1>3. PICK c : IsLoop(c, Nat, Len(slots), base, G)
  BY <1>1, LoopExists
<1>4. /\ c \in [0 .. Len(slots) -> Nat] /\ c[0] = base
      /\ \A i \in 1 .. Len(slots) : c[i] = G[i][c[i - 1]]
  BY <1>3 DEF IsLoop
<1>5. \A i \in 1 .. Len(slots) : c[i - 1] \in Nat
  <2>1. \A i \in 1 .. Len(slots) : i - 1 \in 0 .. Len(slots)
    OBVIOUS
  <2> QED
    BY <1>4, <2>1
<1> DEFINE g == Adding(base, slots, c)
<1>6. /\ g = [n \in 0 .. Len(slots) |-> g[n]] /\ g[0] = base
      /\ \A n \in 1 .. Len(slots) : g[n] = c[n - 1] + FrameLen(slots[n])
  BY AddingParts
<1> HIDE DEF g
<1>7. \A n \in 0 .. Len(slots) : c[n] = g[n]
  <2>1. \A n \in 0 .. Len(slots) : n = 0 \/ n \in 1 .. Len(slots)
    OBVIOUS
  <2>2. \A n \in 1 .. Len(slots) : c[n] = g[n]
    BY <1>2, <1>4, <1>5, <1>6
  <2> QED
    BY <1>4, <1>6, <2>1, <2>2
<1>8. c = g
  BY <1>4, <1>6, <1>7
<1> QED
  BY <1>8 DEF g

LEMMA CandidateIs ==
  ASSUME NEW indexLen \in Nat, NEW slots, Len(slots) \in Nat,
         \A n \in 1 .. Len(slots) : FrameLen(slots[n]) \in Nat
  PROVE  \E c : /\ CandidateLen(indexLen, slots) = c[Len(slots)]
                /\ IsSum(c, HeaderLen + NonceLen + 4 + indexLen + TagLen + 4 + TrailerLen, slots)
<1> DEFINE base == HeaderLen + NonceLen + 4 + indexLen + TagLen + 4 + TrailerLen
           u == CHOOSE f : f = Adding(base, slots, f)
<1>1. base \in Nat
  BY DEF HeaderLen, NonceLen, TagLen, TrailerLen
<1>2. CandidateLen(indexLen, slots) = u[Len(slots)]
  BY DEF CandidateLen, Adding
<1> HIDE DEF base
<1>3. u = Adding(base, slots, u)
  BY <1>1, SumExists
<1> HIDE DEF u
<1>4. u[0] = base /\ \A n \in 1 .. Len(slots) : u[n] = u[n - 1] + FrameLen(slots[n])
  <2> DEFINE g == Adding(base, slots, u)
  <2>1. g[0] = base /\ \A n \in 1 .. Len(slots) : g[n] = u[n - 1] + FrameLen(slots[n])
    BY AddingParts
  <2>2. u = g
    BY <1>3
  <2> HIDE DEF g
  <2> QED
    BY <2>1, <2>2
<1>5. IsSum(u, base, slots)
  BY <1>4 DEF IsSum
<1> QED
  BY <1>2, <1>5 DEF base

\* The frames add to the size what their slots were counted for.
LEMMA FramesSize ==
  ASSUME NEW frames \in Seq(Bytes), NEW slots, Len(slots) = Len(frames), NEW base \in Nat,
         NEW c, IsSum(c, base, slots),
         \A i \in 1 .. Len(frames) : Len(frames[i]) = FrameLen(slots[i]) /\ 1 <= FrameLen(slots[i])
  PROVE  /\ c[Len(slots)] = base + Len(FlattenSeq(frames))
         /\ Len(frames) <= Len(FlattenSeq(frames)) /\ FlattenSeq(frames) \in Bytes
<1>1. PICK p : IsPrefixes(p, frames)
  BY PrefixesExist
<1>2. /\ p \in [0 .. Len(frames) -> Bytes] /\ p[0] = <<>>
      /\ \A n \in 1 .. Len(frames) : p[n] = p[n - 1] \o frames[n]
  BY <1>1 DEF IsPrefixes
<1>3. /\ Len(frames) \in Nat /\ \A i \in 1 .. Len(frames) : frames[i] \in Bytes
  BY DEF Bytes
<1>4. c[0] = base /\ \A n \in 1 .. Len(frames) : c[n] = c[n - 1] + FrameLen(slots[n])
  BY DEF IsSum
<1> DEFINE T == {n \in Nat : n <= Len(frames) => c[n] = base + Len(p[n]) /\ n <= Len(p[n])}
<1>5. 0 \in T
  <2>1. Len(p[0]) = 0
    BY <1>2, NoBytes
  <2> QED
    BY <1>4, <2>1
<1>6. ASSUME NEW n \in Nat, n \in T PROVE n + 1 \in T
  <2>1. SUFFICES ASSUME n + 1 <= Len(frames)
                 PROVE  c[n + 1] = base + Len(p[n + 1]) /\ n + 1 <= Len(p[n + 1])
    OBVIOUS
  <2> DEFINE m == n + 1
  <2>2. m \in 1 .. Len(frames) /\ m - 1 = n /\ n \in 0 .. Len(frames) /\ n <= Len(frames)
    BY <1>3, <2>1
  <2>3. c[n] = base + Len(p[n]) /\ n <= Len(p[n])
    BY <1>6, <2>2
  <2> HIDE DEF m
  <2>4. p[m] = p[n] \o frames[m] /\ c[m] = c[n] + FrameLen(slots[m])
    BY <1>2, <1>4, <2>2
  <2>5. p[n] \in Bytes /\ frames[m] \in Bytes
    BY <1>2, <1>3, <2>2
  <2>6. Len(p[m]) = Len(p[n]) + Len(frames[m]) /\ Len(p[n]) \in Nat /\ Len(frames[m]) \in Nat
    BY <2>4, <2>5, Joins
  <2>7. Len(frames[m]) = FrameLen(slots[m]) /\ 1 <= FrameLen(slots[m])
    BY <2>2
  <2>8. c[m] = base + Len(p[m]) /\ m <= Len(p[m])
    BY <2>3, <2>4, <2>6, <2>7 DEF m
  <2> QED
    BY <2>8 DEF m
<1> HIDE DEF T
<1>7. Len(frames) \in T
  BY <1>3, <1>5, <1>6, Inductive
<1>8. FlattenSeq(frames) = p[Len(frames)] /\ FlattenSeq(frames) \in Bytes
  BY <1>1, FlattenIs, FlattenIn
<1> QED
  BY <1>3, <1>7, <1>8 DEF T

\* A sequence is one of whatever its elements are in.
LEMMA Members ==
  ASSUME NEW A, NEW B, NEW s \in Seq(A), \A i \in 1 .. Len(s) : s[i] \in B
  PROVE  s \in Seq(B)
<1>1. Len(s) \in Nat /\ s \in [1 .. Len(s) -> A]
  BY LenProperties
<1>2. s \in [1 .. Len(s) -> B]
  BY <1>1, Zenon
<1> QED
  BY <1>1, <1>2

(***************************************************************************)
(* The size that a save compares with the limit, before it encrypts        *)
(* anything, is the size of the file it then writes: a save that passes    *)
(* the first test passes the last, and read_vault_bytes takes the file.    *)
(* No length is cut off by its field of four bytes.  And the file is read  *)
(* back as what was written: its header, what is to be decrypted of the    *)
(* index, and each slot's frame.                                           *)
(***************************************************************************)
THEOREM FileRoundTrip ==
  ASSUME NEW h \in Headers, h.future_pad = NoPad,
         NEW entries \in Seq(Entries), Len(entries) \in U32,
         \A i \in DOMAIN entries : ValidEntry(entries[i]),
         NEW slots \in Seq(Slots), Len(slots) = Len(entries),
         CandidateLen(Len(SerializeIndex(entries)), slots) <= MaxVaultBytes,
         NEW nonce \in Of(NonceLen), NEW ct \in Of(Len(SerializeIndex(entries)) + TagLen),
         NEW frames \in Seq(Bytes), Len(frames) = Len(entries),
         \A i \in 1 .. Len(frames) : frames[i] \in FramesFor(slots[i], entries[i].item_id),
         NEW crc \in Of(4), NEW mac \in Of(MacLen)
  PROVE  LET file == BuildFile(h, nonce, ct, frames, crc, mac)
         IN  /\ file \in Bytes
             /\ Len(file) = CandidateLen(Len(SerializeIndex(entries)), slots)
             /\ Len(ct) \in U32 /\ \A i \in 1 .. Len(frames) : frames[i] \in FramesOf(TagLen)
             /\ ParseHeader(file, h.version) = Got(h, <<>>)
             /\ \E left : SealedIndex(file) = Got(<<nonce, ct>>, left)
             /\ SplitItemFrames(file, TRUE, TrailerLen) = Got(frames, <<>>)
<1> DEFINE n == Len(frames)
           il == Len(SerializeIndex(entries))
           base == HeaderLen + NonceLen + 4 + il + TagLen + 4 + TrailerLen
           flat == FlattenSeq(frames)
           hb == BuildHeader(h)
           rest == crc \o mac
           file == BuildFile(h, nonce, ct, frames, crc, mac)
<1>1. n \in Nat /\ Len(slots) = n /\ n \in U32
      /\ \A i \in 1 .. n : slots[i] \in Slots /\ entries[i].item_id \in U32
  <2>1. n = Len(entries) /\ n \in U32 /\ Len(slots) = n /\ n \in Nat
    BY DEF U32, Below
  <2> HIDE DEF n
  <2>2. \A i \in 1 .. n : slots[i] \in Slots /\ entries[i] \in Entries
    BY <2>1, ElementOfSeq
  <2>3. \A e \in Entries : e.item_id \in U32
    BY DEF Entries
  <2> QED
    BY <2>1, <2>2, <2>3
<1>2. il \in Nat
  <2>1. SerializeIndex(entries) \in Bytes
    BY IndexRoundTrip
  <2> QED
    BY <2>1, LenProperties DEF Bytes
<1>3. \A i \in 1 .. n : /\ frames[i] \in FramesOf(TagLen) /\ Len(frames[i]) = FrameLen(slots[i])
                        /\ FrameLen(slots[i]) \in Nat /\ 1 <= FrameLen(slots[i])
  BY <1>1, SlotFrame
<1> HIDE DEF il
<1>4. PICK c : /\ CandidateLen(il, slots) = c[Len(slots)] /\ IsSum(c, base, slots)
  BY <1>1, <1>2, <1>3, CandidateIs
<1>5. base \in Nat /\ base = 193 + il
  BY <1>2 DEF HeaderLen, NonceLen, TagLen, TrailerLen
<1> HIDE DEF base
<1>6. CandidateLen(il, slots) = base + Len(flat) /\ flat \in Bytes /\ Len(flat) \in Nat
  <2>1. c[Len(slots)] = base + Len(FlattenSeq(frames)) /\ FlattenSeq(frames) \in Bytes
    BY <1>1, <1>3, <1>4, <1>5, FramesSize
  <2> QED
    BY <1>4, <2>1, LenProperties DEF Bytes
<1>7. Len(ct) = il + TagLen /\ ct \in Bytes /\ Len(ct) \in U32
  <2>1. Len(ct) = il + TagLen /\ ct \in Bytes /\ TagLen = 16
    BY DEF Of, il, TagLen
  <2>2. base + Len(flat) <= 64 * 1024 * 1024
    BY <1>6 DEF il, MaxVaultBytes
  <2>3. il + 16 < U32Top /\ il + 16 \in Nat
    <3> HIDE DEF flat
    <3> QED
      BY <1>2, <1>5, <1>6, <2>2, Top
  <2> QED
    BY <2>1, <2>3 DEF U32, Below
<1>8. hb \in Of(HeaderLen) /\ \A x \in Bytes : ParseHeader(hb \o x, h.version) = Got(h, <<>>)
  BY HeaderRoundTrip
<1>9. rest \in Bytes /\ Len(rest) = 36 /\ 4 + Len(rest) = TrailerLen
  <2>1. crc \in Bytes /\ Len(crc) = 4 /\ mac \in Bytes /\ Len(mac) = 32
    BY DEF Of, MacLen
  <2>2. rest \in Bytes /\ Len(rest) = Len(crc) + Len(mac)
    BY <2>1, Joins
  <2>3. Len(rest) = 36
    BY <2>1, <2>2
  <2>4. 4 + 36 = TrailerLen
    BY DEF TrailerLen
  <2> QED
    BY <2>2, <2>3, <2>4, Zenon
<1>10. frames \in Seq(FramesOf(TagOf(TRUE))) /\ Len(frames) \in U32
  <2>1. TagOf(TRUE) = TagLen
    BY DEF TagOf
  <2>2. \A i \in 1 .. Len(frames) : frames[i] \in FramesOf(TagLen)
    BY <1>3
  <2>3. frames \in Seq(Bytes)
    OBVIOUS
  <2>4. frames \in Seq(FramesOf(TagLen))
    BY <2>2, <2>3, Members
  <2>5. Len(frames) \in U32
    BY <1>1
  <2> QED
    BY <2>1, <2>4, <2>5, Zenon
<1>11. file = FileAround(hb \o nonce, ct, frames, rest)
  BY Zenon DEF BuildFile
<1> HIDE DEF hb, rest, file
<1>12. /\ file \in Bytes
       /\ SplitItemFrames(file, TRUE, TrailerLen) = Got(frames, <<>>)
       /\ \E left : SealedIndex(file) = Got(<<nonce, ct>>, left)
  <2>1. LET raw == FileAround(hb \o nonce, ct, frames, rest)
        IN  /\ raw \in Bytes
            /\ SplitItemFrames(raw, TRUE, 4 + Len(rest)) = Got(frames, <<>>)
            /\ \E left : SealedIndex(raw) = Got(<<nonce, ct>>, left)
    BY <1>7, <1>8, <1>9, <1>10, FramesReadBack, ZenonT(40)
  <2> QED
    BY <1>9, <1>11, <2>1, Zenon
<1> DEFINE b == PushBytes(ct)
           d == Be32(n)
           x1 == Cat(d, rest)
           x2 == Cat(flat, x1)
           x3 == Cat(d, x2)
           x4 == Cat(b, x3)
           x5 == Cat(nonce, x4)
<1>13. file = Cat(Cat(hb, nonce), x4)
  BY <1>11, Zenon DEF FileAround, Cat
<1>14. /\ Sized(d, 4) /\ Sized(b, 4 + Len(ct)) /\ Sized(rest, 36) /\ Sized(flat, Len(flat))
       /\ Sized(nonce, 12) /\ Sized(hb, 117)
  <2>1. Sized(d, 4)
    BY <1>1, Number32 DEF Sized
  <2>2. Sized(b, 4 + Len(ct))
    BY <1>7, BytesSized
  <2>3. Sized(rest, 36) /\ Sized(flat, Len(flat))
    BY <1>6, <1>9 DEF Sized
  <2>4. Sized(nonce, 12) /\ Sized(hb, 117)
    BY <1>8 DEF Sized, Of, NonceLen, HeaderLen
  <2> QED
    BY <2>1, <2>2, <2>3, <2>4
<1> HIDE DEF b, d, flat
<1> DEFINE lf == Len(flat)
           lc == Len(ct)
<1>15. lf \in Nat /\ lc \in Nat /\ Sized(flat, lf) /\ Sized(b, 4 + lc)
  BY <1>6, <1>7, <1>14, LenProperties DEF Bytes
<1> HIDE DEF lf, lc
<1> DEFINE k2 == lf + 40
           k3 == 4 + k2
           lb == 4 + lc
           k4 == lb + k3
           k5 == 12 + k4
<1>16. /\ k2 \in Nat /\ k3 \in Nat /\ lb \in Nat /\ k4 \in Nat /\ k5 \in Nat
       /\ 117 + k5 = 193 - 16 + lc + lf
  BY <1>15
<1>17. Sized(x1, 40)
  <2>1. Sized(d, 4) /\ Sized(rest, 36) /\ 4 \in Nat /\ 36 \in Nat
    BY <1>14
  <2>2. Sized(x1, 4 + 36)
    BY <2>1, CatSized
  <2> QED
    BY <2>2
<1> HIDE DEF x1
<1>18. Sized(x2, k2)
  BY <1>15, <1>17, CatSized
<1> HIDE DEF x2, k2
<1>19. Sized(x3, k3)
  <2>1. Sized(d, 4)
    BY <1>14
  <2> QED
    BY <1>16, <1>18, <2>1, CatSized
<1> HIDE DEF x3, k3
<1>20. Sized(x4, k4)
  <2>1. Sized(b, lb)
    BY <1>15
  <2> HIDE DEF lb
  <2> QED
    BY <1>16, <1>19, <2>1, CatSized
<1> HIDE DEF x4, k4
<1>21. Sized(x5, k5)
  <2>1. Sized(nonce, 12)
    BY <1>14
  <2> QED
    BY <1>16, <1>20, <2>1, CatSized
<1> HIDE DEF x5, k5
<1>22. file = Cat(hb, x5)
  <2>1. hb \in Bytes /\ nonce \in Bytes /\ x4 \in Bytes
    BY <1>14, <1>20 DEF Sized
  <2>2. Cat(Cat(hb, nonce), x4) = Cat(hb, Cat(nonce, x4))
    BY <2>1, Regrouped
  <2> QED
    BY <1>13, <2>2 DEF x5
<1>23. Len(file) = CandidateLen(il, slots)
  <2>1. Sized(hb, 117) /\ Sized(Cat(hb, x5), 117 + k5)
    <3>1. Sized(hb, 117)
      BY <1>14
    <3> QED
      BY <1>16, <1>21, <3>1, CatSized
  <2>2. Len(file) = 117 + k5
    BY <1>22, <2>1 DEF Sized
  <2>3. lc = il + 16
    BY <1>7 DEF lc, TagLen
  <2>4. CandidateLen(il, slots) = (193 + il) + lf
    BY <1>5, <1>6 DEF lf
  <2>5. 117 + k5 = (193 + il) + lf
    BY <1>2, <1>15, <1>16, <2>3
  <2> QED
    BY <2>2, <2>4, <2>5
<1>24. ParseHeader(file, h.version) = Got(h, <<>>)
  <2>1. x5 \in Bytes /\ file = hb \o x5
    BY <1>21, <1>22 DEF Sized, Cat
  <2> QED
    BY <1>8, <2>1
<1> QED
  BY <1>3, <1>7, <1>12, <1>23, <1>24 DEF file, il
=============================================================================
