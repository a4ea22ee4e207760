-------------------------- MODULE MethodCalls_proofs --------------------------
(***************************************************************************)
(* Proofs about values, tokens, bytes and method calls.                    *)
(***************************************************************************)
EXTENDS MethodCalls, Conversions_proofs

-----------------------------------------------------------------------------
(***************************************************************************)
(* Ends of sequences                                                       *)
(***************************************************************************)

\* A sequence c that ends with e.
EndsWith(S, c, e) == e \in Seq(S) /\ \E s \in Seq(S) : c = s \o e

LEMMA EndsWithItself ==
  ASSUME NEW S, NEW c \in Seq(S)
  PROVE  EndsWith(S, c, c)
<1>1. <<>> \in Seq(S) /\ c = <<>> \o c
  BY ConcatEmptySeq, EmptySeq
<1> QED BY <1>1 DEF EndsWith

LEMMA EndsWithEnd ==
  ASSUME NEW S, NEW c, NEW s \in Seq(S), NEW t \in Seq(S), EndsWith(S, c, s \o t)
  PROVE  EndsWith(S, c, t)
<1>1. PICK r \in Seq(S) : c = r \o (s \o t)
  BY DEF EndsWith
<1>2. c = (r \o s) \o t /\ r \o s \in Seq(S)
  <2>1. r \o s \in Seq(S)
    BY ConcatProperties
  <2>2. (r \o s) \o t = r \o (s \o t)
    BY ConcatAssociative
  <2> QED BY <1>1, <2>1, <2>2, Zenon
<1> QED BY <1>2 DEF EndsWith

LEMMA LastOfEnd ==
  ASSUME NEW S, NEW c, NEW e, EndsWith(S, c, e)
  PROVE  /\ c \in Seq(S) /\ Len(c) \in Nat /\ Len(e) \in Nat /\ Len(e) <= Len(c)
         /\ LastOf(c, Len(e)) = e
<1>1. PICK s \in Seq(S) : c = s \o e
  BY DEF EndsWith
<1>2. e \in Seq(S)
  BY DEF EndsWith
<1>3. PICK m \in Nat, n \in Nat : m = Len(s) /\ n = Len(e)
  BY <1>2
<1>4. c \in Seq(S) /\ Len(c) = m + n
  BY <1>1, <1>2, <1>3, ConcatProperties
<1>5. SubSeq(c, m + 1, m + n) = e
  BY <1>1, <1>2, <1>3, <1>4, CutRest
<1>6. Len(c) - Len(e) + 1 = m + 1 /\ Len(c) = m + n
  BY <1>3, <1>4
<1>7. LastOf(c, Len(e)) = SubSeq(c, Len(c) - Len(e) + 1, Len(c))
  BY DEF LastOf
<1>8. LastOf(c, Len(e)) = e
  BY <1>5, <1>6, <1>7
<1> QED BY <1>3, <1>4, <1>8

\* These facts are all that is used of several sequences one behind the other.
IsJoin(S, c, s, t) == s \in Seq(S) /\ t \in Seq(S) /\ c = s \o t

LEMMA JoinFacts ==
  ASSUME NEW S, NEW s \in Seq(S), NEW t \in Seq(S)
  PROVE  IsJoin(S, s \o t, s, t) /\ s \o t \in Seq(S)
BY ConcatProperties DEF IsJoin

LEMMA JoinAssociative ==
  ASSUME NEW S, NEW s, NEW t, NEW u, NEW v, NEW w, NEW c,
         IsJoin(S, v, s, t), IsJoin(S, c, v, u), IsJoin(S, w, t, u)
  PROVE  IsJoin(S, c, s, w)
<1>1. s \in Seq(S) /\ t \in Seq(S) /\ u \in Seq(S)
  BY DEF IsJoin
<1>2. (s \o t) \o u = s \o (t \o u)
  BY <1>1, ConcatAssociative
<1>3. t \o u \in Seq(S)
  BY <1>1, ConcatProperties
<1> QED BY <1>2, <1>3 DEF IsJoin

InARow(S, a, b, c, d) ==
  /\ ((a \o b) \o c) \o d = a \o (b \o (c \o d))
  /\ c \o d \in Seq(S) /\ b \o (c \o d) \in Seq(S) /\ a \o (b \o (c \o d)) \in Seq(S)

LEMMA FourInARow ==
  ASSUME NEW S, NEW a \in Seq(S), NEW b \in Seq(S), NEW c \in Seq(S), NEW d \in Seq(S)
  PROVE  InARow(S, a, b, c, d)
<1>1. PICK ab : ab = a \o b /\ ab \in Seq(S) /\ IsJoin(S, ab, a, b)
  BY JoinFacts, Zenon
<1>2. PICK abc : abc = ab \o c /\ abc \in Seq(S) /\ IsJoin(S, abc, ab, c)
  BY <1>1, JoinFacts, Zenon
<1>3. PICK abcd : abcd = abc \o d /\ abcd \in Seq(S) /\ IsJoin(S, abcd, abc, d)
  BY <1>2, JoinFacts, Zenon
<1>4. PICK cd : cd = c \o d /\ cd \in Seq(S) /\ IsJoin(S, cd, c, d)
  BY JoinFacts, Zenon
<1>5. PICK bcd : bcd = b \o cd /\ bcd \in Seq(S) /\ IsJoin(S, bcd, b, cd)
  BY <1>4, JoinFacts, Zenon
<1>6. IsJoin(S, abcd, ab, cd)
  BY <1>2, <1>3, <1>4, JoinAssociative, Zenon
<1>7. IsJoin(S, abcd, a, bcd)
  BY <1>1, <1>5, <1>6, JoinAssociative
<1>8. abcd = a \o bcd
  BY <1>7, Zenon DEF IsJoin
<1>9. abcd = ((a \o b) \o c) \o d
  BY <1>1, <1>2, <1>3, Zenon
<1>10. bcd = b \o (c \o d)
  BY <1>4, <1>5, Zenon
<1> QED BY <1>3, <1>4, <1>5, <1>8, <1>9, <1>10, Zenon DEF InARow

LEMMA NextOfEnd ==
  ASSUME NEW S, NEW c, NEW x \in S, NEW e \in Seq(S), EndsWith(S, c, <<x>> \o e)
  PROVE  /\ Len(<<x>> \o e) = Len(e) + 1
         /\ NextOf(c, Len(e) + 1) = x
         /\ EndsWith(S, c, e)
<1>1. PICK s \in Seq(S) : c = s \o (<<x>> \o e)
  BY DEF EndsWith
<1>2. <<x>> \in Seq(S) /\ Len(<<x>>) = 1 /\ <<x>>[1] = x
  OBVIOUS
<1>3. PICK m \in Nat, n \in Nat : m = Len(s) /\ n = Len(e)
  OBVIOUS
<1>4. PICK u \in Seq(S) : u = <<x>> \o e
  BY <1>2, ConcatProperties
<1>5. Len(u) = n + 1 /\ u[1] = x
  <2>1. 1 \in 1 .. Len(<<x>>) + Len(e) /\ 1 <= Len(<<x>>)
    BY <1>2, <1>3
  <2> QED BY <1>2, <1>3, <1>4, <2>1, ConcatProperties
<1>6. Len(c) = m + (n + 1) /\ c[m + 1] = u[1]
  <2>1. m + 1 \in 1 .. Len(s) + Len(u) /\ ~(m + 1 <= Len(s)) /\ (m + 1) - Len(s) = 1
    BY <1>3, <1>5
  <2>2. Len(s \o u) = Len(s) + Len(u) /\ (s \o u)[m + 1] = u[(m + 1) - Len(s)]
    BY <2>1, ConcatProperties
  <2> QED BY <1>1, <1>3, <1>4, <1>5, <2>1, <2>2
<1>7. Len(c) - (Len(e) + 1) + 1 = m + 1
  BY <1>3, <1>6
<1>8. EndsWith(S, c, e)
  BY <1>2, EndsWithEnd
<1> QED BY <1>3, <1>4, <1>5, <1>6, <1>7, <1>8 DEF NextOf

-----------------------------------------------------------------------------
(***************************************************************************)
(* Tokens and bytes                                                        *)
(***************************************************************************)

AtomData == {d \in Seq(Byte) : Len(d) \in AtomLengths}
Controls == Commands \union {StartList, EndList, StartName, EndName}

\* The tokens that values are made of.
AtomTokens == {Atom(GetTag(Len(d)), b, s, d) : b \in BOOLEAN, s \in BOOLEAN, d \in AtomData}
ControlTokens == {Control(c) : c \in Controls}
WrittenTokens == AtomTokens \union ControlTokens

ShortHeaderOf(t, n) == <<128 + Bit(t.isByte, 32) + Bit(t.isSigned, 16) + (n % 16)>>
MediumHeaderOf(t, n) ==
  <<192 + Bit(t.isByte, 16) + Bit(t.isSigned, 8) + ((n % 2048) \div 256), n % 256>>
LongHeaderOf(t, n) ==
  <<224 + Bit(t.isByte, 2) + Bit(t.isSigned, 1),
    ((n \div 256) \div 256) % 256, (n \div 256) % 256, n % 256>>

Header(t) ==
  CASE t.tag = ShortAtom  -> ShortHeaderOf(t, Len(t.data))
    [] t.tag = MediumAtom -> MediumHeaderOf(t, Len(t.data))
    [] t.tag = LongAtom   -> LongHeaderOf(t, Len(t.data))
    [] OTHER              -> <<t.tag>>

\* The parts of a header.
Flags == BOOLEAN
Bits == {0, 1}
ShortLengths == 0 .. 15
MediumLengths == 16 .. 2047

\* A flag as a bit of a header, and back.
LEMMA FlagBit ==
  ASSUME NEW b \in Flags
  PROVE  \E x \in Bits : /\ \A w \in Nat : Bit(b, w) = w * x
                           /\ \A g, v : (g \div v) % 2 = x => HasBit(g, v) = b
<1> USE DEF Bits
<1>1. CASE b = TRUE
  <2>1. \A w \in Nat : Bit(b, w) = w * 1
    BY <1>1 DEF Bit
  <2>2. \A g, v : (g \div v) % 2 = 1 => HasBit(g, v) = TRUE
    BY Zenon DEF HasBit
  <2> QED BY <1>1, <2>1, <2>2
<1>2. CASE b = FALSE
  <2>1. \A w \in Nat : Bit(b, w) = w * 0
    BY <1>2 DEF Bit
  <2>2. \A g, v : (g \div v) % 2 = 0 => HasBit(g, v) = FALSE
    <3>1. 0 # 1
      OBVIOUS
    <3> QED BY <3>1, Zenon DEF HasBit
  <2> QED BY <1>2, <2>1, <2>2
<1> QED BY <1>1, <1>2, Zenon DEF Flags

LEMMA Quotient ==
  ASSUME NEW w \in Nat \ {0}, NEW q \in Nat, NEW r \in 0 .. w - 1
  PROVE  (w * q + r) \div w = q /\ (w * q + r) % w = r
OBVIOUS

\* A header that counts up to w, with a bit for each of y and x above that.
IsHeader(h, v, w, q, x, y, n) ==
  /\ x \in Bits /\ y \in Bits /\ w \in Nat \ {0} /\ v = 2 * w /\ q \in Nat
  /\ n \in 0 .. w - 1 /\ h = v * (2 * q + x) + (w * y + n)
HeaderRead(h, v, w, x, y, n) ==
  h \in Nat /\ (h \div v) % 2 = x /\ (h \div w) % 2 = y /\ h % w = n

LEMMA HeaderBits ==
  ASSUME NEW h, NEW v, NEW w, NEW q, NEW x, NEW y, NEW n, IsHeader(h, v, w, q, x, y, n)
  PROVE  HeaderRead(h, v, w, x, y, n)
<1> USE DEF IsHeader, HeaderRead, Bits
<1>1. PICK u \in Nat, p \in Nat : u = 2 * q + x /\ p = 2 * u + y
  OBVIOUS
<1>2. h = w * p + n
  BY <1>1
<1>3. h \div w = p /\ h % w = n /\ h \in Nat
  <2>1. (w * p + n) \div w = p /\ (w * p + n) % w = n
    BY Quotient
  <2>2. w * p \in Nat /\ n \in Nat
    OBVIOUS
  <2> QED BY <1>2, <2>1, <2>2
<1>4. p % 2 = y /\ u % 2 = x
  BY <1>1
<1>5. h \div v = u
  <2>1. PICK r \in 0 .. v - 1 : r = w * y + n
    <3>1. w * y + n \in 0 .. v - 1
      OBVIOUS
    <3> QED BY <3>1
  <2>2. v \in Nat \ {0}
    OBVIOUS
  <2>3. (v * u + r) \div v = u
    BY <2>1, <2>2, Quotient
  <2> QED BY <1>1, <2>1, <2>3
<1> QED BY <1>3, <1>4, <1>5

IsShortHeader(h, x, y, n) ==
  x \in Bits /\ y \in Bits /\ n \in ShortLengths /\ h = 128 + 32 * x + 16 * y + (n % 16)
IsMediumHeader(h, x, y, n) ==
  /\ x \in Bits /\ y \in Bits /\ n \in MediumLengths
  /\ h = 192 + 16 * x + 8 * y + ((n % 2048) \div 256)
IsLongHeader(h, x, y, n) ==
  x \in Bits /\ y \in Bits /\ n \in AtomLengths /\ h = 224 + 2 * x + y

\* What the headers of each kind count, and how they are read.
LEMMA ShortHeader ==
  ASSUME NEW h, NEW x, NEW y, NEW n, IsShortHeader(h, x, y, n)
  PROVE  /\ h \in Nat /\ GetTagFromHeader(h) = ShortAtom
         /\ (h \div 32) % 2 = x /\ (h \div 16) % 2 = y /\ h % 16 = n
<1> USE DEF IsShortHeader, Bits, ShortLengths
<1>1. n % 16 = n
  OBVIOUS
<1>2. h \in Nat /\ (h \div 32) % 2 = x /\ (h \div 16) % 2 = y /\ h % 16 = n
  <2>1. PICK w \in Nat \ {0}, v \in Nat, q \in Nat : w = 16 /\ v = 32 /\ q = 2
    OBVIOUS
  <2>2. IsHeader(h, v, w, q, x, y, n)
    BY <1>1, <2>1 DEF IsHeader
  <2>3. HeaderRead(h, v, w, x, y, n)
    BY <2>2, HeaderBits
  <2> QED BY <2>1, <2>3 DEF HeaderRead
<1>3. h \in 128 .. 191
  BY <1>1
<1>4. GetTagFromHeader(h) = ShortAtom
  BY <1>3 DEF GetTagFromHeader, ShortAtom
<1> QED BY <1>2, <1>4

MediumHeaderRead(h, x, y, n) ==
  /\ h \in Nat /\ GetTagFromHeader(h) = MediumAtom
  /\ (h \div 16) % 2 = x /\ (h \div 8) % 2 = y
  /\ 256 * (h % 8) + (n % 256) = n /\ n % 256 \in Nat

LEMMA MediumHeader ==
  ASSUME NEW h, NEW x, NEW y, NEW n, IsMediumHeader(h, x, y, n)
  PROVE  MediumHeaderRead(h, x, y, n)
<1> USE DEF IsMediumHeader, MediumHeaderRead, Bits, MediumLengths
<1>1. n % 2048 = n
  OBVIOUS
<1>2. PICK k \in 0 .. 7, m \in 0 .. 255 : n = 256 * k + m
  <2>1. n \div 256 \in 0 .. 7 /\ n % 256 \in 0 .. 255 /\ n = 256 * (n \div 256) + (n % 256)
    OBVIOUS
  <2> QED BY <2>1
<1>3. n \div 256 = k /\ n % 256 = m
  BY <1>2
<1>4. h \in Nat /\ (h \div 16) % 2 = x /\ (h \div 8) % 2 = y /\ h % 8 = k
  <2>1. PICK w \in Nat \ {0}, v \in Nat, q \in Nat : w = 8 /\ v = 16 /\ q = 6
    OBVIOUS
  <2>2. IsHeader(h, v, w, q, x, y, k)
    BY <1>1, <1>3, <2>1 DEF IsHeader
  <2>3. HeaderRead(h, v, w, x, y, k)
    BY <2>2, HeaderBits
  <2> QED BY <2>1, <2>3 DEF HeaderRead
<1>5. h \in 192 .. 223
  BY <1>1, <1>3
<1>6. GetTagFromHeader(h) = MediumAtom
  BY <1>5 DEF GetTagFromHeader, MediumAtom
<1>7. 256 * (h % 8) + (n % 256) = n /\ n % 256 \in Nat
  BY <1>2, <1>3, <1>4
<1> QED BY <1>4, <1>6, <1>7

LongHeaderRead(h, x, y, n) ==
  /\ h \in Nat /\ GetTagFromHeader(h) = LongAtom
  /\ (h \div 2) % 2 = x /\ (h \div 1) % 2 = y
  /\ ((n \div 256) \div 256) % 256 \in Nat /\ (n \div 256) % 256 \in Nat /\ n % 256 \in Nat
  /\ 256 * (256 * (((n \div 256) \div 256) % 256) + ((n \div 256) % 256)) + (n % 256) = n

LEMMA LongHeader ==
  ASSUME NEW h, NEW x, NEW y, NEW n, IsLongHeader(h, x, y, n)
  PROVE  LongHeaderRead(h, x, y, n)
<1> USE DEF IsLongHeader, LongHeaderRead, Bits
<1>1. PICK u \in Nat, m \in Nat : u = n \div 256 /\ m = n % 256 /\ n = 256 * u + m
  BY ByteSplit DEF AtomLengths, Octet
<1>2. PICK i \in Nat, j \in Nat : i = u \div 256 /\ j = u % 256 /\ u = 256 * i + j
  BY ByteSplit DEF Octet
<1>3. i < 256
  BY <1>1, <1>2 DEF AtomLengths
<1>4. i % 256 = i
  BY <1>3
<1>5. h \in Nat /\ (h \div 2) % 2 = x /\ (h \div 1) % 2 = y
  <2>1. PICK w \in Nat \ {0}, v \in Nat, q \in Nat, z \in Nat : w = 1 /\ v = 2 /\ q = 56 /\ z = 0
    OBVIOUS
  <2>2. IsHeader(h, v, w, q, x, y, z)
    BY <2>1 DEF IsHeader
  <2>3. HeaderRead(h, v, w, x, y, z)
    BY <2>2, HeaderBits
  <2> QED BY <2>1, <2>3 DEF HeaderRead
<1>6. h \in 224 .. 231
  OBVIOUS
<1>7. GetTagFromHeader(h) = LongAtom
  BY <1>6 DEF GetTagFromHeader, LongAtom
<1>8. ((n \div 256) \div 256) % 256 = i /\ (n \div 256) % 256 = j /\ n % 256 = m
  BY <1>1, <1>2, <1>4
<1>9. 256 * (256 * i + j) + m = n
  BY <1>1, <1>2
<1>10. PICK a, b, c : a = ((n \div 256) \div 256) % 256 /\ b = (n \div 256) % 256 /\ c = n % 256
  OBVIOUS
<1>11. a \in Nat /\ b \in Nat /\ c \in Nat /\ 256 * (256 * a + b) + c = n
  BY <1>8, <1>9, <1>10
<1> QED BY <1>5, <1>7, <1>10, <1>11, SMTT(60)

LEMMA GetTagFacts ==
  ASSUME NEW n \in AtomLengths
  PROVE  /\ \/ GetTag(n) = ShortAtom /\ n \in ShortLengths
            \/ GetTag(n) = MediumAtom /\ n \in MediumLengths
            \/ GetTag(n) = LongAtom /\ n > 2047
         /\ GetTag(n) \in Atoms
<1>1. n \in Nat
  BY DEF AtomLengths
<1> QED BY <1>1 DEF GetTag, Atoms, ShortLengths, MediumLengths

\* An atom is read behind its header.
IsLaid(c, head, data, others) ==
  /\ head \in Seq(Nat) /\ data \in Seq(Nat) /\ others \in Seq(Nat)
  /\ c = head \o (data \o others)

LEMMA AtomRead ==
  ASSUME NEW c, NEW head, NEW data, NEW others, IsLaid(c, head, data, others),
         NEW tag, NEW b, NEW s
  PROVE  ReadAtom(c, tag, b, s, Len(head), Len(data)) = Read(Atom(tag, b, s, data), Len(others))
<1> USE DEF IsLaid
<1>1. PICK k \in Nat, m \in Nat, n \in Nat : k = Len(head) /\ m = Len(data) /\ n = Len(others)
  OBVIOUS
<1>2. Len(c) = k + (m + n)
  BY <1>1, ConcatProperties
<1>3. SubSeq(c, k + 1, k + m) = data
  BY <1>1, CutMiddle
<1>4. ~(Len(c) < k + m) /\ Len(c) - (k + m) = n
  BY <1>1, <1>2
<1>5. ReadAtom(c, tag, b, s, k, m) = Read(Atom(tag, b, s, data), n)
  BY <1>3, <1>4, Zenon DEF ReadAtom
<1> QED BY <1>1, <1>5

LEMMA SerializeTokenIs ==
  ASSUME NEW t
  PROVE  SerializeToken(t) = Header(t) \o t.data
BY DEF SerializeToken, Header, ShortHeaderOf, MediumHeaderOf, LongHeaderOf

LEMMA TagsDiffer ==
  /\ TinyAtom # ShortAtom /\ TinyAtom # MediumAtom /\ TinyAtom # LongAtom
  /\ ShortAtom # MediumAtom /\ ShortAtom # LongAtom /\ MediumAtom # LongAtom
  /\ Controls \intersect Atoms = {}
BY DEF TinyAtom, ShortAtom, MediumAtom, LongAtom, Atoms, Controls, Commands, Call, EndOfData,
       StartList, EndList, StartName, EndName

\* The atoms of each kind, and their headers.
IsAtom(t, tag, b, s, d, n) ==
  b \in Flags /\ s \in Flags /\ d \in Seq(Nat) /\ n = Len(d) /\ t = Atom(tag, b, s, d)
ShortHead(t, h, b, s, n) ==
  /\ h \in Nat /\ Header(t) = <<h>> /\ GetTagFromHeader(h) = ShortAtom
  /\ HasBit(h, 32) = b /\ HasBit(h, 16) = s /\ h % 16 = n
MediumHead(t, h, l, b, s, n) ==
  /\ h \in Nat /\ l \in Nat /\ Header(t) = <<h, l>> /\ GetTagFromHeader(h) = MediumAtom
  /\ HasBit(h, 16) = b /\ HasBit(h, 8) = s /\ 256 * (h % 8) + l = n
LongHead(t, h, i, j, l, b, s, n) ==
  /\ h \in Nat /\ i \in Nat /\ j \in Nat /\ l \in Nat
  /\ Header(t) = <<h, i, j, l>> /\ GetTagFromHeader(h) = LongAtom
  /\ HasBit(h, 2) = b /\ HasBit(h, 1) = s /\ 256 * (256 * i + j) + l = n

LEMMA ShortHeaderIs ==
  ASSUME NEW t, NEW b, NEW s, NEW d, NEW n \in ShortLengths, IsAtom(t, ShortAtom, b, s, d, n)
  PROVE  \E h : ShortHead(t, h, b, s, n)
<1>0. b \in Flags /\ s \in Flags /\ d \in Seq(Nat) /\ n = Len(d) /\ t = Atom(ShortAtom, b, s, d)
  BY DEF IsAtom
<1>1. PICK x \in Bits : Bit(b, 32) = 32 * x /\ \A g, v : (g \div v) % 2 = x => HasBit(g, v) = b
  BY <1>0, FlagBit
<1>2. PICK y \in Bits : Bit(s, 16) = 16 * y /\ \A g, v : (g \div v) % 2 = y => HasBit(g, v) = s
  BY <1>0, FlagBit
<1>3. PICK h : h = 128 + Bit(b, 32) + Bit(s, 16) + (n % 16)
  OBVIOUS
<1>4. h \in Nat /\ GetTagFromHeader(h) = ShortAtom
      /\ (h \div 32) % 2 = x /\ (h \div 16) % 2 = y /\ h % 16 = n
  <2>1. IsShortHeader(h, x, y, n)
    BY <1>1, <1>2, <1>3 DEF IsShortHeader
  <2> QED BY <2>1, ShortHeader
<1>5. HasBit(h, 32) = b /\ HasBit(h, 16) = s
  BY <1>1, <1>2, <1>4, Zenon
<1>6. Header(t) = <<h>>
  <2>1. t.tag = ShortAtom /\ t.isByte = b /\ t.isSigned = s /\ t.data = d
    BY <1>0 DEF Atom
  <2>2. Header(t) = ShortHeaderOf(t, Len(t.data))
    BY <2>1, TagsDiffer, Zenon DEF Header
  <2> QED BY <1>0, <1>3, <2>1, <2>2 DEF ShortHeaderOf
<1> QED BY <1>4, <1>5, <1>6, Zenon DEF ShortHead

LEMMA MediumHeaderIs ==
  ASSUME NEW t, NEW b, NEW s, NEW d, NEW n \in MediumLengths, IsAtom(t, MediumAtom, b, s, d, n)
  PROVE  \E h, l : MediumHead(t, h, l, b, s, n)
<1>0. b \in Flags /\ s \in Flags /\ d \in Seq(Nat) /\ n = Len(d) /\ t = Atom(MediumAtom, b, s, d)
  BY DEF IsAtom
<1>1. PICK x \in Bits : Bit(b, 16) = 16 * x /\ \A g, v : (g \div v) % 2 = x => HasBit(g, v) = b
  BY <1>0, FlagBit
<1>2. PICK y \in Bits : Bit(s, 8) = 8 * y /\ \A g, v : (g \div v) % 2 = y => HasBit(g, v) = s
  BY <1>0, FlagBit
<1>3. PICK h, l : h = 192 + Bit(b, 16) + Bit(s, 8) + ((n % 2048) \div 256) /\ l = n % 256
  OBVIOUS
<1>4. h \in Nat /\ GetTagFromHeader(h) = MediumAtom
      /\ (h \div 16) % 2 = x /\ (h \div 8) % 2 = y /\ 256 * (h % 8) + l = n /\ l \in Nat
  <2>1. IsMediumHeader(h, x, y, n)
    BY <1>1, <1>2, <1>3 DEF IsMediumHeader
  <2>2. MediumHeaderRead(h, x, y, n)
    BY <2>1, MediumHeader
  <2> QED BY <1>3, <2>2 DEF MediumHeaderRead
<1>5. HasBit(h, 16) = b /\ HasBit(h, 8) = s
  BY <1>1, <1>2, <1>4, Zenon
<1>6. Header(t) = <<h, l>>
  <2>1. t.tag = MediumAtom /\ t.isByte = b /\ t.isSigned = s /\ t.data = d
    BY <1>0, Zenon DEF Atom
  <2>2. Header(t) = MediumHeaderOf(t, Len(t.data))
    BY <2>1, TagsDiffer, Zenon DEF Header
  <2> QED BY <1>0, <1>3, <2>1, <2>2 DEF MediumHeaderOf
<1> QED BY <1>4, <1>5, <1>6, Zenon DEF MediumHead

LEMMA LongHeaderIs ==
  ASSUME NEW t, NEW b, NEW s, NEW d, NEW n \in AtomLengths, IsAtom(t, LongAtom, b, s, d, n)
  PROVE  \E h, i, j, l : LongHead(t, h, i, j, l, b, s, n)
<1>0. b \in Flags /\ s \in Flags /\ d \in Seq(Nat) /\ n = Len(d) /\ t = Atom(LongAtom, b, s, d)
  BY DEF IsAtom
<1>1. PICK x \in Bits : Bit(b, 2) = 2 * x /\ \A g, v : (g \div v) % 2 = x => HasBit(g, v) = b
  BY <1>0, FlagBit
<1>2. PICK y \in Bits : Bit(s, 1) = 1 * y /\ \A g, v : (g \div v) % 2 = y => HasBit(g, v) = s
  BY <1>0, FlagBit
<1>3. PICK h, i, j, l : h = 224 + Bit(b, 2) + Bit(s, 1) /\ i = ((n \div 256) \div 256) % 256
                        /\ j = (n \div 256) % 256 /\ l = n % 256
  OBVIOUS
<1>4. h \in Nat /\ GetTagFromHeader(h) = LongAtom
      /\ (h \div 2) % 2 = x /\ (h \div 1) % 2 = y
      /\ i \in Nat /\ j \in Nat /\ l \in Nat /\ 256 * (256 * i + j) + l = n
  <2>1. IsLongHeader(h, x, y, n)
    BY <1>1, <1>2, <1>3 DEF IsLongHeader, Bits
  <2>2. LongHeaderRead(h, x, y, n)
    BY <2>1, LongHeader
  <2> QED BY <1>3, <2>2 DEF LongHeaderRead
<1>5. HasBit(h, 2) = b /\ HasBit(h, 1) = s
  BY <1>1, <1>2, <1>4, Zenon
<1>6. Header(t) = <<h, i, j, l>>
  <2>1. t.tag = LongAtom /\ t.isByte = b /\ t.isSigned = s /\ t.data = d
    BY <1>0, Zenon DEF Atom
  <2>2. Header(t) = LongHeaderOf(t, Len(t.data))
    BY <2>1, TagsDiffer, Zenon DEF Header
  <2> QED BY <1>0, <1>3, <2>1, <2>2 DEF LongHeaderOf
<1>7. h \in Nat /\ i \in Nat /\ j \in Nat /\ l \in Nat
  BY <1>4
<1>8. GetTagFromHeader(h) = LongAtom /\ HasBit(h, 2) = b /\ HasBit(h, 1) = s
      /\ 256 * (256 * i + j) + l = n
  BY <1>4, <1>5
<1>9. LongHead(t, h, i, j, l, b, s, n)
  BY <1>6, <1>7, <1>8, Zenon DEF LongHead
<1> QED BY <1>9

\* A token is read from the bytes it was written as, whatever follows them.
LEMMA ShortRead ==
  ASSUME NEW b \in Flags, NEW s \in Flags, NEW d \in Seq(Nat), NEW others \in Seq(Nat),
         NEW n \in ShortLengths, n = Len(d), NEW t, t = Atom(ShortAtom, b, s, d)
  PROVE  /\ Header(t) \in Seq(Nat) /\ Len(Header(t)) > 0
         /\ DeSerializeToken(Header(t) \o (d \o others)) = Read(t, Len(others))
<1>1. PICK h : ShortHead(t, h, b, s, n)
  BY ShortHeaderIs DEF IsAtom
<1>2. h \in Nat /\ GetTagFromHeader(h) = ShortAtom /\ h % 16 = n
  BY <1>1 DEF ShortHead
<1>3. HasBit(h, 32) = b /\ HasBit(h, 16) = s
  BY <1>1, Zenon DEF ShortHead
<1>4. Header(t) = <<h>>
  BY <1>1 DEF ShortHead
<1>5. PICK head \in Seq(Nat) : head = <<h>> /\ Len(head) = 1
  <2>1. <<h>> \in Seq(Nat) /\ Len(<<h>>) = 1
    BY <1>2
  <2> QED BY <2>1
<1>6. PICK c : c = head \o (d \o others) /\ IsLaid(c, head, d, others)
  BY DEF IsLaid
<1>7. Head(c) = h
  BY <1>2, <1>5, <1>6, ConcatProperties
<1>8. DeSerializeToken(c) = ReadAtom(c, ShortAtom, b, s, 1, n)
  BY <1>2, <1>3, <1>7, TagsDiffer, Zenon DEF DeSerializeToken
<1>9. ReadAtom(c, ShortAtom, b, s, 1, n) = Read(t, Len(others))
  <2>1. ReadAtom(c, ShortAtom, b, s, Len(head), Len(d)) = Read(Atom(ShortAtom, b, s, d), Len(others))
    BY <1>6, AtomRead
  <2> QED BY <1>5, <2>1
<1> QED BY <1>4, <1>5, <1>6, <1>8, <1>9

LEMMA MediumRead ==
  ASSUME NEW b \in Flags, NEW s \in Flags, NEW d \in Seq(Nat), NEW others \in Seq(Nat),
         NEW n \in MediumLengths, n = Len(d), NEW t, t = Atom(MediumAtom, b, s, d)
  PROVE  /\ Header(t) \in Seq(Nat) /\ Len(Header(t)) > 0
         /\ DeSerializeToken(Header(t) \o (d \o others)) = Read(t, Len(others))
<1>1. PICK h, l : MediumHead(t, h, l, b, s, n)
  BY MediumHeaderIs DEF IsAtom
<1>2. h \in Nat /\ GetTagFromHeader(h) = MediumAtom /\ 256 * (h % 8) + l = n /\ l \in Nat
  BY <1>1 DEF MediumHead
<1>3. HasBit(h, 16) = b /\ HasBit(h, 8) = s
  BY <1>1, Zenon DEF MediumHead
<1>4. Header(t) = <<h, l>>
  BY <1>1 DEF MediumHead
<1>5. PICK head \in Seq(Nat) : /\ head = <<h, l>> /\ Len(head) = 2
                               /\ head[1] = h /\ head[2] = l
  <2>1. /\ <<h, l>> \in Seq(Nat) /\ Len(<<h, l>>) = 2
        /\ <<h, l>>[1] = h /\ <<h, l>>[2] = l
    BY <1>2
  <2> QED BY <2>1
<1>6. PICK c : c = head \o (d \o others) /\ IsLaid(c, head, d, others)
  BY DEF IsLaid
<1>7. Head(c) = h /\ c[2] = l /\ ~(Len(c) < 2)
  BY <1>2, <1>5, <1>6, ConcatProperties
<1>8. DeSerializeToken(c) = ReadAtom(c, MediumAtom, b, s, 2, n)
  BY <1>2, <1>3, <1>7, TagsDiffer, Zenon DEF DeSerializeToken
<1>9. ReadAtom(c, MediumAtom, b, s, 2, n) = Read(t, Len(others))
  <2>1. ReadAtom(c, MediumAtom, b, s, Len(head), Len(d)) = Read(Atom(MediumAtom, b, s, d), Len(others))
    BY <1>6, AtomRead
  <2> QED BY <1>5, <2>1
<1> QED BY <1>4, <1>5, <1>6, <1>8, <1>9

LEMMA LongRead ==
  ASSUME NEW b \in Flags, NEW s \in Flags, NEW d \in Seq(Nat), NEW others \in Seq(Nat),
         NEW n \in AtomLengths, n = Len(d), NEW t, t = Atom(LongAtom, b, s, d)
  PROVE  /\ Header(t) \in Seq(Nat) /\ Len(Header(t)) > 0
         /\ DeSerializeToken(Header(t) \o (d \o others)) = Read(t, Len(others))
<1>1. PICK h, i, j, l : LongHead(t, h, i, j, l, b, s, n)
  BY LongHeaderIs DEF IsAtom
<1>2. h \in Nat /\ GetTagFromHeader(h) = LongAtom
      /\ i \in Nat /\ j \in Nat /\ l \in Nat /\ 256 * (256 * i + j) + l = n
  BY <1>1 DEF LongHead
<1>3. HasBit(h, 2) = b /\ HasBit(h, 1) = s
  BY <1>1, Zenon DEF LongHead
<1>4. Header(t) = <<h, i, j, l>>
  BY <1>1 DEF LongHead
<1>5. PICK head \in Seq(Nat) : /\ head = <<h, i, j, l>> /\ Len(head) = 4
                               /\ head[1] = h /\ head[2] = i /\ head[3] = j /\ head[4] = l
  <2>1. /\ <<h, i, j, l>> \in Seq(Nat) /\ Len(<<h, i, j, l>>) = 4
        /\ <<h, i, j, l>>[1] = h /\ <<h, i, j, l>>[2] = i /\ <<h, i, j, l>>[3] = j /\ <<h, i, j, l>>[4] = l
    BY <1>2
  <2> QED BY <2>1
<1>6. PICK c : c = head \o (d \o others) /\ IsLaid(c, head, d, others)
  BY DEF IsLaid
<1>7. Head(c) = h /\ c[2] = i /\ c[3] = j /\ c[4] = l /\ ~(Len(c) < 4)
  BY <1>2, <1>5, <1>6, ConcatProperties
<1>8. DeSerializeToken(c) = ReadAtom(c, LongAtom, b, s, 4, n)
  BY <1>2, <1>3, <1>7, TagsDiffer, Zenon DEF DeSerializeToken
<1>9. ReadAtom(c, LongAtom, b, s, 4, n) = Read(t, Len(others))
  <2>1. ReadAtom(c, LongAtom, b, s, Len(head), Len(d)) = Read(Atom(LongAtom, b, s, d), Len(others))
    BY <1>6, AtomRead
  <2> QED BY <1>5, <2>1
<1> QED BY <1>4, <1>5, <1>6, <1>8, <1>9

LEMMA AtomTokenRead ==
  ASSUME NEW b \in Flags, NEW s \in Flags, NEW d \in AtomData, NEW others \in Seq(Nat),
         NEW t, t = Atom(GetTag(Len(d)), b, s, d)
  PROVE  /\ SerializeToken(t) \in Seq(Nat) /\ Len(SerializeToken(t)) > 0
         /\ DeSerializeToken(SerializeToken(t) \o others) = Read(t, Len(others))
<1>1. d \in Seq(Nat) /\ Len(d) \in AtomLengths
  BY DEF AtomData, Byte
<1>2. PICK n \in AtomLengths : n = Len(d)
  BY <1>1
<1>3. /\ Header(t) \in Seq(Nat) /\ Len(Header(t)) > 0
      /\ DeSerializeToken(Header(t) \o (d \o others)) = Read(t, Len(others))
  <2>1. CASE GetTag(n) = ShortAtom /\ n \in ShortLengths
    BY <1>1, <1>2, <2>1, ShortRead
  <2>2. CASE GetTag(n) = MediumAtom /\ n \in MediumLengths
    BY <1>1, <1>2, <2>2, MediumRead
  <2>3. CASE GetTag(n) = LongAtom
    BY <1>1, <1>2, <2>3, LongRead
  <2> QED BY <2>1, <2>2, <2>3, GetTagFacts
<1>4. SerializeToken(t) = Header(t) \o d
  BY SerializeTokenIs, Zenon DEF Atom
<1>5. PICK head \in Seq(Nat) : head = Header(t)
  BY <1>3
<1>6. head \o d \in Seq(Nat) /\ Len(head \o d) = Len(head) + Len(d) /\ Len(head) \in Nat
      /\ Len(d) \in Nat /\ (head \o d) \o others = head \o (d \o others)
  <2>1. head \o d \in Seq(Nat) /\ Len(head \o d) = Len(head) + Len(d)
    BY <1>1, ConcatProperties
  <2>2. (head \o d) \o others = head \o (d \o others)
    <3>1. PICK hd : hd = head \o d /\ IsJoin(Nat, hd, head, d) /\ hd \in Seq(Nat)
      BY <1>1, JoinFacts
    <3>2. PICK do : do = d \o others /\ IsJoin(Nat, do, d, others)
      BY <1>1, JoinFacts
    <3>3. PICK c : c = hd \o others /\ IsJoin(Nat, c, hd, others)
      BY <3>1, JoinFacts
    <3>4. IsJoin(Nat, c, head, do)
      BY <3>1, <3>2, <3>3, JoinAssociative
    <3> QED BY <3>1, <3>2, <3>3, <3>4, Zenon DEF IsJoin
  <2>3. Len(head) \in Nat /\ Len(d) \in Nat
    BY <1>1, LenProperties
  <2> QED BY <2>1, <2>2, <2>3, Zenon
<1>7. Len(head) > 0
  BY <1>3, <1>5
<1>8. Len(head \o d) > 0
  BY <1>6, <1>7
<1> QED BY <1>3, <1>4, <1>5, <1>6, <1>8, Zenon

LEMMA ControlTokenIs ==
  ASSUME NEW c \in Controls
  PROVE  SerializeToken(Control(c)) = <<c>>
<1>1. c \in Nat /\ c > 231
  BY DEF Controls, Commands, Call, EndOfData, StartList, EndList, StartName, EndName
<1>2. c # TinyAtom /\ c # ShortAtom /\ c # MediumAtom /\ c # LongAtom
  BY TagsDiffer DEF Atoms
<1>3. Header(Control(c)) = <<c>>
  BY <1>2, Zenon DEF Header, Control, Atom
<1>4. SerializeToken(Control(c)) = Header(Control(c)) \o <<>>
  BY SerializeTokenIs, Zenon DEF Control, Atom
<1>5. <<c>> \in Seq(Nat)
  BY <1>1
<1> QED BY <1>3, <1>4, <1>5, ConcatEmptySeq

LEMMA ControlTokenRead ==
  ASSUME NEW c \in Controls, NEW others \in Seq(Nat)
  PROVE  /\ SerializeToken(Control(c)) \in Seq(Nat) /\ Len(SerializeToken(Control(c))) > 0
         /\ DeSerializeToken(SerializeToken(Control(c)) \o others) = Read(Control(c), Len(others))
<1>1. c \in Nat /\ c > 231
  BY DEF Controls, Commands, Call, EndOfData, StartList, EndList, StartName, EndName
<1>2. c # TinyAtom /\ c # ShortAtom /\ c # MediumAtom /\ c # LongAtom
  BY TagsDiffer DEF Atoms
<1>3. SerializeToken(Control(c)) = <<c>>
  BY ControlTokenIs
<1>4. PICK e : e = <<c>> \o others
  OBVIOUS
<1>5. Head(e) = c /\ Len(e) - 1 = Len(others)
  BY <1>1, <1>4
<1>6. GetTagFromHeader(c) = c
  <2>1. ~(c < 128) /\ c \notin 128 .. 191 /\ c \notin 192 .. 223 /\ c \notin 224 .. 231
    BY <1>1
  <2> QED BY <2>1, Zenon DEF GetTagFromHeader
<1>7. DeSerializeToken(e) = Read(Control(c), Len(others))
  BY <1>2, <1>5, <1>6, Zenon DEF DeSerializeToken
<1> QED BY <1>1, <1>3, <1>4, <1>7

LEMMA TokenRead ==
  ASSUME NEW t \in WrittenTokens, NEW others \in Seq(Nat)
  PROVE  /\ SerializeToken(t) \in Seq(Nat) /\ Len(SerializeToken(t)) > 0
         /\ DeSerializeToken(SerializeToken(t) \o others) = Read(t, Len(others))
BY AtomTokenRead, ControlTokenRead DEF WrittenTokens, AtomTokens, ControlTokens, Flags

\* A token takes at least a byte of what it is read from.
LEMMA AtomTakes ==
  ASSUME NEW c \in Seq(Nat), NEW tag, NEW b, NEW s, NEW k \in Nat \ {0}, NEW m \in Nat,
         NEW r, r = ReadAtom(c, tag, b, s, k, m), r.ok
  PROVE  r.left \in Nat /\ r.left < Len(c)
<1>1. Failure.ok = FALSE
  BY DEF Failure
<1>2. ~(Len(c) < k + m)
  <2>1. CASE Len(c) < k + m
    <3>1. r = Failure
      BY <2>1, Zenon DEF ReadAtom
    <3> QED BY <1>1, <3>1
  <2> QED BY <2>1
<1>3. PICK a : r = Read(a, Len(c) - (k + m))
  BY <1>2, Zenon DEF ReadAtom
<1>4. r.left = Len(c) - (k + m)
  BY <1>3 DEF Read
<1> QED BY <1>2, <1>4

LEMMA TokenTakes ==
  ASSUME NEW c \in Seq(Nat), Len(c) > 0, NEW r, r = DeSerializeToken(c), r.ok
  PROVE  r.left \in Nat /\ r.left < Len(c)
<1>1. PICK h \in Nat : h = Head(c)
  BY HeadTailProperties
<1>2. PICK tag : tag = GetTagFromHeader(h)
  OBVIOUS
<1>3. Failure.ok = FALSE /\ \A a, l : Read(a, l).left = l
  BY DEF Failure, Read
<1>4. CASE tag = TinyAtom
  <2>1. \E a : r = Read(a, Len(c) - 1)
    BY <1>1, <1>2, <1>4, TagsDiffer, Zenon DEF DeSerializeToken
  <2> QED BY <1>3, <2>1
<1>5. CASE tag = ShortAtom
  <2>1. PICK m \in Nat : m = h % 16
    OBVIOUS
  <2>2. \E b, s : r = ReadAtom(c, tag, b, s, 1, m)
    BY <1>1, <1>2, <1>5, <2>1, TagsDiffer, Zenon DEF DeSerializeToken
  <2>3. 1 \in Nat \ {0}
    OBVIOUS
  <2> QED BY <2>1, <2>2, <2>3, AtomTakes
<1>6. CASE tag = MediumAtom
  <2>1. ~(Len(c) < 2)
    <3>1. CASE Len(c) < 2
      <4>1. r = Failure
        BY <1>1, <1>2, <1>6, <3>1, TagsDiffer, Zenon DEF DeSerializeToken
      <4> QED BY <1>3, <4>1
    <3> QED BY <3>1
  <2>2. c[2] \in Nat
    <3>1. 2 \in 1 .. Len(c)
      BY <2>1, LenProperties
    <3> QED BY <3>1, ElementOfSeq
  <2>3. PICK m \in Nat : m = 256 * (h % 8) + c[2]
    BY <2>2
  <2>4. \E b, s : r = ReadAtom(c, tag, b, s, 2, m)
    BY <1>1, <1>2, <1>6, <2>1, <2>3, TagsDiffer, ZenonT(40) DEF DeSerializeToken
  <2>5. PICK b, s, k : k \in Nat \ {0} /\ r = ReadAtom(c, tag, b, s, k, m)
    <3>1. 2 \in Nat \ {0}
      OBVIOUS
    <3> QED BY <2>4, <3>1
  <2> QED BY <2>5, AtomTakes
<1>7. CASE tag = LongAtom
  <2>1. ~(Len(c) < 4)
    <3>1. CASE Len(c) < 4
      <4>1. r = Failure
        BY <1>1, <1>2, <1>7, <3>1, TagsDiffer, Zenon DEF DeSerializeToken
      <4> QED BY <1>3, <4>1
    <3> QED BY <3>1
  <2>2. c[2] \in Nat /\ c[3] \in Nat /\ c[4] \in Nat
    <3>1. 2 \in 1 .. Len(c) /\ 3 \in 1 .. Len(c) /\ 4 \in 1 .. Len(c)
      BY <2>1, LenProperties
    <3> QED BY <3>1, ElementOfSeq
  <2>3. PICK m \in Nat : m = 256 * (256 * c[2] + c[3]) + c[4]
    <3>1. PICK i \in Nat, j \in Nat, l \in Nat : i = c[2] /\ j = c[3] /\ l = c[4]
      BY <2>2
    <3>2. 256 * (256 * i + j) + l \in Nat
      OBVIOUS
    <3> QED BY <3>1, <3>2
  <2>4. \E b, s : r = ReadAtom(c, tag, b, s, 4, m)
    BY <1>1, <1>2, <1>7, <2>1, <2>3, TagsDiffer, ZenonT(40) DEF DeSerializeToken
  <2>5. PICK b, s, k : k \in Nat \ {0} /\ r = ReadAtom(c, tag, b, s, k, m)
    <3>1. 4 \in Nat \ {0}
      OBVIOUS
    <3> QED BY <2>4, <3>1
  <2> QED BY <2>5, AtomTakes
<1>8. CASE tag # TinyAtom /\ tag # ShortAtom /\ tag # MediumAtom /\ tag # LongAtom
  <2>1. r = Read(Control(tag), Len(c) - 1)
    BY <1>1, <1>2, <1>8, Zenon DEF DeSerializeToken
  <2> QED BY <1>3, <2>1
<1> QED BY <1>4, <1>5, <1>6, <1>7, <1>8

LEMMA LastOfFacts ==
  ASSUME NEW S, NEW c \in Seq(S), NEW n \in 0 .. Len(c)
  PROVE  LastOf(c, n) \in Seq(S) /\ Len(LastOf(c, n)) = n
<1>1. PICK m \in Nat, k \in Int : m = Len(c) /\ k = m - n + 1
  OBVIOUS
<1>2. \A i \in k .. m : c[i] \in S
  BY <1>1
<1>3. SubSeq(c, k, m) \in Seq(S) /\ Len(SubSeq(c, k, m)) = IF k <= m THEN m - k + 1 ELSE 0
  BY <1>1, <1>2, SubSeqProperties
<1>4. LastOf(c, n) = SubSeq(c, k, m)
  BY <1>1 DEF LastOf
<1> QED BY <1>1, <1>3, <1>4

\* What there is at the last n bytes, given what there is at fewer.
TokensAt(c, n, f) ==
  LET first == DeSerializeToken(LastOf(c, n))
      others == f[first.left]
  IN IF n = 0 THEN Read(<<>>, 0)
     ELSE IF first.ok /\ others.ok THEN Read(<<first.value>> \o others.value, 0)
     ELSE Failure

LEMMA TokensAtSame ==
  ASSUME NEW c \in Seq(Nat), NEW n \in 0 .. Len(c), NEW f, NEW g,
         \A k \in 0 .. n - 1 : f[k] = g[k]
  PROVE  TokensAt(c, n, f) = TokensAt(c, n, g)
<1>1. CASE n = 0
  BY <1>1, Zenon DEF TokensAt
<1>2. CASE n # 0
  <2>1. PICK first : first = DeSerializeToken(LastOf(c, n))
    OBVIOUS
  <2>2. CASE ~first.ok
    BY <1>2, <2>1, <2>2, Zenon DEF TokensAt
  <2>3. CASE first.ok
    <3>1. first.left \in Nat /\ first.left < n
      <4>1. PICK e \in Seq(Nat) : e = LastOf(c, n) /\ Len(e) = n
        BY LastOfFacts
      <4> QED BY <1>2, <2>1, <2>3, <4>1, TokenTakes
    <3>2. f[first.left] = g[first.left]
      BY <3>1
    <3> QED BY <1>2, <2>1, <3>2, Zenon DEF TokensAt
  <2> QED BY <2>2, <2>3
<1> QED BY <1>1, <1>2

LEMMA TokensAtExists ==
  ASSUME NEW c \in Seq(Nat)
  PROVE  \E f : f = [n \in 0 .. Len(c) |-> TokensAt(c, n, f)]
<1>1. PICK l \in Nat : l = Len(c)
  OBVIOUS
<1> DEFINE S == {m \in Nat : m <= l => \E f : f = [n \in 0 .. m |-> TokensAt(c, n, f)]}
<1>2. 0 \in S
  <2> DEFINE f == [n \in 0 .. 0 |-> Read(<<>>, 0)]
  <2>1. \A g : \A n \in 0 .. 0 : TokensAt(c, n, g) = Read(<<>>, 0)
    <3>1. \A g : TokensAt(c, 0, g) = Read(<<>>, 0)
      BY Zenon DEF TokensAt
    <3> QED BY <3>1
  <2>2. f = [n \in 0 .. 0 |-> TokensAt(c, n, f)]
    <3> HIDE DEF f
    <3>1. f = [n \in 0 .. 0 |-> Read(<<>>, 0)]
      BY DEF f
    <3> QED BY <2>1, <3>1
  <2> QED BY <2>2
<1>3. ASSUME NEW m \in Nat, m \in S  PROVE m + 1 \in S
  <2> SUFFICES ASSUME m + 1 <= l
               PROVE  \E f : f = [n \in 0 .. m + 1 |-> TokensAt(c, n, f)]
    OBVIOUS
  <2>1. PICK f : f = [n \in 0 .. m |-> TokensAt(c, n, f)]
    BY <1>3
  <2> DEFINE g == [n \in 0 .. m + 1 |-> IF n = m + 1 THEN TokensAt(c, m + 1, f) ELSE f[n]]
  <2>2. \A n \in 0 .. m : g[n] = f[n]
    OBVIOUS
  <2>3. ASSUME NEW n \in 0 .. m + 1  PROVE g[n] = TokensAt(c, n, g)
    <3>1. n \in 0 .. Len(c) /\ \A k \in 0 .. n - 1 : f[k] = g[k]
      BY <1>1, <2>2
    <3>2. TokensAt(c, n, f) = TokensAt(c, n, g)
      <4> HIDE DEF g
      <4> QED BY <3>1, TokensAtSame
    <3>3. g[n] = TokensAt(c, n, f)
      <4>1. CASE n = m + 1
        BY <4>1
      <4>2. CASE n # m + 1
        <5>1. n \in 0 .. m
          BY <4>2
        <5>2. f[n] = TokensAt(c, n, f)
          BY <2>1, <5>1
        <5> QED BY <2>2, <5>1, <5>2
      <4> QED BY <4>1, <4>2
    <3> QED BY <3>2, <3>3
  <2>4. g = [n \in 0 .. m + 1 |-> TokensAt(c, n, g)]
    <3>1. g = [n \in 0 .. m + 1 |-> g[n]]
      OBVIOUS
    <3> HIDE DEF g
    <3> QED BY <2>3, <3>1
  <2> HIDE DEF g
  <2> QED BY <2>4
<1>4. l \in S
  <2> HIDE DEF S
  <2> QED BY <1>2, <1>3, SetInduction
<1> QED BY <1>1, <1>4

LEMMA DeSerializeTokensIs ==
  ASSUME NEW c \in Seq(Nat)
  PROVE  \E f : /\ \A n \in 0 .. Len(c) : f[n] = TokensAt(c, n, f)
                /\ DeSerializeTokens(c) = f[Len(c)]
<1> DEFINE f == CHOOSE f : f = [n \in 0 .. Len(c) |-> TokensAt(c, n, f)]
<1>1. f = [n \in 0 .. Len(c) |-> TokensAt(c, n, f)]
  BY TokensAtExists
<1>2. DeSerializeTokens(c) = f[Len(c)]
  BY DEF DeSerializeTokens, TokensAt
<1>3. \A n \in 0 .. Len(c) : f[n] = TokensAt(c, n, f)
  <2> HIDE DEF f
  <2> QED BY <1>1
<1> HIDE DEF f
<1> QED BY <1>2, <1>3

\* What is joined ends with each of its ends.
LEMMA JoinedEnds ==
  ASSUME NEW S, NEW ss \in Seq(Seq(S)), NEW k \in 1 .. Len(ss) + 1
  PROVE  EndsWith(S, Joined(ss), From(ss)[k])
<1>1. PICK n \in Nat : n = Len(ss)
  OBVIOUS
<1>2. PICK f \in [1 .. n + 1 -> Seq(S)] : f = From(ss) /\ \A j \in 1 .. n : f[j] = ss[j] \o f[j + 1]
  <2>1. /\ From(ss) \in [1 .. Len(ss) + 1 -> Seq(S)]
        /\ \A j \in 1 .. Len(ss) : From(ss)[j] = ss[j] \o From(ss)[j + 1]
    BY FromFacts
  <2> QED BY <1>1, <2>1, Zenon
<1> DEFINE I == {d \in Nat : d <= n => EndsWith(S, f[1], f[d + 1])}
<1>3. 0 \in I
  <2>1. f[1] \in Seq(S)
    OBVIOUS
  <2> QED BY <2>1, EndsWithItself
<1>4. ASSUME NEW d \in Nat, d \in I  PROVE d + 1 \in I
  <2> SUFFICES ASSUME d + 1 <= n  PROVE EndsWith(S, f[1], f[(d + 1) + 1])
    OBVIOUS
  <2>1. PICK j \in 1 .. n : j = d + 1
    OBVIOUS
  <2>2. EndsWith(S, f[1], ss[j] \o f[j + 1])
    <3>1. EndsWith(S, f[1], f[j])
      BY <1>4, <2>1
    <3>2. f[j] = ss[j] \o f[j + 1]
      BY <1>2, Zenon
    <3> QED BY <3>1, <3>2
  <2>3. ss[j] \in Seq(S) /\ f[j + 1] \in Seq(S)
    <3>1. PICK T : T = Seq(S)
      OBVIOUS
    <3>2. ss \in Seq(T) /\ f \in [1 .. n + 1 -> T] /\ j \in 1 .. Len(ss) /\ j + 1 \in 1 .. n + 1
      BY <1>1, <3>1
    <3>3. ss[j] \in T /\ f[j + 1] \in T
      BY <3>2, ElementOfSeq
    <3> QED BY <3>1, <3>3
  <2>4. EndsWith(S, f[1], f[j + 1])
    BY <2>2, <2>3, EndsWithEnd
  <2> QED BY <2>1, <2>4
<1>5. k - 1 \in I
  <2> HIDE DEF I
  <2>1. Nat \subseteq I
    BY <1>3, <1>4, SetInduction
  <2>2. k - 1 \in Nat
    OBVIOUS
  <2> QED BY <2>1, <2>2
<1>6. k - 1 <= n /\ (k - 1) + 1 = k
  BY <1>1
<1>7. EndsWith(S, f[1], f[k])
  BY <1>5, <1>6
<1> QED BY <1>2, <1>7 DEF Joined

\* Tokens are read from the bytes they were written as.
LEMMA TokensRead ==
  ASSUME NEW tokens \in Seq(WrittenTokens)
  PROVE  DeSerializeTokens(SerializeTokens(tokens)) = Read(tokens, 0)
<1>1. PICK n \in Nat : n = Len(tokens) /\ DOMAIN tokens = 1 .. n
  OBVIOUS
<1>2. PICK ss \in Seq(Seq(Nat)) : /\ ss = [i \in DOMAIN tokens |-> SerializeToken(tokens[i])]
                                  /\ Len(ss) = n /\ \A i \in 1 .. n : ss[i] = SerializeToken(tokens[i])
  <2>1. \A i \in 1 .. n : tokens[i] \in WrittenTokens
    BY <1>1
  <2>2. \A i \in 1 .. n : SerializeToken(tokens[i]) \in Seq(Nat)
    <3>1. <<>> \in Seq(Nat)
      OBVIOUS
    <3> QED BY <2>1, <3>1, TokenRead
  <2> DEFINE s == [i \in 1 .. n |-> SerializeToken(tokens[i])]
  <2>3. s \in Seq(Seq(Nat)) /\ Len(s) = n
    BY <2>2
  <2>4. \A i \in 1 .. n : s[i] = SerializeToken(tokens[i])
    OBVIOUS
  <2>5. s = [i \in DOMAIN tokens |-> SerializeToken(tokens[i])]
    BY <1>1
  <2> HIDE DEF s
  <2> QED BY <2>3, <2>4, <2>5
<1>3. PICK u \in [1 .. n + 1 -> Seq(Nat)] : /\ u = From(ss) /\ u[n + 1] = <<>>
                                            /\ \A j \in 1 .. n : u[j] = ss[j] \o u[j + 1]
  <2>1. /\ From(ss) \in [1 .. Len(ss) + 1 -> Seq(Nat)] /\ From(ss)[Len(ss) + 1] = <<>>
        /\ \A j \in 1 .. Len(ss) : From(ss)[j] = ss[j] \o From(ss)[j + 1]
    BY FromFacts
  <2>2. Len(ss) = n
    BY <1>2
  <2> QED BY <2>1, <2>2, Zenon
<1>4. PICK c \in Seq(Nat) : c = SerializeTokens(tokens) /\ c = u[1]
  <2>1. SerializeTokens(tokens) = From(ss)[1]
    BY <1>2 DEF SerializeTokens, Joined
  <2> QED BY <1>3, <2>1
<1>5. \A j \in 1 .. n + 1 : EndsWith(Nat, c, u[j])
  BY <1>2, <1>3, <1>4, JoinedEnds DEF Joined
<1>6. PICK f : /\ \A k \in 0 .. Len(c) : f[k] = TokensAt(c, k, f)
               /\ DeSerializeTokens(c) = f[Len(c)]
  BY DeSerializeTokensIs
<1> DEFINE Rest(j) == SubSeq(tokens, j, n)
           I == {d \in Nat : d <= n => f[Len(u[(n + 1) - d])] = Read(Rest((n + 1) - d), 0)}
<1>7. 0 \in I
  <2>1. f[0] = Read(<<>>, 0)
    <3>1. 0 \in 0 .. Len(c)
      OBVIOUS
    <3>2. TokensAt(c, 0, f) = Read(<<>>, 0)
      BY Zenon DEF TokensAt
    <3> QED BY <1>6, <3>1, <3>2
  <2>2. Rest(n + 1) = <<>>
    BY <1>1, SubSeqEmpty
  <2>3. Len(u[n + 1]) = 0 /\ (n + 1) - 0 = n + 1
    BY <1>3
  <2> HIDE DEF Rest
  <2> QED BY <2>1, <2>2, <2>3
<1>8. ASSUME NEW d \in Nat, d \in I  PROVE d + 1 \in I
  <2> SUFFICES ASSUME d + 1 <= n
               PROVE  f[Len(u[(n + 1) - (d + 1)])] = Read(Rest((n + 1) - (d + 1)), 0)
    OBVIOUS
  <2>1. PICK j \in 1 .. n : j = (n + 1) - (d + 1) /\ j + 1 = (n + 1) - d
    OBVIOUS
  <2>2. f[Len(u[j + 1])] = Read(Rest(j + 1), 0)
    BY <1>8, <2>1
  <2>3. PICK t \in WrittenTokens : t = tokens[j]
    BY <1>1
  <2>4. PICK s \in Seq(Nat), others \in Seq(Nat) : s = SerializeToken(t) /\ others = u[j + 1]
    <3>1. <<>> \in Seq(Nat) /\ j + 1 \in 1 .. n + 1
      OBVIOUS
    <3>2. SerializeToken(t) \in Seq(Nat)
      BY <3>1, TokenRead, Zenon
    <3>3. u[j + 1] \in Seq(Nat)
      BY <1>3, <3>1, Zenon
    <3> QED BY <3>2, <3>3, Zenon
  <2>5. PICK e \in Seq(Nat) : e = u[j] /\ e = s \o others /\ EndsWith(Nat, c, e)
    <3>1. u[j] = ss[j] \o u[j + 1] /\ ss[j] = SerializeToken(tokens[j])
      BY <1>2, <1>3, Zenon
    <3>2. u[j] = s \o others
      BY <2>3, <2>4, <3>1, Zenon
    <3>3. u[j] \in Seq(Nat) /\ EndsWith(Nat, c, u[j])
      BY <1>3, <1>5
    <3> QED BY <3>2, <3>3, Zenon
  <2>6. Len(e) \in 0 .. Len(c) /\ LastOf(c, Len(e)) = e
    <3>1. Len(c) \in Nat /\ Len(e) \in Nat /\ Len(e) <= Len(c) /\ LastOf(c, Len(e)) = e
      <4>1. EndsWith(Nat, c, e)
        BY <2>5
      <4> QED BY <4>1, LastOfEnd
    <3> QED BY <3>1
  <2>7. Len(s) > 0 /\ DeSerializeToken(e) = Read(t, Len(others))
    BY <2>4, <2>5, TokenRead
  <2>8. Len(e) # 0
    BY <2>5, <2>7, ConcatProperties
  <2>9. f[Len(e)] = TokensAt(c, Len(e), f)
    BY <1>6, <2>6
  <2>10. Read(t, Len(others)).ok /\ Read(t, Len(others)).value = t
         /\ Read(t, Len(others)).left = Len(others)
    BY DEF Read
  <2>11. Read(Rest(j + 1), 0).ok /\ Read(Rest(j + 1), 0).value = Rest(j + 1)
    BY DEF Read
  <2>12. f[Len(others)] = Read(Rest(j + 1), 0)
    BY <2>2, <2>4
  <2>13. f[Len(e)] = Read(<<t>> \o Rest(j + 1), 0)
    <3> HIDE DEF Rest
    <3> QED BY <2>6, <2>7, <2>8, <2>9, <2>10, <2>11, <2>12, Zenon DEF TokensAt
  <2>14. Rest(j) = <<t>> \o Rest(j + 1)
    <3>1. j \in 1 .. Len(tokens) /\ n \in j .. Len(tokens)
      BY <1>1
    <3> QED BY <2>3, <3>1, SubSeqRecursiveFirst
  <2> HIDE DEF Rest
  <2> QED BY <2>1, <2>5, <2>13, <2>14
<1>9. n \in I
  <2> HIDE DEF I
  <2> QED BY <1>7, <1>8, SetInduction
<1>10. f[Len(u[1])] = Read(Rest(1), 0)
  <2>1. n <= n /\ (n + 1) - n = 1
    OBVIOUS
  <2> HIDE DEF Rest
  <2> QED BY <1>9, <2>1
<1>11. Rest(1) = tokens
  BY <1>1, SubSeqFull
<1> HIDE DEF Rest
<1> QED BY <1>4, <1>6, <1>10, <1>11

-----------------------------------------------------------------------------
(***************************************************************************)
(* Values                                                                  *)
(***************************************************************************)

ListsOf(inner) == [kind : {"list"}, items : Seq(inner)]
Nameds(inner) == [kind : {"named"}, name : inner, value : inner]

NestedAt(scalars, n, f) ==
  IF n = 0 THEN scalars ELSE f[n - 1] \union ListsOf(f[n - 1]) \union Nameds(f[n - 1])

\* Functions over depth exist, as each value depends on the one before.
LEMMA NestedExists ==
  ASSUME NEW scalars
  PROVE  \E f : f = [n \in 0 .. MaxDepth |-> NestedAt(scalars, n, f)]
<1> DEFINE S == {m \in Nat : m <= MaxDepth => \E f : f = [n \in 0 .. m |-> NestedAt(scalars, n, f)]}
<1>1. 0 \in S
  <2>1. PICK f : f = [n \in 0 .. 0 |-> scalars]
    OBVIOUS
  <2>2. \A n \in 0 .. 0 : NestedAt(scalars, n, f) = scalars
    BY DEF NestedAt
  <2>3. f = [n \in 0 .. 0 |-> NestedAt(scalars, n, f)]
    BY <2>1, <2>2
  <2> QED BY <2>3
<1>2. ASSUME NEW m \in Nat, m \in S  PROVE m + 1 \in S
  <2> SUFFICES ASSUME m + 1 <= MaxDepth
               PROVE  \E f : f = [n \in 0 .. m + 1 |-> NestedAt(scalars, n, f)]
    OBVIOUS
  <2>1. PICK f : f = [n \in 0 .. m |-> NestedAt(scalars, n, f)]
    BY <1>2, TokensAssumption
  <2>2. PICK g : g = [n \in 0 .. m + 1 |-> IF n = m + 1 THEN NestedAt(scalars, n, f) ELSE f[n]]
    OBVIOUS
  <2>3. ASSUME NEW n \in 0 .. m + 1  PROVE g[n] = NestedAt(scalars, n, g)
    <3>1. n = 0 \/ f[n - 1] = g[n - 1]
      BY <2>2
    <3>2. NestedAt(scalars, n, f) = NestedAt(scalars, n, g)
      BY <3>1, Zenon DEF NestedAt
    <3>3. CASE n = m + 1
      BY <2>2, <3>2, <3>3
    <3>4. CASE n # m + 1
      <4>1. n \in 0 .. m
        BY <3>4
      <4>2. f[n] = NestedAt(scalars, n, f) /\ g[n] = f[n]
        BY <2>1, <2>2, <4>1
      <4> QED BY <3>2, <4>2
    <3> QED BY <3>3, <3>4
  <2>4. g = [n \in 0 .. m + 1 |-> NestedAt(scalars, n, g)]
    BY <2>2, <2>3
  <2> QED BY <2>4
<1>3. MaxDepth \in S
  <2> HIDE DEF S
  <2> QED BY <1>1, <1>2, SetInduction, TokensAssumption
<1> QED BY <1>3

LEMMA NestedIs ==
  ASSUME NEW n \in 0 .. MaxDepth
  PROVE  Tokenizables[n] = NestedAt(Scalars, n, Tokenizables)
<1>1. PICK f : f = Tokenizables
  OBVIOUS
<1>2. f = CHOOSE g : g = [k \in 0 .. MaxDepth |-> NestedAt(Scalars, k, g)]
  BY <1>1 DEF Tokenizables, Nested, NestedAt, ListsOf, Nameds
<1>3. f = [k \in 0 .. MaxDepth |-> NestedAt(Scalars, k, f)]
  BY <1>2, NestedExists
<1> QED BY <1>1, <1>3

\* What a value that is nested is made of.
LEMMA NestedCases ==
  ASSUME NEW n \in 0 .. MaxDepth, NEW v \in Tokenizables[n]
  PROVE  \/ v \in Scalars
         \/ n # 0 /\ v \in Tokenizables[n - 1]
         \/ n # 0 /\ v \in ListsOf(Tokenizables[n - 1])
         \/ n # 0 /\ v \in Nameds(Tokenizables[n - 1])
BY NestedIs DEF NestedAt

LEMMA NestedGrows ==
  ASSUME NEW n \in 0 .. MaxDepth, n # 0
  PROVE  /\ Tokenizables[n - 1] \subseteq Tokenizables[n]
         /\ ListsOf(Tokenizables[n - 1]) \subseteq Tokenizables[n]
         /\ Nameds(Tokenizables[n - 1]) \subseteq Tokenizables[n]
BY NestedIs DEF NestedAt

LEMMA ScalarKinds ==
  ASSUME NEW v \in Scalars
  PROVE  v.kind \in {"bool", "int", "bytes", "command"}
BY DEF Scalars

\* A value is a scalar, or made of values nested less deep.
LEMMA Made ==
  ASSUME NEW n \in 0 .. MaxDepth, NEW v \in Tokenizables[n]
  PROVE  \/ v \in Scalars
         \/ n # 0 /\ v \in ListsOf(Tokenizables[n - 1])
         \/ n # 0 /\ v \in Nameds(Tokenizables[n - 1])
<1> DEFINE Claim(m) ==
      \A w \in Tokenizables[m] :
         \/ w \in Scalars
         \/ m # 0 /\ w \in ListsOf(Tokenizables[m - 1])
         \/ m # 0 /\ w \in Nameds(Tokenizables[m - 1])
    S == {m \in Nat : m <= MaxDepth => Claim(m)}
<1>1. 0 \in S
  BY NestedCases, TokensAssumption
<1>2. ASSUME NEW m \in Nat, m \in S  PROVE m + 1 \in S
  <2> SUFFICES ASSUME m + 1 <= MaxDepth, NEW w \in Tokenizables[m + 1]
               PROVE  \/ w \in Scalars
                      \/ w \in ListsOf(Tokenizables[m])
                      \/ w \in Nameds(Tokenizables[m])
    BY (m + 1) - 1 = m
  <2>1. m \in 0 .. MaxDepth /\ m + 1 \in 0 .. MaxDepth /\ (m + 1) - 1 = m /\ m + 1 # 0
    BY TokensAssumption
  <2>2. CASE w \in Tokenizables[m]
    <3>1. CASE m # 0
      <4>1. PICK k : k = m - 1
        OBVIOUS
      <4>2. PICK T, U : T = Tokenizables[k] /\ U = Tokenizables[m]
        OBVIOUS
      <4>3. T \subseteq U
        BY <2>1, <3>1, <4>1, <4>2, NestedGrows
      <4>4. w \in Scalars \/ w \in ListsOf(T) \/ w \in Nameds(T)
        BY <1>2, <2>1, <2>2, <4>1, <4>2
      <4>5. ListsOf(T) \subseteq ListsOf(U) /\ Nameds(T) \subseteq Nameds(U)
        BY <4>3 DEF ListsOf, Nameds
      <4> QED BY <4>2, <4>4, <4>5
    <3>2. CASE m = 0
      BY <1>2, <2>1, <2>2, <3>2
    <3> QED BY <3>1, <3>2
  <2>3. w \in Scalars \/ w \in Tokenizables[m] \/ w \in ListsOf(Tokenizables[m])
        \/ w \in Nameds(Tokenizables[m])
    BY <2>1, NestedCases
  <2> QED BY <2>2, <2>3
<1>3. n \in S
  <2> HIDE DEF S
  <2> QED BY <1>1, <1>2, SetInduction
<1> QED BY <1>3

TokensOfValue(v, inner) ==
  CASE v.kind = "list"  -> <<Control(StartList)>>
                           \o Joined([i \in DOMAIN v.items |-> inner[v.items[i]]])
                           \o <<Control(EndList)>>
    [] v.kind = "named" -> <<Control(StartName)>> \o inner[v.name] \o inner[v.value]
                           \o <<Control(EndName)>>
    [] OTHER            -> TokenizeScalar(v)
TokensOfAt(n, f) == [v \in Tokenizables[n] |-> TokensOfValue(v, f[n - 1])]

ArrivedValue(v, inner) ==
  CASE v.kind = "bool"  -> UInt8(Bit(v.holds, 1))
    [] v.kind = "int"   -> Integer(Widen(v.data), v.signed)
    [] v.kind = "list"  -> List([i \in DOMAIN v.items |-> inner[v.items[i]]])
    [] v.kind = "named" -> Named(inner[v.name], inner[v.value])
    [] OTHER            -> v
ArrivedAt(n, f) == [v \in Tokenizables[n] |-> ArrivedValue(v, f[n - 1])]

LEMMA ScalarsOnly ==
  Tokenizables[0] = Scalars
<1>1. Tokenizables[0] = NestedAt(Scalars, 0, Tokenizables)
  BY NestedIs, TokensAssumption
<1> QED BY <1>1, Zenon DEF NestedAt

LEMMA ScalarTokens ==
  ASSUME NEW v \in Scalars, NEW e
  PROVE  TokensOfValue(v, e) = TokenizeScalar(v)
<1>1. v.kind # "list" /\ v.kind # "named"
  BY ScalarKinds
<1> QED BY <1>1, Zenon DEF TokensOfValue

LEMMA ScalarArrived ==
  ASSUME NEW v \in Scalars, NEW e, NEW f
  PROVE  ArrivedValue(v, e) = ArrivedValue(v, f)
<1>1. v.kind # "list" /\ v.kind # "named"
  BY ScalarKinds
<1> QED BY <1>1, Zenon DEF ArrivedValue

LEMMA TokensOfSame ==
  ASSUME NEW n \in 0 .. MaxDepth, NEW f, NEW g, n = 0 \/ f[n - 1] = g[n - 1]
  PROVE  TokensOfAt(n, f) = TokensOfAt(n, g)
<1>1. CASE n = 0
  BY <1>1, ScalarsOnly, ScalarTokens DEF TokensOfAt
<1>2. CASE n # 0
  BY <1>2 DEF TokensOfAt
<1> QED BY <1>1, <1>2

LEMMA ArrivedSame ==
  ASSUME NEW n \in 0 .. MaxDepth, NEW f, NEW g, n = 0 \/ f[n - 1] = g[n - 1]
  PROVE  ArrivedAt(n, f) = ArrivedAt(n, g)
<1>1. CASE n = 0
  BY <1>1, ScalarsOnly, ScalarArrived DEF ArrivedAt
<1>2. CASE n # 0
  BY <1>2 DEF ArrivedAt
<1> QED BY <1>1, <1>2

LEMMA TokensOfExists ==
  \E f : f = [n \in 0 .. MaxDepth |-> TokensOfAt(n, f)]
<1> DEFINE S == {m \in Nat : m <= MaxDepth => \E f : f = [n \in 0 .. m |-> TokensOfAt(n, f)]}
<1>1. 0 \in S
  <2>1. PICK e, f : f = [n \in 0 .. 0 |-> TokensOfAt(n, e)]
    OBVIOUS
  <2>2. ASSUME NEW n \in 0 .. 0  PROVE TokensOfAt(n, e) = TokensOfAt(n, f)
    BY TokensAssumption, TokensOfSame
  <2>3. f = [n \in 0 .. 0 |-> TokensOfAt(n, f)]
    BY <2>1, <2>2
  <2> QED BY <2>3
<1>2. ASSUME NEW m \in Nat, m \in S  PROVE m + 1 \in S
  <2> SUFFICES ASSUME m + 1 <= MaxDepth
               PROVE  \E f : f = [n \in 0 .. m + 1 |-> TokensOfAt(n, f)]
    OBVIOUS
  <2>1. PICK f : f = [n \in 0 .. m |-> TokensOfAt(n, f)]
    BY <1>2, TokensAssumption
  <2>2. PICK g : g = [n \in 0 .. m + 1 |-> IF n = m + 1 THEN TokensOfAt(n, f) ELSE f[n]]
    OBVIOUS
  <2>3. ASSUME NEW n \in 0 .. m + 1  PROVE g[n] = TokensOfAt(n, g)
    <3>1. n \in 0 .. MaxDepth /\ (n = 0 \/ f[n - 1] = g[n - 1])
      BY <2>2, TokensAssumption
    <3>2. TokensOfAt(n, f) = TokensOfAt(n, g)
      BY <3>1, TokensOfSame
    <3>3. CASE n = m + 1
      BY <2>2, <3>2, <3>3
    <3>4. CASE n # m + 1
      <4>1. n \in 0 .. m
        BY <3>4
      <4>2. f[n] = TokensOfAt(n, f) /\ g[n] = f[n]
        BY <2>1, <2>2, <4>1
      <4> QED BY <3>2, <4>2
    <3> QED BY <3>3, <3>4
  <2>4. g = [n \in 0 .. m + 1 |-> TokensOfAt(n, g)]
    BY <2>2, <2>3
  <2> QED BY <2>4
<1>3. MaxDepth \in S
  <2> HIDE DEF S
  <2> QED BY <1>1, <1>2, SetInduction, TokensAssumption
<1> QED BY <1>3

LEMMA TokensOfIs ==
  ASSUME NEW n \in 0 .. MaxDepth
  PROVE  TokensOf[n] = TokensOfAt(n, TokensOf)
<1>1. PICK f : f = TokensOf
  OBVIOUS
<1>2. f = CHOOSE g : g = [k \in 0 .. MaxDepth |-> TokensOfAt(k, g)]
  BY <1>1 DEF TokensOf, TokensOfAt, TokensOfValue
<1>3. f = [k \in 0 .. MaxDepth |-> TokensOfAt(k, f)]
  BY <1>2, TokensOfExists
<1> QED BY <1>1, <1>3

LEMMA ArrivedExists ==
  \E f : f = [n \in 0 .. MaxDepth |-> ArrivedAt(n, f)]
<1> DEFINE S == {m \in Nat : m <= MaxDepth => \E f : f = [n \in 0 .. m |-> ArrivedAt(n, f)]}
<1>1. 0 \in S
  <2>1. PICK e, f : f = [n \in 0 .. 0 |-> ArrivedAt(n, e)]
    OBVIOUS
  <2>2. ASSUME NEW n \in 0 .. 0  PROVE ArrivedAt(n, e) = ArrivedAt(n, f)
    BY TokensAssumption, ArrivedSame
  <2>3. f = [n \in 0 .. 0 |-> ArrivedAt(n, f)]
    BY <2>1, <2>2
  <2> QED BY <2>3
<1>2. ASSUME NEW m \in Nat, m \in S  PROVE m + 1 \in S
  <2> SUFFICES ASSUME m + 1 <= MaxDepth
               PROVE  \E f : f = [n \in 0 .. m + 1 |-> ArrivedAt(n, f)]
    OBVIOUS
  <2>1. PICK f : f = [n \in 0 .. m |-> ArrivedAt(n, f)]
    BY <1>2, TokensAssumption
  <2>2. PICK g : g = [n \in 0 .. m + 1 |-> IF n = m + 1 THEN ArrivedAt(n, f) ELSE f[n]]
    OBVIOUS
  <2>3. ASSUME NEW n \in 0 .. m + 1  PROVE g[n] = ArrivedAt(n, g)
    <3>1. n \in 0 .. MaxDepth /\ (n = 0 \/ f[n - 1] = g[n - 1])
      BY <2>2, TokensAssumption
    <3>2. ArrivedAt(n, f) = ArrivedAt(n, g)
      BY <3>1, ArrivedSame
    <3>3. CASE n = m + 1
      BY <2>2, <3>2, <3>3
    <3>4. CASE n # m + 1
      <4>1. n \in 0 .. m
        BY <3>4
      <4>2. f[n] = ArrivedAt(n, f) /\ g[n] = f[n]
        BY <2>1, <2>2, <4>1
      <4> QED BY <3>2, <4>2
    <3> QED BY <3>3, <3>4
  <2>4. g = [n \in 0 .. m + 1 |-> ArrivedAt(n, g)]
    BY <2>2, <2>3
  <2> QED BY <2>4
<1>3. MaxDepth \in S
  <2> HIDE DEF S
  <2> QED BY <1>1, <1>2, SetInduction, TokensAssumption
<1> QED BY <1>3

LEMMA ArrivedIs ==
  ASSUME NEW n \in 0 .. MaxDepth
  PROVE  Arrived[n] = ArrivedAt(n, Arrived)
<1>1. PICK f : f = Arrived
  OBVIOUS
<1>2. f = CHOOSE g : g = [k \in 0 .. MaxDepth |-> ArrivedAt(k, g)]
  BY <1>1 DEF Arrived, ArrivedAt, ArrivedValue
<1>3. f = [k \in 0 .. MaxDepth |-> ArrivedAt(k, f)]
  BY <1>2, ArrivedExists
<1> QED BY <1>1, <1>3

DeTokenizeAt(tokens, n, f) ==
  [what \in {"value", "items"} |->
    IF what = "value" THEN ValueAt(tokens, n, f) ELSE ItemsAt(tokens, n, f)]


\* Reading takes at least a token of what it is given.
Taken(n, f) ==
  /\ f[n]["value"].ok => f[n]["value"].left \in Nat /\ (n > 0 => f[n]["value"].left < n)
  /\ f[n]["items"].ok => f[n]["items"].left \in Nat /\ f[n]["items"].left < n

LEMMA ReadFacts ==
  /\ ~Failure.ok
  /\ \A v, l : Read(v, l).ok /\ Read(v, l).value = v /\ Read(v, l).left = l
BY DEF Failure, Read

LEMMA MarksDiffer ==
  /\ \A tag \in Atoms : tag # StartList /\ tag # StartName /\ tag # EndList /\ tag \notin Commands
  /\ StartList # StartName /\ StartList # EndList /\ StartName # EndList
  /\ StartList \notin Commands /\ StartName \notin Commands /\ EndList \notin Commands
BY DEF TinyAtom, ShortAtom, MediumAtom, LongAtom, Atoms, Commands, Call, EndOfData,
       StartList, EndList, StartName, EndName

LEMMA ValueTakes ==
  ASSUME NEW tokens, NEW n \in Nat, NEW f, \A k \in 0 .. n - 1 : Taken(k, f),
         NEW r, r = ValueAt(tokens, n, f), r.ok
  PROVE  r.left \in Nat /\ (n > 0 => r.left < n)
<1>1. CASE n = 0
  <2>1. r = Read(Empty, 0)
    BY <1>1, Zenon DEF ValueAt
  <2> QED BY <1>1, <2>1, ReadFacts
<1>2. CASE n > 0
  <2>1. n # 0 /\ n - 1 \in 0 .. n - 1 /\ Taken(n - 1, f)
    BY <1>2
  <2>2. PICK t, later : t = NextOf(tokens, n) /\ later = f[n - 1]
    OBVIOUS
  <2>3. CASE t.tag \in Atoms
    <3>1. r = DeTokenizeAtom(t, n - 1)
      BY <2>1, <2>2, <2>3, MarksDiffer, Zenon DEF ValueAt
    <3>2. r = Failure \/ \E v : r = Read(v, n - 1)
      BY <3>1, Zenon DEF DeTokenizeAtom
    <3> QED BY <1>2, <3>2, ReadFacts
  <2>4. CASE t.tag = StartList /\ t.tag \notin Atoms
    <3>1. r = IF later["items"].ok THEN Read(List(later["items"].value), later["items"].left)
              ELSE Failure
      BY <2>1, <2>2, <2>4, MarksDiffer, Zenon DEF ValueAt
    <3>2. later["items"].ok /\ r.left = later["items"].left
      BY <3>1, ReadFacts
    <3>3. r.left \in Nat /\ r.left < n - 1
      BY <2>1, <2>2, <3>2 DEF Taken
    <3> QED BY <1>2, <3>3
  <2>5. CASE t.tag = StartName /\ t.tag \notin Atoms /\ t.tag # StartList
    <3>1. PICK name, value : name = later["value"] /\ value = f[name.left]["value"]
      OBVIOUS
    <3>2. r = IF /\ n > 1 /\ name.ok /\ name.left > 0
                 /\ value.ok /\ value.left > 0
                 /\ NextOf(tokens, value.left).tag = EndName
              THEN Read(Named(name.value, value.value), value.left - 1)
              ELSE Failure
      BY <2>1, <2>2, <2>5, <3>1, MarksDiffer, Zenon DEF ValueAt
    <3>3. /\ n > 1 /\ name.ok /\ name.left > 0 /\ value.ok /\ value.left > 0
          /\ r.left = value.left - 1
      BY <3>2, ReadFacts
    <3>4. name.left \in Nat /\ name.left < n - 1
      BY <2>1, <2>2, <3>1, <3>3 DEF Taken
    <3>5. Taken(name.left, f)
      BY <3>4
    <3>6. value.left \in Nat /\ value.left < name.left
      BY <3>1, <3>3, <3>4, <3>5 DEF Taken
    <3> QED BY <3>3, <3>4, <3>6
  <2>6. CASE t.tag \in Commands /\ t.tag \notin Atoms /\ t.tag # StartList /\ t.tag # StartName
    <3>1. r = Read(Command(t.tag), n - 1)
      BY <2>1, <2>2, <2>6, Zenon DEF ValueAt
    <3> QED BY <1>2, <3>1, ReadFacts
  <2>7. CASE t.tag \notin Commands /\ t.tag \notin Atoms /\ t.tag # StartList /\ t.tag # StartName
    <3>1. r = Failure
      BY <2>1, <2>2, <2>7, Zenon DEF ValueAt
    <3> QED BY <3>1, ReadFacts
  <2> QED BY <2>3, <2>4, <2>5, <2>6, <2>7
<1> QED BY <1>1, <1>2

LEMMA ItemsTake ==
  ASSUME NEW tokens, NEW n \in Nat, NEW f, \A k \in 0 .. n - 1 : Taken(k, f),
         NEW r, r = ItemsAt(tokens, n, f), r.ok
  PROVE  r.left \in Nat /\ r.left < n
<1>1. n # 0
  <2>1. CASE n = 0
    <3>1. r = Failure
      BY <2>1, Zenon DEF ItemsAt
    <3> QED BY <3>1, ReadFacts
  <2> QED BY <2>1
<1>2. CASE NextOf(tokens, n).tag = EndList
  <2>1. r = Read(<<>>, n - 1)
    BY <1>1, <1>2, Zenon DEF ItemsAt
  <2> QED BY <1>1, <2>1, ReadFacts
<1>3. CASE NextOf(tokens, n).tag # EndList
  <2>1. PICK next, others : next = ValueAt(tokens, n, f) /\ others = f[next.left]["items"]
    OBVIOUS
  <2>2. r = IF next.ok /\ others.ok THEN Read(<<next.value>> \o others.value, others.left)
            ELSE Failure
    BY <1>1, <1>3, <2>1, Zenon DEF ItemsAt
  <2>3. next.ok /\ others.ok /\ r.left = others.left
    BY <2>2, ReadFacts
  <2>4. next.left \in Nat /\ next.left < n
    BY <1>1, <2>1, <2>3, ValueTakes
  <2>5. Taken(next.left, f)
    BY <2>4
  <2>6. others.left \in Nat /\ others.left < next.left
    BY <2>1, <2>3, <2>5 DEF Taken
  <2> QED BY <2>3, <2>4, <2>6
<1> QED BY <1>2, <1>3

\* The same, given the values and items it goes by.
ValueFrom(tokens, n, items, name, value) ==
  LET t == NextOf(tokens, n)
  IN IF n = 0 THEN Read(Empty, 0)
     ELSE CASE t.tag \in Atoms    -> DeTokenizeAtom(t, n - 1)
            [] t.tag = StartList  ->
                 IF items.ok THEN Read(List(items.value), items.left) ELSE Failure
            [] t.tag = StartName  ->
                 IF /\ n > 1 /\ name.ok /\ name.left > 0
                    /\ value.ok /\ value.left > 0
                    /\ NextOf(tokens, value.left).tag = EndName
                 THEN Read(Named(name.value, value.value), value.left - 1)
                 ELSE Failure
            [] t.tag \in Commands -> Read(Command(t.tag), n - 1)
            [] OTHER              -> Failure

LEMMA ValueAtFrom ==
  ASSUME NEW tokens, NEW n, NEW f
  PROVE  ValueAt(tokens, n, f) =
           ValueFrom(tokens, n, f[n - 1]["items"], f[n - 1]["value"], f[f[n - 1]["value"].left]["value"])
BY DEF ValueAt, ValueFrom

LEMMA ValueUnread ==
  ASSUME NEW tokens, NEW n, NEW items, NEW name, NEW u, NEW v, ~(n > 1 /\ name.ok)
  PROVE  ValueFrom(tokens, n, items, name, u) = ValueFrom(tokens, n, items, name, v)
BY DEF ValueFrom

LEMMA ValueSame ==
  ASSUME NEW tokens, NEW n \in Nat, NEW f, NEW g,
         \A k \in 0 .. n - 1 : Taken(k, f) /\ f[k] = g[k]
  PROVE  ValueAt(tokens, n, f) = ValueAt(tokens, n, g)
<1>1. CASE n = 0
  <2>1. ValueAt(tokens, n, f) = Read(Empty, 0) /\ ValueAt(tokens, n, g) = Read(Empty, 0)
    BY <1>1, Zenon DEF ValueAt
  <2> QED BY <2>1
<1>2. CASE n > 0
  <2>1. Taken(n - 1, f) /\ f[n - 1] = g[n - 1]
    BY <1>2
  <2>2. PICK items, name : items = f[n - 1]["items"] /\ name = f[n - 1]["value"]
    OBVIOUS
  <2>3. /\ ValueAt(tokens, n, f) = ValueFrom(tokens, n, items, name, f[name.left]["value"])
        /\ ValueAt(tokens, n, g) = ValueFrom(tokens, n, items, name, g[name.left]["value"])
    BY <2>1, <2>2, ValueAtFrom
  <2>4. CASE n > 1 /\ name.ok
    <3>1. name.left \in Nat /\ name.left < n - 1
      BY <1>2, <2>1, <2>2, <2>4 DEF Taken
    <3>2. f[name.left] = g[name.left]
      BY <3>1
    <3> QED BY <2>3, <3>2
  <2>5. CASE ~(n > 1 /\ name.ok)
    BY <2>3, <2>5, ValueUnread
  <2> QED BY <2>4, <2>5
<1> QED BY <1>1, <1>2

LEMMA ItemsSame ==
  ASSUME NEW tokens, NEW n \in Nat, NEW f, NEW g,
         \A k \in 0 .. n - 1 : Taken(k, f) /\ f[k] = g[k]
  PROVE  ItemsAt(tokens, n, f) = ItemsAt(tokens, n, g)
<1>1. CASE n = 0
  <2>1. ItemsAt(tokens, n, f) = Failure /\ ItemsAt(tokens, n, g) = Failure
    BY <1>1, Zenon DEF ItemsAt
  <2> QED BY <2>1
<1>2. CASE n > 0
  <2>1. PICK next : next = ValueAt(tokens, n, f)
    OBVIOUS
  <2>2. next = ValueAt(tokens, n, g)
    BY <2>1, ValueSame
  <2>3. n # 0
    BY <1>2
  <2>4. CASE NextOf(tokens, n).tag = EndList
    <3>1. /\ ItemsAt(tokens, n, f) = Read(<<>>, n - 1)
          /\ ItemsAt(tokens, n, g) = Read(<<>>, n - 1)
      BY <2>3, <2>4, Zenon DEF ItemsAt
    <3> QED BY <3>1
  <2>5. CASE NextOf(tokens, n).tag # EndList /\ ~next.ok
    <3>1. ItemsAt(tokens, n, f) = Failure
      BY <2>1, <2>3, <2>5, Zenon DEF ItemsAt
    <3>2. ItemsAt(tokens, n, g) = Failure
      BY <2>2, <2>3, <2>5, Zenon DEF ItemsAt
    <3> QED BY <3>1, <3>2
  <2>6. CASE NextOf(tokens, n).tag # EndList /\ next.ok
    <3>1. next.left \in Nat /\ next.left < n
      BY <1>2, <2>1, <2>6, ValueTakes
    <3>2. PICK others : others = f[next.left]["items"] /\ others = g[next.left]["items"]
      BY <3>1
    <3>3. PICK r : r = IF others.ok THEN Read(<<next.value>> \o others.value, others.left) ELSE Failure
      OBVIOUS
    <3>4. ItemsAt(tokens, n, f) = r
      BY <2>1, <2>3, <2>6, <3>2, <3>3, Zenon DEF ItemsAt
    <3>5. ItemsAt(tokens, n, g) = r
      BY <2>2, <2>3, <2>6, <3>2, <3>3, Zenon DEF ItemsAt
    <3> QED BY <3>4, <3>5
  <2> QED BY <2>4, <2>5, <2>6
<1> QED BY <1>1, <1>2

LEMMA DeTokenizeExists ==
  ASSUME NEW tokens, Len(tokens) \in Nat
  PROVE  \E f : f = [n \in 0 .. Len(tokens) |-> DeTokenizeAt(tokens, n, f)]
<1>1. PICK l \in Nat : l = Len(tokens)
  OBVIOUS
<1>2. \A n, f : /\ DeTokenizeAt(tokens, n, f)["value"] = ValueAt(tokens, n, f)
                /\ DeTokenizeAt(tokens, n, f)["items"] = ItemsAt(tokens, n, f)
  BY DEF DeTokenizeAt
<1>3. ASSUME NEW n \in Nat, NEW f, NEW g, \A k \in 0 .. n - 1 : Taken(k, f) /\ f[k] = g[k]
      PROVE  DeTokenizeAt(tokens, n, f) = DeTokenizeAt(tokens, n, g)
  <2>1. ValueAt(tokens, n, f) = ValueAt(tokens, n, g) /\ ItemsAt(tokens, n, f) = ItemsAt(tokens, n, g)
    BY <1>3, ValueSame, ItemsSame
  <2> QED BY <2>1, Zenon DEF DeTokenizeAt
<1>4. ASSUME NEW n \in Nat, NEW f, \A k \in 0 .. n - 1 : Taken(k, f),
             f[n] = DeTokenizeAt(tokens, n, f)
      PROVE  Taken(n, f)
  <2>1. f[n]["value"] = ValueAt(tokens, n, f) /\ f[n]["items"] = ItemsAt(tokens, n, f)
    BY <1>2, <1>4
  <2> QED BY <1>4, <2>1, ValueTakes, ItemsTake DEF Taken
<1> DEFINE Found(m, f) == f = [n \in 0 .. m |-> DeTokenizeAt(tokens, n, f)]
                          /\ \A n \in 0 .. m : Taken(n, f)
           S == {m \in Nat : \E f : Found(m, f)}
<1>5. 0 \in S
  <2>1. PICK e, f : f = [n \in 0 .. 0 |-> DeTokenizeAt(tokens, n, e)]
    OBVIOUS
  <2>2. DeTokenizeAt(tokens, 0, e) = DeTokenizeAt(tokens, 0, f)
    BY Zenon DEF DeTokenizeAt, ValueAt, ItemsAt
  <2>3. f = [n \in 0 .. 0 |-> DeTokenizeAt(tokens, n, f)]
    BY <2>1, <2>2
  <2>4. Taken(0, f)
    <3>1. f[0] = DeTokenizeAt(tokens, 0, f) /\ \A k \in 0 .. 0 - 1 : Taken(k, f)
      BY <2>1, <2>2
    <3> QED BY <1>4, <3>1
  <2>5. Found(0, f)
    BY <2>3, <2>4
  <2> QED BY <2>5
<1>6. ASSUME NEW m \in Nat, m \in S  PROVE m + 1 \in S
  <2>1. PICK f : Found(m, f)
    BY <1>6
  <2>2. PICK g : g = [n \in 0 .. m + 1 |-> IF n = m + 1 THEN DeTokenizeAt(tokens, n, f) ELSE f[n]]
    OBVIOUS
  <2>3. \A k \in 0 .. m : f[k] = g[k] /\ Taken(k, f) /\ f[k] = DeTokenizeAt(tokens, k, f)
    <3>1. \A k \in 0 .. m : f[k] = g[k]
      BY <2>2
    <3>2. \A k \in 0 .. m : f[k] = DeTokenizeAt(tokens, k, f)
      BY <2>1
    <3> QED BY <2>1, <3>1, <3>2
  <2>4. ASSUME NEW n \in 0 .. m + 1  PROVE g[n] = DeTokenizeAt(tokens, n, g)
    <3>1. n \in Nat /\ \A k \in 0 .. n - 1 : Taken(k, f) /\ f[k] = g[k]
      BY <2>3
    <3>2. DeTokenizeAt(tokens, n, f) = DeTokenizeAt(tokens, n, g)
      BY <1>3, <3>1
    <3>3. g[n] = DeTokenizeAt(tokens, n, f)
      <4>1. CASE n = m + 1
        BY <2>2, <4>1
      <4>2. CASE n # m + 1
        <5>1. n \in 0 .. m
          BY <4>2
        <5> QED BY <2>3, <5>1
      <4> QED BY <4>1, <4>2
    <3> QED BY <3>2, <3>3
  <2>5. g = [n \in 0 .. m + 1 |-> DeTokenizeAt(tokens, n, g)]
    BY <2>2, <2>4
  <2>6. \A k \in 0 .. m : Taken(k, g)
    BY <2>3 DEF Taken
  <2>7. Taken(m + 1, g)
    <3>1. m + 1 \in Nat /\ \A k \in 0 .. (m + 1) - 1 : Taken(k, g)
      BY <2>6
    <3> QED BY <1>4, <2>4, <3>1
  <2>8. \A n \in 0 .. m + 1 : Taken(n, g)
    BY <2>6, <2>7
  <2>9. Found(m + 1, g)
    BY <2>5, <2>8
  <2> QED BY <2>9
<1>7. l \in S
  <2> HIDE DEF S
  <2> QED BY <1>5, <1>6, SetInduction
<1> QED BY <1>1, <1>7

LEMMA DeTokenizeIs ==
  ASSUME NEW tokens, Len(tokens) \in Nat
  PROVE  \E f : /\ \A n \in 0 .. Len(tokens) : /\ f[n]["value"] = ValueAt(tokens, n, f)
                                               /\ f[n]["items"] = ItemsAt(tokens, n, f)
                /\ DeTokenize(tokens) = f[Len(tokens)]["value"]
<1>1. PICK f : f = CHOOSE g : g = [n \in 0 .. Len(tokens) |-> DeTokenizeAt(tokens, n, g)]
  OBVIOUS
<1>2. DeTokenize(tokens) = f[Len(tokens)]["value"]
  BY <1>1, Zenon DEF DeTokenize, DeTokenizeAt
<1>3. f = [n \in 0 .. Len(tokens) |-> DeTokenizeAt(tokens, n, f)]
  BY <1>1, DeTokenizeExists, Zenon
<1>4. \A n \in 0 .. Len(tokens) : f[n] = DeTokenizeAt(tokens, n, f)
  BY <1>3, Zenon
<1>5. \A n, g : /\ DeTokenizeAt(tokens, n, g)["value"] = ValueAt(tokens, n, g)
                /\ DeTokenizeAt(tokens, n, g)["items"] = ItemsAt(tokens, n, g)
  BY DEF DeTokenizeAt
<1> QED BY <1>2, <1>4, <1>5

-----------------------------------------------------------------------------
(***************************************************************************)
(* Values, their tokens and what arrives                                   *)
(***************************************************************************)

\* An integer of one byte is not filled up.
LEMMA WidenOne ==
  ASSUME NEW b \in Nat
  PROVE  Widen(<<b>>) = <<b>>
<1> DEFINE Suffices(w) == w >= Len(<<b>>) /\ \A u \in {1, 2, 4, 8} : u >= Len(<<b>>) => w <= u
           width == CHOOSE w \in {1, 2, 4, 8} : Suffices(w)
<1>1. Len(<<b>>) = 1
  OBVIOUS
<1>2. Suffices(1)
  BY <1>1
<1>3. width \in {1, 2, 4, 8} /\ Suffices(width)
  <2>1. \E w \in {1, 2, 4, 8} : Suffices(w)
    BY <1>2
  <2> HIDE DEF Suffices
  <2> QED BY <2>1
<1>4. width = 1
  BY <1>1, <1>3
<1>5. Widen(<<b>>) = [i \in 1 .. width - Len(<<b>>) |-> 0] \o <<b>>
  BY DEF Widen
<1>6. width - Len(<<b>>) = 0
  BY <1>1, <1>4
<1>7. [i \in 1 .. 0 |-> 0] = <<>> /\ <<b>> \in Seq(Nat)
  OBVIOUS
<1> HIDE DEF width
<1> QED BY <1>5, <1>6, <1>7, ConcatEmptySeq

LEMMA SmallLengths ==
  \A n \in IntegerLengths : n \in AtomLengths
<1> SUFFICES ASSUME NEW n \in IntegerLengths  PROVE n \in AtomLengths
  OBVIOUS
<1>1. n \in Nat /\ n \div 256 = 0
  BY DEF IntegerLengths
<1>2. 0 \div 256 = 0
  OBVIOUS
<1> QED BY <1>1, <1>2 DEF AtomLengths

\* The token of a scalar, and what is read at it.
IsScalarToken(t, a) ==
  /\ t \in WrittenTokens /\ t.tag # EndList
  /\ \/ t.tag \in Atoms /\ \A left : DeTokenizeAtom(t, left) = Read(a, left)
     \/ t.tag \in Commands /\ Command(t.tag) = a

LEMMA ScalarToken ==
  ASSUME NEW v \in Scalars, NEW e
  PROVE  \E t : TokenizeScalar(v) = <<t>> /\ IsScalarToken(t, ArrivedValue(v, e))
<1> DEFINE A(b, s, d) == Atom(GetTag(Len(d)), b, s, d)
<1>1. ASSUME NEW b \in BOOLEAN, NEW s \in BOOLEAN, NEW d \in AtomData
      PROVE  /\ A(b, s, d) \in WrittenTokens /\ A(b, s, d).tag \in Atoms /\ A(b, s, d).tag # EndList
             /\ A(b, s, d).isByte = b /\ A(b, s, d).isSigned = s /\ A(b, s, d).data = d
  <2>1. A(b, s, d) \in WrittenTokens
    BY DEF WrittenTokens, AtomTokens
  <2>2. GetTag(Len(d)) \in Atoms
    BY GetTagFacts DEF AtomData
  <2> QED BY <2>1, <2>2, MarksDiffer DEF Atom
<1>2. CASE v \in [kind : {"bool"}, holds : BOOLEAN]
  <2>1. v.kind = "bool" /\ Bit(v.holds, 1) \in Nat
    BY <1>2 DEF Bit
  <2>2. PICK d : d = <<Bit(v.holds, 1)>>
    OBVIOUS
  <2>3. d \in Seq(Nat) /\ Len(d) = 1
    BY <2>1, <2>2
  <2>4. d \in AtomData /\ Len(d) \in IntegerLengths
    <3>1. 1 \in IntegerLengths
      BY DEF IntegerLengths
    <3>2. Len(d) \in IntegerLengths /\ Len(d) \in AtomLengths
      BY <2>3, <3>1, SmallLengths
    <3> QED BY <2>3, <3>2 DEF AtomData, Byte
  <2>5. PICK t : t = A(FALSE, FALSE, d)
    OBVIOUS
  <2>6. TokenizeScalar(v) = <<t>>
    <3>1. TokenizeScalar(v) = <<Atom(GetTag(1), FALSE, FALSE, <<Bit(v.holds, 1)>>)>>
      BY <2>1 DEF TokenizeScalar
    <3> QED BY <2>2, <2>3, <2>5, <3>1
  <2>7. ArrivedValue(v, e) = Integer(d, FALSE)
    <3>1. ArrivedValue(v, e) = UInt8(Bit(v.holds, 1))
      BY <2>1 DEF ArrivedValue
    <3> QED BY <2>2, <3>1 DEF UInt8
  <2>8. Widen(d) = d
    BY <2>1, <2>2, WidenOne
  <2>9. /\ t \in WrittenTokens /\ t.tag \in Atoms /\ t.tag # EndList
        /\ t.isByte = FALSE /\ t.isSigned = FALSE /\ t.data = d
    BY <1>1, <2>4, <2>5
  <2>10. \A left : DeTokenizeAtom(t, left) = Read(Integer(d, FALSE), left)
    BY <2>4, <2>8, <2>9 DEF DeTokenizeAtom
  <2> QED BY <2>6, <2>7, <2>9, <2>10 DEF IsScalarToken
<1>3. CASE v \in [kind : {"int"}, signed : BOOLEAN, data : {d \in Seq(Byte) : Len(d) \in IntegerLengths}]
  <2>1. v.kind = "int" /\ v.signed \in BOOLEAN /\ v.data \in AtomData /\ Len(v.data) \in IntegerLengths
    BY <1>3, SmallLengths DEF AtomData
  <2>2. PICK t : t = A(FALSE, v.signed, v.data)
    OBVIOUS
  <2>3. TokenizeScalar(v) = <<t>>
    BY <2>1, <2>2 DEF TokenizeScalar
  <2>4. ArrivedValue(v, e) = Integer(Widen(v.data), v.signed)
    BY <2>1 DEF ArrivedValue
  <2>5. /\ t \in WrittenTokens /\ t.tag \in Atoms /\ t.tag # EndList
        /\ t.isByte = FALSE /\ t.isSigned = v.signed /\ t.data = v.data
    <3>1. PICK b \in BOOLEAN, s \in BOOLEAN, d \in AtomData : b = FALSE /\ s = v.signed /\ d = v.data
      BY <2>1
    <3>2. /\ A(b, s, d) \in WrittenTokens /\ A(b, s, d).tag \in Atoms /\ A(b, s, d).tag # EndList
          /\ A(b, s, d).isByte = b /\ A(b, s, d).isSigned = s /\ A(b, s, d).data = d
      BY <1>1
    <3>3. t = A(b, s, d)
      BY <2>2, <3>1
    <3> HIDE DEF A
    <3> QED BY <3>1, <3>2, <3>3
  <2>6. \A left : DeTokenizeAtom(t, left) = Read(Integer(Widen(v.data), v.signed), left)
    BY <2>1, <2>5 DEF DeTokenizeAtom
  <2> QED BY <2>3, <2>4, <2>5, <2>6 DEF IsScalarToken
<1>4. CASE v \in [kind : {"bytes"}, data : {d \in Seq(Byte) : Len(d) \in AtomLengths}]
  <2>1. v.kind = "bytes" /\ v.data \in AtomData /\ v = Bytes(v.data)
    BY <1>4 DEF AtomData, Bytes
  <2>2. PICK t : t = A(TRUE, FALSE, v.data)
    OBVIOUS
  <2>3. TokenizeScalar(v) = <<t>>
    BY <2>1, <2>2 DEF TokenizeScalar
  <2>4. ArrivedValue(v, e) = v
    BY <2>1 DEF ArrivedValue
  <2>5. /\ t \in WrittenTokens /\ t.tag \in Atoms /\ t.tag # EndList
        /\ t.isByte = TRUE /\ t.isSigned = FALSE /\ t.data = v.data
    BY <1>1, <2>1, <2>2
  <2>6. \A left : DeTokenizeAtom(t, left) = Read(v, left)
    BY <2>1, <2>5 DEF DeTokenizeAtom
  <2> QED BY <2>3, <2>4, <2>5, <2>6 DEF IsScalarToken
<1>5. CASE v \in [kind : {"command"}, command : Commands]
  <2>1. v.kind = "command" /\ v.command \in Commands /\ v = Command(v.command)
    BY <1>5 DEF Command
  <2>2. PICK t : t = Control(v.command)
    OBVIOUS
  <2>3. TokenizeScalar(v) = <<t>>
    BY <2>1, <2>2 DEF TokenizeScalar
  <2>4. ArrivedValue(v, e) = v
    BY <2>1 DEF ArrivedValue
  <2>5. t \in WrittenTokens /\ t.tag = v.command
    BY <2>1, <2>2 DEF WrittenTokens, ControlTokens, Controls, Control, Atom
  <2> QED BY <2>1, <2>3, <2>4, <2>5, MarksDiffer DEF IsScalarToken
<1> QED BY <1>2, <1>3, <1>4, <1>5 DEF Scalars

TokensOfItems(n, items) == [i \in DOMAIN items |-> TokensOf[n][items[i]]]
ArrivedItems(n, items) == [i \in DOMAIN items |-> Arrived[n][items[i]]]

LEMMA ScalarSent ==
  ASSUME NEW n \in 0 .. MaxDepth, NEW v \in Tokenizables[n], v \in Scalars
  PROVE  TokensOf[n][v] = TokenizeScalar(v) /\ \E e : Arrived[n][v] = ArrivedValue(v, e)
<1>1. TokensOf[n] = TokensOfAt(n, TokensOf) /\ Arrived[n] = ArrivedAt(n, Arrived)
  BY TokensOfIs, ArrivedIs
<1>2. TokensOf[n][v] = TokensOfValue(v, TokensOf[n - 1])
  BY <1>1 DEF TokensOfAt
<1>3. Arrived[n][v] = ArrivedValue(v, Arrived[n - 1])
  BY <1>1 DEF ArrivedAt
<1> QED BY <1>2, <1>3, ScalarTokens

LEMMA ListSent ==
  ASSUME NEW n \in 0 .. MaxDepth, n # 0, NEW v \in ListsOf(Tokenizables[n - 1])
  PROVE  /\ v.items \in Seq(Tokenizables[n - 1])
         /\ TokensOf[n][v] = <<Control(StartList)>> \o Joined(TokensOfItems(n - 1, v.items))
                             \o <<Control(EndList)>>
         /\ Arrived[n][v] = List(ArrivedItems(n - 1, v.items))
<1>1. TokensOf[n] = TokensOfAt(n, TokensOf) /\ Arrived[n] = ArrivedAt(n, Arrived)
  BY TokensOfIs, ArrivedIs
<1>2. v \in Tokenizables[n]
  BY NestedGrows
<1>3. v.kind = "list" /\ v.items \in Seq(Tokenizables[n - 1])
  BY DEF ListsOf
<1>4. TokensOf[n][v] = TokensOfValue(v, TokensOf[n - 1])
  BY <1>1, <1>2 DEF TokensOfAt
<1>5. Arrived[n][v] = ArrivedValue(v, Arrived[n - 1])
  BY <1>1, <1>2 DEF ArrivedAt
<1>6. TokensOfValue(v, TokensOf[n - 1]) =
        <<Control(StartList)>> \o Joined(TokensOfItems(n - 1, v.items)) \o <<Control(EndList)>>
  BY <1>3 DEF TokensOfValue, TokensOfItems
<1>7. ArrivedValue(v, Arrived[n - 1]) = List(ArrivedItems(n - 1, v.items))
  BY <1>3 DEF ArrivedValue, ArrivedItems
<1> QED BY <1>3, <1>4, <1>5, <1>6, <1>7

LEMMA NamedSent ==
  ASSUME NEW n \in 0 .. MaxDepth, n # 0, NEW v \in Nameds(Tokenizables[n - 1])
  PROVE  /\ v.name \in Tokenizables[n - 1] /\ v.value \in Tokenizables[n - 1]
         /\ TokensOf[n][v] = <<Control(StartName)>> \o TokensOf[n - 1][v.name]
                             \o TokensOf[n - 1][v.value] \o <<Control(EndName)>>
         /\ Arrived[n][v] = Named(Arrived[n - 1][v.name], Arrived[n - 1][v.value])
<1>1. TokensOf[n] = TokensOfAt(n, TokensOf) /\ Arrived[n] = ArrivedAt(n, Arrived)
  BY TokensOfIs, ArrivedIs
<1>2. v \in Tokenizables[n]
  BY NestedGrows
<1>3. v.kind = "named" /\ v.name \in Tokenizables[n - 1] /\ v.value \in Tokenizables[n - 1]
  BY DEF Nameds
<1>4. TokensOf[n][v] = TokensOfValue(v, TokensOf[n - 1])
  BY <1>1, <1>2 DEF TokensOfAt
<1>5. Arrived[n][v] = ArrivedValue(v, Arrived[n - 1])
  BY <1>1, <1>2 DEF ArrivedAt
<1>6. TokensOfValue(v, TokensOf[n - 1]) =
        <<Control(StartName)>> \o TokensOf[n - 1][v.name] \o TokensOf[n - 1][v.value]
        \o <<Control(EndName)>>
  BY <1>3 DEF TokensOfValue
<1>7. ArrivedValue(v, Arrived[n - 1]) = Named(Arrived[n - 1][v.name], Arrived[n - 1][v.value])
  BY <1>3 DEF ArrivedValue
<1> QED BY <1>3, <1>4, <1>5, <1>6, <1>7

\* What values are written as, which is never the end of a list.
IsWritten(s) ==
  /\ s \in Seq(WrittenTokens)
  /\ \E t \in WrittenTokens, e \in Seq(WrittenTokens) : s = <<t>> \o e /\ t.tag # EndList

LEMMA ControlsWritten ==
  \A c \in {StartList, EndList, StartName, EndName} :
     /\ Control(c) \in WrittenTokens /\ Control(c).tag = c
     /\ <<Control(c)>> \in Seq(WrittenTokens)
<1> SUFFICES ASSUME NEW c \in {StartList, EndList, StartName, EndName}
             PROVE  /\ Control(c) \in WrittenTokens /\ Control(c).tag = c
                    /\ <<Control(c)>> \in Seq(WrittenTokens)
  OBVIOUS
<1>1. Control(c) \in WrittenTokens
  BY DEF WrittenTokens, ControlTokens, Controls
<1>2. <<Control(c)>> \in Seq(WrittenTokens)
  BY <1>1
<1>3. Control(c).tag = c
  BY DEF Control, Atom
<1> QED BY <1>1, <1>2, <1>3

LEMMA ItemsWritten ==
  ASSUME NEW n, \A v \in Tokenizables[n] : IsWritten(TokensOf[n][v]),
         NEW items \in Seq(Tokenizables[n])
  PROVE  /\ TokensOfItems(n, items) \in Seq(Seq(WrittenTokens))
         /\ Len(TokensOfItems(n, items)) = Len(items)
         /\ \A i \in 1 .. Len(items) : /\ TokensOfItems(n, items)[i] = TokensOf[n][items[i]]
                                       /\ items[i] \in Tokenizables[n]
         /\ Joined(TokensOfItems(n, items)) \in Seq(WrittenTokens)
<1>1. PICK k \in Nat : k = Len(items) /\ DOMAIN items = 1 .. k
  OBVIOUS
<1>2. \A i \in 1 .. k : items[i] \in Tokenizables[n]
  BY <1>1
<1>3. PICK T : T = Seq(WrittenTokens)
  OBVIOUS
<1>4. \A i \in 1 .. k : TokensOf[n][items[i]] \in T
  BY <1>2, <1>3 DEF IsWritten
<1>5. PICK ss : ss = [i \in 1 .. k |-> TokensOf[n][items[i]]]
  OBVIOUS
<1>6. ss \in Seq(T) /\ Len(ss) = k /\ \A i \in 1 .. k : ss[i] = TokensOf[n][items[i]]
  BY <1>4, <1>5
<1>7. TokensOfItems(n, items) = ss
  BY <1>1, <1>5 DEF TokensOfItems
<1>8. Joined(ss) \in Seq(WrittenTokens)
  <2>1. ss \in Seq(Seq(WrittenTokens))
    BY <1>3, <1>6
  <2>2. From(ss) \in [1 .. Len(ss) + 1 -> Seq(WrittenTokens)]
    BY <2>1, FromFacts
  <2>3. 1 \in 1 .. Len(ss) + 1
    BY <1>6
  <2>4. From(ss)[1] \in Seq(WrittenTokens)
    BY <2>2, <2>3, Zenon
  <2> QED BY <2>4 DEF Joined
<1> QED BY <1>1, <1>2, <1>3, <1>6, <1>7, <1>8

LEMMA TokensWritten ==
  ASSUME NEW n \in 0 .. MaxDepth, NEW v \in Tokenizables[n]
  PROVE  IsWritten(TokensOf[n][v])
<1> DEFINE S == {m \in Nat : m <= MaxDepth => \A w \in Tokenizables[m] : IsWritten(TokensOf[m][w])}
<1>1. ASSUME NEW m \in 0 .. MaxDepth, NEW w \in Tokenizables[m], w \in Scalars
      PROVE  IsWritten(TokensOf[m][w])
  <2>1. PICK t : TokenizeScalar(w) = <<t>> /\ t \in WrittenTokens /\ t.tag # EndList
    BY <1>1, ScalarToken DEF IsScalarToken
  <2>2. TokensOf[m][w] = <<t>> /\ <<t>> \in Seq(WrittenTokens)
    BY <1>1, <2>1, ScalarSent
  <2>3. <<>> \in Seq(WrittenTokens) /\ <<t>> = <<t>> \o <<>>
    BY <2>2, ConcatEmptySeq, EmptySeq
  <2> QED BY <2>1, <2>2, <2>3 DEF IsWritten
<1>2. 0 \in S
  BY <1>1, ScalarsOnly, TokensAssumption
<1>3. ASSUME NEW m \in Nat, m \in S  PROVE m + 1 \in S
  <2> SUFFICES ASSUME m + 1 <= MaxDepth, NEW w \in Tokenizables[m + 1]
               PROVE  IsWritten(TokensOf[m + 1][w])
    OBVIOUS
  <2>1. PICK k \in 0 .. MaxDepth : k = m + 1 /\ k # 0 /\ k - 1 = m
    BY TokensAssumption
  <2>2. \A x \in Tokenizables[m] : IsWritten(TokensOf[m][x])
    BY <1>3, TokensAssumption
  <2>3. CASE w \in Scalars
    BY <1>1, <2>1, <2>3
  <2>4. CASE w \in ListsOf(Tokenizables[m])
    <3>1. /\ w.items \in Seq(Tokenizables[m])
          /\ TokensOf[k][w] = <<Control(StartList)>> \o Joined(TokensOfItems(m, w.items))
                              \o <<Control(EndList)>>
      BY <2>1, <2>4, ListSent
    <3>2. PICK j \in Seq(WrittenTokens) : j = Joined(TokensOfItems(m, w.items))
      BY <2>2, <3>1, ItemsWritten
    <3>3. PICK t \in WrittenTokens, e \in Seq(WrittenTokens) :
            t = Control(StartList) /\ t.tag # EndList /\ e = <<Control(EndList)>>
      BY ControlsWritten, MarksDiffer
    <3>4. TokensOf[k][w] = <<t>> \o (j \o e) /\ j \o e \in Seq(WrittenTokens)
          /\ <<t>> \o (j \o e) \in Seq(WrittenTokens)
      <4>1. <<t>> \in Seq(WrittenTokens)
        OBVIOUS
      <4>2. (<<t>> \o j) \o e = <<t>> \o (j \o e)
        BY <4>1, ConcatAssociative
      <4> QED BY <3>1, <3>2, <3>3, <4>1, <4>2, ConcatProperties
    <3> QED BY <2>1, <3>3, <3>4 DEF IsWritten
  <2>5. CASE w \in Nameds(Tokenizables[m])
    <3>1. /\ w.name \in Tokenizables[m] /\ w.value \in Tokenizables[m]
          /\ TokensOf[k][w] = <<Control(StartName)>> \o TokensOf[m][w.name] \o TokensOf[m][w.value]
                              \o <<Control(EndName)>>
      <4>1. w \in Nameds(Tokenizables[k - 1])
        BY <2>1, <2>5, Zenon
      <4>2. /\ w.name \in Tokenizables[k - 1] /\ w.value \in Tokenizables[k - 1]
            /\ TokensOf[k][w] = <<Control(StartName)>> \o TokensOf[k - 1][w.name]
                                \o TokensOf[k - 1][w.value] \o <<Control(EndName)>>
        BY <2>1, <4>1, NamedSent
      <4> QED BY <2>1, <4>2, Zenon
    <3>2. PICK x \in Seq(WrittenTokens), y \in Seq(WrittenTokens) :
            x = TokensOf[m][w.name] /\ y = TokensOf[m][w.value]
      BY <2>2, <3>1 DEF IsWritten
    <3>3. PICK t \in WrittenTokens, e \in Seq(WrittenTokens) :
            t = Control(StartName) /\ t.tag # EndList /\ e = <<Control(EndName)>>
      BY ControlsWritten, MarksDiffer
    <3>4. TokensOf[k][w] = <<t>> \o (x \o (y \o e)) /\ x \o (y \o e) \in Seq(WrittenTokens)
          /\ <<t>> \o (x \o (y \o e)) \in Seq(WrittenTokens)
      <4>1. PICK p \in Seq(WrittenTokens) : p = <<t>>
        <5>1. <<t>> \in Seq(WrittenTokens)
          OBVIOUS
        <5> QED BY <5>1
      <4>2. /\ ((p \o x) \o y) \o e = p \o (x \o (y \o e)) /\ x \o (y \o e) \in Seq(WrittenTokens)
            /\ p \o (x \o (y \o e)) \in Seq(WrittenTokens)
        <5>1. InARow(WrittenTokens, p, x, y, e)
          BY FourInARow, Zenon
        <5> QED BY <5>1, Zenon DEF InARow
      <4> QED BY <3>1, <3>2, <3>3, <4>1, <4>2, Zenon
    <3> QED BY <2>1, <3>3, <3>4 DEF IsWritten
  <2> QED BY <2>1, <2>3, <2>4, <2>5, Made
<1>4. n \in S
  <2> HIDE DEF S
  <2> QED BY <1>2, <1>3, SetInduction
<1> QED BY <1>4

-----------------------------------------------------------------------------
(***************************************************************************)
(* Values are read from their tokens                                       *)
(***************************************************************************)

LEMMA EndsJoin ==
  ASSUME NEW S, NEW c, NEW e, NEW s, NEW t, EndsWith(S, c, e), IsJoin(S, e, s, t)
  PROVE  EndsWith(S, c, t)
<1>1. s \in Seq(S) /\ t \in Seq(S) /\ e = s \o t
  BY DEF IsJoin
<1> QED BY <1>1, EndsWithEnd

LEMMA EndsWithin ==
  ASSUME NEW S, NEW c, NEW d, NEW a, NEW b, NEW e, NEW g,
         EndsWith(S, c, d), IsJoin(S, d, a, e), EndsWith(S, a, b), IsJoin(S, g, b, e)
  PROVE  EndsWith(S, c, g)
<1>1. PICK s \in Seq(S) : a = s \o b
  BY DEF EndsWith
<1>2. b \in Seq(S)
  BY DEF EndsWith
<1>3. IsJoin(S, a, s, b)
  BY <1>1, <1>2, JoinFacts
<1>4. IsJoin(S, d, s, g)
  BY <1>3, JoinAssociative
<1> QED BY <1>4, EndsJoin

\* f is what there is at the last n of the tokens W, for every n.
IsReading(W, f) ==
  \A n \in 0 .. Len(W) : f[n]["value"] = ValueAt(W, n, f) /\ f[n]["items"] = ItemsAt(W, n, f)

\* Where W ends with the token t and e, and there are n more tokens than in e.
IsAt(W, f, n, t, e) ==
  /\ n = Len(e) + 1 /\ Len(e) \in Nat /\ n # 0 /\ n - 1 = Len(e)
  /\ NextOf(W, n) = t /\ EndsWith(WrittenTokens, W, e)
  /\ f[n]["value"] = ValueAt(W, n, f) /\ f[n]["items"] = ItemsAt(W, n, f)

LEMMA AtToken ==
  ASSUME NEW W, NEW f, IsReading(W, f), NEW t \in WrittenTokens, NEW e \in Seq(WrittenTokens),
         NEW c, IsJoin(WrittenTokens, c, <<t>>, e), EndsWith(WrittenTokens, W, c)
  PROVE  IsAt(W, f, Len(c), t, e)
<1>1. c = <<t>> \o e
  BY DEF IsJoin
<1>2. EndsWith(WrittenTokens, W, <<t>> \o e)
  BY <1>1
<1>3. /\ Len(<<t>> \o e) = Len(e) + 1 /\ NextOf(W, Len(e) + 1) = t
      /\ EndsWith(WrittenTokens, W, e)
  BY <1>2, NextOfEnd
<1>4. PICK m \in Nat, l \in Nat : m = Len(e) /\ l = Len(W) /\ Len(c) \in Nat /\ Len(c) <= l
  <2>1. W \in Seq(WrittenTokens) /\ Len(W) \in Nat /\ Len(c) \in Nat /\ Len(c) <= Len(W)
    BY LastOfEnd
  <2> QED BY <2>1
<1>5. Len(c) = m + 1 /\ NextOf(W, Len(c)) = t
  BY <1>1, <1>3, <1>4
<1>6. Len(c) # 0 /\ Len(c) - 1 = m /\ Len(c) \in 0 .. Len(W)
  BY <1>4, <1>5
<1>7. f[Len(c)]["value"] = ValueAt(W, Len(c), f) /\ f[Len(c)]["items"] = ItemsAt(W, Len(c), f)
  BY <1>6 DEF IsReading
<1> QED BY <1>3, <1>4, <1>5, <1>6, <1>7 DEF IsAt

LEMMA ScalarRead ==
  ASSUME NEW W, NEW f, NEW n, NEW t, NEW e, NEW a, IsAt(W, f, n, t, e), IsScalarToken(t, a)
  PROVE  f[n]["value"] = Read(a, Len(e))
<1>1. /\ n # 0 /\ NextOf(W, n) = t /\ n - 1 = Len(e) /\ f[n]["value"] = ValueAt(W, n, f)
  BY DEF IsAt
<1>2. CASE t.tag \in Atoms /\ \A left : DeTokenizeAtom(t, left) = Read(a, left)
  <2>1. ValueAt(W, n, f) = DeTokenizeAtom(t, n - 1)
    BY <1>1, <1>2, MarksDiffer, Zenon DEF ValueAt
  <2> QED BY <1>1, <1>2, <2>1
<1>3. CASE t.tag \in Commands /\ t.tag \notin Atoms /\ Command(t.tag) = a
  <2>1. ValueAt(W, n, f) = Read(Command(t.tag), n - 1)
    BY <1>1, <1>3, MarksDiffer, Zenon DEF ValueAt
  <2> QED BY <1>1, <1>3, <2>1
<1> QED BY <1>2, <1>3, MarksDiffer DEF IsScalarToken

\* Every value nested at most n deep is read wherever the tokens have it.
ReadsValues(W, f, n) ==
  \A v \in Tokenizables[n] : \A r, e :
    IsJoin(WrittenTokens, e, TokensOf[n][v], r) /\ EndsWith(WrittenTokens, W, e)
      => f[Len(e)]["value"] = Read(Arrived[n][v], Len(r))

LEMMA ListEnds ==
  ASSUME NEW W, NEW f, NEW n, NEW t, NEW e, IsAt(W, f, n, t, e), t.tag = EndList
  PROVE  f[n]["items"] = Read(<<>>, Len(e))
<1>1. n # 0 /\ NextOf(W, n) = t /\ n - 1 = Len(e) /\ f[n]["items"] = ItemsAt(W, n, f)
  BY DEF IsAt
<1>2. ItemsAt(W, n, f) = Read(<<>>, n - 1)
  BY <1>1, Zenon DEF ItemsAt
<1> QED BY <1>1, <1>2

\* At the last n tokens there is v, and after it the last l.
HasRead(f, n, what, v, l) == f[n][what] = Read(v, l)

LEMMA ItemRead ==
  ASSUME NEW W, NEW f, NEW n, NEW t, NEW e, IsAt(W, f, n, t, e), t.tag # EndList,
         NEW a, NEW l, NEW as, NEW m,
         HasRead(f, n, "value", a, l), HasRead(f, l, "items", as, m)
  PROVE  HasRead(f, n, "items", <<a>> \o as, m)
<1>1. /\ n # 0 /\ NextOf(W, n) = t /\ f[n]["items"] = ItemsAt(W, n, f)
      /\ f[n]["value"] = ValueAt(W, n, f)
  BY DEF IsAt
<1>2. PICK next : next = ValueAt(W, n, f)
  OBVIOUS
<1>3. next.ok /\ next.value = a /\ next.left = l
  <2>1. next = Read(a, l)
    BY <1>1, <1>2 DEF HasRead
  <2> QED BY <2>1, ReadFacts
<1>4. PICK others : others = f[l]["items"]
  OBVIOUS
<1>5. others.ok /\ others.value = as /\ others.left = m
  <2>1. others = Read(as, m)
    BY <1>4 DEF HasRead
  <2> QED BY <2>1, ReadFacts
<1>6. ItemsAt(W, n, f) = Read(<<next.value>> \o others.value, others.left)
  BY <1>1, <1>2, <1>3, <1>4, <1>5, Zenon DEF ItemsAt
<1> QED BY <1>1, <1>3, <1>5, <1>6 DEF HasRead

LEMMA ItemsRead ==
  ASSUME NEW W, NEW f, IsReading(W, f), NEW n \in 0 .. MaxDepth, ReadsValues(W, f, n),
         NEW items \in Seq(Tokenizables[n]), NEW r, NEW ends, NEW d,
         IsJoin(WrittenTokens, ends, <<Control(EndList)>>, r),
         IsJoin(WrittenTokens, d, Joined(TokensOfItems(n, items)), ends),
         EndsWith(WrittenTokens, W, d)
  PROVE  HasRead(f, Len(d), "items", ArrivedItems(n, items), Len(r))
<1>1. PICK k \in Nat : k = Len(items) /\ DOMAIN items = 1 .. k
  OBVIOUS
<1>2. PICK A : A = ArrivedItems(n, items) /\ A = [i \in 1 .. k |-> Arrived[n][items[i]]]
  BY <1>1 DEF ArrivedItems
<1>3. PICK ss \in Seq(Seq(WrittenTokens)) :
        /\ ss = TokensOfItems(n, items) /\ Len(ss) = k
        /\ \A i \in 1 .. k : ss[i] = TokensOf[n][items[i]] /\ items[i] \in Tokenizables[n]
  BY <1>1, TokensWritten, ItemsWritten
<1>4. PICK u \in [1 .. k + 1 -> Seq(WrittenTokens)] :
        /\ u = From(ss) /\ u[k + 1] = <<>>
        /\ \A j \in 1 .. k : u[j] = ss[j] \o u[j + 1]
  <2>1. /\ From(ss) \in [1 .. Len(ss) + 1 -> Seq(WrittenTokens)] /\ From(ss)[Len(ss) + 1] = <<>>
        /\ \A j \in 1 .. Len(ss) : From(ss)[j] = ss[j] \o From(ss)[j + 1]
    BY FromFacts
  <2> QED BY <1>3, <2>1, Zenon
<1>5. ends \in Seq(WrittenTokens) /\ r \in Seq(WrittenTokens)
  BY JoinFacts DEF IsJoin
<1> DEFINE Behind(j) == u[j] \o ends
<1>6. ASSUME NEW j \in 1 .. k + 1
      PROVE  /\ IsJoin(WrittenTokens, Behind(j), u[j], ends)
             /\ EndsWith(WrittenTokens, W, Behind(j)) /\ Behind(j) \in Seq(WrittenTokens)
  <2>1. u[j] \in Seq(WrittenTokens)
    BY <1>4, Zenon
  <2>2. IsJoin(WrittenTokens, Behind(j), u[j], ends) /\ Behind(j) \in Seq(WrittenTokens)
    BY <1>5, <2>1, JoinFacts, Zenon
  <2>3. EndsWith(WrittenTokens, Joined(ss), u[j])
    BY <1>3, <1>4, JoinedEnds
  <2> QED BY <1>3, <2>2, <2>3, EndsWithin
<1> DEFINE I == {i \in Nat : i <= k => f[Len(Behind((k + 1) - i))]["items"]
                                         = Read(SubSeq(A, (k + 1) - i, k), Len(r))}
<1>7. 0 \in I
  <2>1. Behind(k + 1) = ends
    BY <1>4, <1>5, ConcatEmptySeq
  <2>2. EndsWith(WrittenTokens, W, ends)
    <3>1. k + 1 \in 1 .. k + 1
      OBVIOUS
    <3> HIDE DEF Behind
    <3> QED BY <1>6, <2>1, <3>1
  <2>3. IsAt(W, f, Len(ends), Control(EndList), r)
    BY <1>5, <2>2, ControlsWritten, AtToken
  <2>4. f[Len(ends)]["items"] = Read(<<>>, Len(r))
    BY <2>3, ControlsWritten, ListEnds
  <2>5. SubSeq(A, k + 1, k) = <<>>
    BY SubSeqEmpty
  <2>6. (k + 1) - 0 = k + 1
    OBVIOUS
  <2> HIDE DEF Behind
  <2> QED BY <2>1, <2>4, <2>5, <2>6
<1>8. ASSUME NEW i \in Nat, i \in I  PROVE i + 1 \in I
  <2> SUFFICES ASSUME i + 1 <= k
               PROVE  f[Len(Behind((k + 1) - (i + 1)))]["items"]
                        = Read(SubSeq(A, (k + 1) - (i + 1), k), Len(r))
    OBVIOUS
  <2>1. PICK j \in 1 .. k : j = (k + 1) - (i + 1) /\ j + 1 = (k + 1) - i
    OBVIOUS
  <2>2. j \in 1 .. k + 1 /\ j + 1 \in 1 .. k + 1
    OBVIOUS
  <2>3. PICK e, o : e = Behind(j) /\ o = Behind(j + 1)
    OBVIOUS
  <2>4. f[Len(o)]["items"] = Read(SubSeq(A, j + 1, k), Len(r))
    <3>1. i <= k
      OBVIOUS
    <3> HIDE DEF Behind
    <3> QED BY <1>8, <2>1, <2>3, <3>1
  <2>5. PICK v \in Tokenizables[n] : v = items[j] /\ ss[j] = TokensOf[n][v]
    BY <1>3
  <2>6. /\ o \in Seq(WrittenTokens) /\ e \in Seq(WrittenTokens) /\ EndsWith(WrittenTokens, W, e)
        /\ IsJoin(WrittenTokens, e, u[j], ends) /\ IsJoin(WrittenTokens, o, u[j + 1], ends)
    <3> HIDE DEF Behind
    <3> QED BY <1>6, <2>2, <2>3
  <2>7. IsJoin(WrittenTokens, e, ss[j], o)
    <3>1. u[j] = ss[j] \o u[j + 1]
      BY <1>4, Zenon
    <3>2. IsWritten(ss[j])
      BY <2>5, TokensWritten
    <3>3. ss[j] \in Seq(WrittenTokens) /\ u[j + 1] \in Seq(WrittenTokens)
      BY <1>4, <2>2, <3>2, Zenon DEF IsWritten
    <3>4. IsJoin(WrittenTokens, u[j], ss[j], u[j + 1])
      BY <3>1, <3>3, Zenon DEF IsJoin
    <3> QED BY <2>6, <3>4, JoinAssociative
  <2>8. f[Len(e)]["value"] = Read(Arrived[n][v], Len(o))
    BY <2>5, <2>6, <2>7 DEF ReadsValues
  <2>9. PICK t \in WrittenTokens, g \in Seq(WrittenTokens) : ss[j] = <<t>> \o g /\ t.tag # EndList
    BY <2>5, TokensWritten DEF IsWritten
  <2>10. \E h \in Seq(WrittenTokens) : IsJoin(WrittenTokens, e, <<t>>, h)
    <3>1. <<t>> \in Seq(WrittenTokens)
      OBVIOUS
    <3>2. IsJoin(WrittenTokens, ss[j], <<t>>, g) /\ IsJoin(WrittenTokens, g \o o, g, o)
          /\ g \o o \in Seq(WrittenTokens)
      BY <2>6, <2>9, <3>1, JoinFacts
    <3>3. IsJoin(WrittenTokens, e, <<t>>, g \o o)
      BY <2>7, <3>2, JoinAssociative
    <3> QED BY <3>2, <3>3
  <2>11. PICK h \in Seq(WrittenTokens) : IsJoin(WrittenTokens, e, <<t>>, h)
    BY <2>10
  <2>12. IsAt(W, f, Len(e), t, h)
    BY <2>6, <2>11, AtToken
  <2>13. f[Len(e)]["items"] = Read(<<Arrived[n][v]>> \o SubSeq(A, j + 1, k), Len(r))
    <3>1. PICK a, l, as, m, p :
            a = Arrived[n][v] /\ l = Len(o) /\ as = SubSeq(A, j + 1, k) /\ m = Len(r) /\ p = Len(e)
      OBVIOUS
    <3>2. /\ HasRead(f, p, "value", a, l) /\ HasRead(f, l, "items", as, m)
          /\ IsAt(W, f, p, t, h)
      BY <2>4, <2>8, <2>12, <3>1 DEF HasRead
    <3>3. HasRead(f, p, "items", <<a>> \o as, m)
      BY <2>9, <3>2, ItemRead, Zenon
    <3> QED BY <3>1, <3>3 DEF HasRead
  <2>14. SubSeq(A, j, k) = <<Arrived[n][v]>> \o SubSeq(A, j + 1, k)
    <3>1. PICK V : \A i_1 \in 1 .. k : A[i_1] \in V
      <4>1. \A i_1 \in 1 .. k : A[i_1] \in {A[x] : x \in 1 .. k}
        OBVIOUS
      <4> QED BY <4>1
    <3>2. A \in Seq(V) /\ Len(A) = k /\ A[j] = Arrived[n][v]
      BY <1>2, <2>5, <3>1
    <3>3. j \in 1 .. Len(A) /\ k \in j .. Len(A)
      BY <3>2
    <3> QED BY <3>2, <3>3, SubSeqRecursiveFirst
  <2> HIDE DEF Behind
  <2> QED BY <2>1, <2>3, <2>13, <2>14
<1>9. k \in I
  <2> HIDE DEF I
  <2> QED BY <1>7, <1>8, SetInduction
<1>10. f[Len(Behind(1))]["items"] = Read(SubSeq(A, 1, k), Len(r))
  <2>1. k <= k /\ (k + 1) - k = 1
    OBVIOUS
  <2> HIDE DEF Behind
  <2> QED BY <1>9, <2>1
<1>11. Behind(1) = d
  BY <1>3, <1>4 DEF IsJoin, Joined
<1>12. SubSeq(A, 1, k) = A
  <2>1. PICK V : \A i \in 1 .. k : A[i] \in V
    <3>1. \A i \in 1 .. k : A[i] \in {A[x] : x \in 1 .. k}
      OBVIOUS
    <3> QED BY <3>1
  <2>2. A \in Seq(V) /\ Len(A) = k
    BY <1>2, <2>1
  <2> QED BY <2>2, SubSeqFull
<1> HIDE DEF Behind
<1> QED BY <1>2, <1>10, <1>11, <1>12 DEF HasRead
LEMMA ListOpens ==
  ASSUME NEW W, NEW f, NEW n, NEW t, NEW e, IsAt(W, f, n, t, e), t.tag = StartList,
         NEW as, NEW m, HasRead(f, Len(e), "items", as, m)
  PROVE  HasRead(f, n, "value", List(as), m)
<1>1. /\ n # 0 /\ NextOf(W, n) = t /\ n - 1 = Len(e) /\ f[n]["value"] = ValueAt(W, n, f)
  BY DEF IsAt
<1>2. PICK items : items = f[n - 1]["items"]
  OBVIOUS
<1>3. items.ok /\ items.value = as /\ items.left = m
  <2>1. items = Read(as, m)
    BY <1>1, <1>2 DEF HasRead
  <2> QED BY <2>1, ReadFacts
<1>4. ValueAt(W, n, f) = Read(List(items.value), items.left)
  BY <1>1, <1>2, <1>3, MarksDiffer, Zenon DEF ValueAt
<1> QED BY <1>1, <1>3, <1>4 DEF HasRead

LEMMA ListRead ==
  ASSUME NEW W, NEW f, IsReading(W, f), NEW n \in 0 .. MaxDepth, n # 0,
         ReadsValues(W, f, n - 1), NEW v \in ListsOf(Tokenizables[n - 1]), NEW r, NEW e,
         IsJoin(WrittenTokens, e, TokensOf[n][v], r), EndsWith(WrittenTokens, W, e)
  PROVE  HasRead(f, Len(e), "value", Arrived[n][v], Len(r))
<1>1. PICK m \in 0 .. MaxDepth : m = n - 1
  BY TokensAssumption
<1>2. PICK items \in Seq(Tokenizables[m]) :
        /\ TokensOf[n][v] = <<Control(StartList)>> \o Joined(TokensOfItems(m, items))
                            \o <<Control(EndList)>>
        /\ Arrived[n][v] = List(ArrivedItems(m, items))
  BY <1>1, ListSent
<1>3. PICK j \in Seq(WrittenTokens) : j = Joined(TokensOfItems(m, items))
  BY TokensWritten, ItemsWritten
<1>4. PICK s \in Seq(WrittenTokens), x \in Seq(WrittenTokens) :
        s = <<Control(StartList)>> /\ x = <<Control(EndList)>>
  BY ControlsWritten
<1>5. r \in Seq(WrittenTokens) /\ e = ((s \o j) \o x) \o r
  BY <1>2, <1>3, <1>4 DEF IsJoin
<1>6. InARow(WrittenTokens, s, j, x, r)
  BY <1>5, FourInARow, Zenon
<1>7. PICK ends : IsJoin(WrittenTokens, ends, x, r) /\ ends = x \o r /\ ends \in Seq(WrittenTokens)
  BY <1>5, JoinFacts, Zenon
<1>8. PICK d : IsJoin(WrittenTokens, d, j, ends) /\ d = j \o ends /\ d \in Seq(WrittenTokens)
  BY <1>7, JoinFacts, Zenon
<1>9. IsJoin(WrittenTokens, e, s, d)
  BY <1>5, <1>6, <1>7, <1>8, Zenon DEF InARow, IsJoin
<1>10. EndsWith(WrittenTokens, W, d)
  BY <1>9, EndsJoin
<1>11. HasRead(f, Len(d), "items", ArrivedItems(m, items), Len(r))
  <2>1. ReadsValues(W, f, m) /\ IsJoin(WrittenTokens, ends, <<Control(EndList)>>, r)
        /\ IsJoin(WrittenTokens, d, Joined(TokensOfItems(m, items)), ends)
    BY <1>1, <1>3, <1>4, <1>7, <1>8
  <2> QED BY <1>10, <2>1, ItemsRead, Zenon
<1>12. IsAt(W, f, Len(e), Control(StartList), d)
  BY <1>4, <1>8, <1>9, ControlsWritten, AtToken
<1> QED BY <1>2, <1>11, <1>12, ControlsWritten, ListOpens

LEMMA NameOpens ==
  ASSUME NEW W, NEW f, NEW n, NEW t, NEW e, IsAt(W, f, n, t, e), t.tag = StartName,
         NEW a, NEW b, NEW l \in Nat, NEW k \in Nat, l > 0, k > 0, Len(e) > 0,
         HasRead(f, Len(e), "value", a, l), HasRead(f, l, "value", b, k),
         NextOf(W, k).tag = EndName
  PROVE  HasRead(f, n, "value", Named(a, b), k - 1)
<1>1. /\ n # 0 /\ NextOf(W, n) = t /\ n - 1 = Len(e) /\ f[n]["value"] = ValueAt(W, n, f) /\ n > 1
  BY DEF IsAt
<1>2. PICK name : name = f[n - 1]["value"]
  OBVIOUS
<1>3. name.ok /\ name.value = a /\ name.left = l
  <2>1. name = Read(a, l)
    BY <1>1, <1>2 DEF HasRead
  <2> QED BY <2>1, ReadFacts
<1>4. PICK value : value = f[l]["value"]
  OBVIOUS
<1>5. value.ok /\ value.value = b /\ value.left = k
  <2>1. value = Read(b, k)
    BY <1>4 DEF HasRead
  <2> QED BY <2>1, ReadFacts
<1>6. ValueAt(W, n, f) = Read(Named(name.value, value.value), value.left - 1)
  BY <1>1, <1>2, <1>3, <1>4, <1>5, MarksDiffer, Zenon DEF ValueAt
<1> QED BY <1>1, <1>3, <1>5, <1>6 DEF HasRead
LEMMA NamedRead ==
  ASSUME NEW W, NEW f, IsReading(W, f), NEW n \in 0 .. MaxDepth, n # 0,
         ReadsValues(W, f, n - 1), NEW v \in Nameds(Tokenizables[n - 1]), NEW r, NEW e,
         IsJoin(WrittenTokens, e, TokensOf[n][v], r), EndsWith(WrittenTokens, W, e)
  PROVE  HasRead(f, Len(e), "value", Arrived[n][v], Len(r))
<1>1. PICK m \in 0 .. MaxDepth : m = n - 1
  BY TokensAssumption
<1>2. PICK p \in Tokenizables[m], q \in Tokenizables[m] :
        /\ TokensOf[n][v] = <<Control(StartName)>> \o TokensOf[m][p] \o TokensOf[m][q]
                            \o <<Control(EndName)>>
        /\ Arrived[n][v] = Named(Arrived[m][p], Arrived[m][q])
  BY <1>1, NamedSent
<1>3. PICK i \in Seq(WrittenTokens), j \in Seq(WrittenTokens) :
        i = TokensOf[m][p] /\ j = TokensOf[m][q]
  BY TokensWritten DEF IsWritten
<1>4. PICK s \in Seq(WrittenTokens), x \in Seq(WrittenTokens) :
        s = <<Control(StartName)>> /\ x = <<Control(EndName)>>
  BY ControlsWritten
<1>5. r \in Seq(WrittenTokens) /\ e = (((s \o i) \o j) \o x) \o r
  BY <1>2, <1>3, <1>4 DEF IsJoin
<1>6. PICK ends : IsJoin(WrittenTokens, ends, x, r) /\ ends = x \o r /\ ends \in Seq(WrittenTokens)
  BY <1>5, JoinFacts, Zenon
<1>7. PICK c : IsJoin(WrittenTokens, c, j, ends) /\ c = j \o ends /\ c \in Seq(WrittenTokens)
  BY <1>6, JoinFacts, Zenon
<1>8. PICK d : IsJoin(WrittenTokens, d, i, c) /\ d = i \o c /\ d \in Seq(WrittenTokens)
  BY <1>7, JoinFacts, Zenon
<1>9. IsJoin(WrittenTokens, e, s, d)
  <2>1. PICK si : IsJoin(WrittenTokens, si, s, i) /\ si = s \o i /\ si \in Seq(WrittenTokens)
    BY <1>3, JoinFacts, Zenon
  <2>2. PICK sij : IsJoin(WrittenTokens, sij, si, j) /\ sij = si \o j /\ sij \in Seq(WrittenTokens)
    BY <2>1, JoinFacts, Zenon
  <2>3. PICK sijx : IsJoin(WrittenTokens, sijx, sij, x) /\ sijx = sij \o x
                    /\ sijx \in Seq(WrittenTokens)
    BY <2>2, JoinFacts, Zenon
  <2>4. IsJoin(WrittenTokens, e, sijx, r)
    BY <1>5, <2>1, <2>2, <2>3, Zenon DEF IsJoin
  <2>5. IsJoin(WrittenTokens, e, sij, ends)
    BY <1>6, <2>3, <2>4, JoinAssociative, Zenon
  <2>6. IsJoin(WrittenTokens, e, si, c)
    BY <1>7, <2>2, <2>5, JoinAssociative
  <2> QED BY <1>8, <2>1, <2>6, JoinAssociative
<1>10. EndsWith(WrittenTokens, W, d) /\ EndsWith(WrittenTokens, W, c)
       /\ EndsWith(WrittenTokens, W, ends)
  BY <1>6, <1>7, <1>8, <1>9, EndsJoin
<1>11. IsAt(W, f, Len(e), Control(StartName), d) /\ IsAt(W, f, Len(ends), Control(EndName), r)
  <2>1. IsJoin(WrittenTokens, e, <<Control(StartName)>>, d)
        /\ IsJoin(WrittenTokens, ends, <<Control(EndName)>>, r)
    BY <1>4, <1>6, <1>9
  <2>2. IsAt(W, f, Len(e), Control(StartName), d)
    BY <1>8, <2>1, ControlsWritten, AtToken
  <2>3. IsAt(W, f, Len(ends), Control(EndName), r)
    BY <1>5, <1>10, <2>1, ControlsWritten, AtToken
  <2> QED BY <2>2, <2>3
<1>12. HasRead(f, Len(d), "value", Arrived[m][p], Len(c))
       /\ HasRead(f, Len(c), "value", Arrived[m][q], Len(ends))
  <2>1. ReadsValues(W, f, m)
    BY <1>1
  <2>2. IsJoin(WrittenTokens, d, TokensOf[m][p], c) /\ IsJoin(WrittenTokens, c, TokensOf[m][q], ends)
    BY <1>3, <1>7, <1>8
  <2> QED BY <1>10, <2>1, <2>2 DEF ReadsValues, HasRead
<1>13. PICK lr \in Nat, le \in Nat, lc \in Nat, ld \in Nat :
         /\ lr = Len(r) /\ le = Len(ends) /\ lc = Len(c) /\ ld = Len(d)
         /\ le = lr + 1 /\ lc > 0 /\ ld > 0
  <2>1. Len(ends) = Len(r) + 1 /\ Len(r) \in Nat /\ Len(ends) \in Nat
    BY <1>11 DEF IsAt
  <2>2. Len(c) = Len(j) + Len(ends) /\ Len(j) \in Nat /\ Len(c) \in Nat
    BY <1>6, <1>7, ConcatProperties, LenProperties
  <2>3. Len(d) = Len(i) + Len(c) /\ Len(i) \in Nat /\ Len(d) \in Nat
    BY <1>7, <1>8, ConcatProperties, LenProperties
  <2>4. Len(c) > 0 /\ Len(d) > 0
    BY <2>1, <2>2, <2>3
  <2> QED BY <2>1, <2>2, <2>3, <2>4, Zenon
<1>14. NextOf(W, le).tag = EndName
  BY <1>11, <1>13, ControlsWritten DEF IsAt
<1>15. HasRead(f, Len(e), "value", Named(Arrived[m][p], Arrived[m][q]), le - 1)
  <2>1. Control(StartName).tag = StartName
    BY ControlsWritten
  <2>2. HasRead(f, Len(d), "value", Arrived[m][p], lc) /\ HasRead(f, lc, "value", Arrived[m][q], le)
    BY <1>12, <1>13
  <2>3. lc > 0 /\ le > 0 /\ Len(d) > 0
    BY <1>13
  <2> QED BY <1>11, <1>14, <2>1, <2>2, <2>3, NameOpens
<1>16. le - 1 = Len(r)
  BY <1>13
<1> QED BY <1>2, <1>15, <1>16
LEMMA ValuesRead ==
  ASSUME NEW W, NEW f, IsReading(W, f), NEW n \in 0 .. MaxDepth
  PROVE  ReadsValues(W, f, n)
<1> DEFINE S == {m \in Nat : m <= MaxDepth => ReadsValues(W, f, m)}
<1>1. ASSUME NEW m \in 0 .. MaxDepth, NEW v \in Tokenizables[m], v \in Scalars, NEW r, NEW e,
             IsJoin(WrittenTokens, e, TokensOf[m][v], r), EndsWith(WrittenTokens, W, e)
      PROVE  f[Len(e)]["value"] = Read(Arrived[m][v], Len(r))
  <2>1. PICK g : TokensOf[m][v] = TokenizeScalar(v) /\ Arrived[m][v] = ArrivedValue(v, g)
    BY <1>1, ScalarSent
  <2>2. PICK a : a = Arrived[m][v]
    OBVIOUS
  <2>3. PICK t : TokenizeScalar(v) = <<t>> /\ IsScalarToken(t, a)
    BY <1>1, <2>1, <2>2, ScalarToken
  <2>4. t \in WrittenTokens
    BY <2>3 DEF IsScalarToken
  <2>5. r \in Seq(WrittenTokens) /\ IsJoin(WrittenTokens, e, <<t>>, r)
    BY <1>1, <2>1, <2>3 DEF IsJoin
  <2>6. IsAt(W, f, Len(e), t, r)
    BY <1>1, <2>4, <2>5, AtToken
  <2>7. f[Len(e)]["value"] = Read(a, Len(r))
    BY <2>3, <2>6, ScalarRead
  <2> QED BY <2>2, <2>7
<1>2. 0 \in S
  BY <1>1, ScalarsOnly, TokensAssumption DEF ReadsValues
<1>3. ASSUME NEW m \in Nat, m \in S  PROVE m + 1 \in S
  <2> SUFFICES ASSUME m + 1 <= MaxDepth  PROVE ReadsValues(W, f, m + 1)
    OBVIOUS
  <2>1. PICK k \in 0 .. MaxDepth : k = m + 1 /\ k # 0 /\ k - 1 = m
    BY TokensAssumption
  <2>2. ReadsValues(W, f, k - 1)
    BY <1>3, <2>1, TokensAssumption
  <2> SUFFICES ASSUME NEW v \in Tokenizables[k], NEW r, NEW e,
                      IsJoin(WrittenTokens, e, TokensOf[k][v], r), EndsWith(WrittenTokens, W, e)
               PROVE  f[Len(e)]["value"] = Read(Arrived[k][v], Len(r))
    BY <2>1 DEF ReadsValues
  <2>3. CASE v \in Scalars
    BY <1>1, <2>3
  <2>4. CASE v \in ListsOf(Tokenizables[k - 1])
    <3>1. HasRead(f, Len(e), "value", Arrived[k][v], Len(r))
      BY <2>1, <2>2, <2>4, ListRead
    <3> QED BY <3>1 DEF HasRead
  <2>5. CASE v \in Nameds(Tokenizables[k - 1])
    <3>1. HasRead(f, Len(e), "value", Arrived[k][v], Len(r))
      BY <2>1, <2>2, <2>5, NamedRead
    <3> QED BY <3>1 DEF HasRead
  <2> QED BY <2>3, <2>4, <2>5, Made
<1>4. n \in S
  <2> HIDE DEF S
  <2> QED BY <1>2, <1>3, SetInduction
<1> QED BY <1>4

\* What is read from the tokens of a value is the value, but for what the
\* encoding does not keep.
LEMMA DeTokenizeTokens ==
  ASSUME NEW v, Tokenizable(v)
  PROVE  DeTokenize(Tokenize(v)) = Read(Arrived[MaxDepth][v], 0)
<1>1. MaxDepth \in 0 .. MaxDepth /\ v \in Tokenizables[MaxDepth]
  BY TokensAssumption DEF Tokenizable
<1>2. PICK W \in Seq(WrittenTokens) : W = Tokenize(v)
  BY <1>1, TokensWritten DEF IsWritten, Tokenize
<1>3. PICK l \in Nat : l = Len(W)
  OBVIOUS
<1>4. PICK f : /\ \A n \in 0 .. Len(W) : /\ f[n]["value"] = ValueAt(W, n, f)
                                         /\ f[n]["items"] = ItemsAt(W, n, f)
               /\ DeTokenize(W) = f[Len(W)]["value"]
  BY <1>3, DeTokenizeIs
<1>5. ReadsValues(W, f, MaxDepth)
  <2>1. IsReading(W, f)
    BY <1>4, Zenon DEF IsReading
  <2> QED BY <1>1, <2>1, ValuesRead
<1>6. EndsWith(WrittenTokens, W, W)
  BY EndsWithItself
<1>7. IsJoin(WrittenTokens, W, TokensOf[MaxDepth][v], <<>>)
  <2>1. <<>> \in Seq(WrittenTokens) /\ W = W \o <<>>
    BY ConcatEmptySeq, EmptySeq
  <2> QED BY <1>2, <2>1 DEF IsJoin, Tokenize
<1>8. f[Len(W)]["value"] = Read(Arrived[MaxDepth][v], Len(<<>>))
  BY <1>1, <1>5, <1>6, <1>7 DEF ReadsValues
<1>9. Len(<<>>) = 0
  BY EmptySeq
<1> QED BY <1>2, <1>4, <1>8, <1>9
LEMMA ListTokens ==
  ASSUME NEW v, Tokenizable(v), v.kind = "list"
  PROVE  /\ MaxDepth # 0 /\ MaxDepth - 1 \in 0 .. MaxDepth
         /\ v \in ListsOf(Tokenizables[MaxDepth - 1])
         /\ \E j \in Seq(WrittenTokens) :
              Tokenize(v) = <<Control(StartList)>> \o j \o <<Control(EndList)>>
<1>1. MaxDepth \in 0 .. MaxDepth /\ v \in Tokenizables[MaxDepth]
  BY TokensAssumption DEF Tokenizable
<1>2. v \notin Scalars
  BY ScalarKinds
<1>3. v \notin Nameds(Tokenizables[MaxDepth - 1])
  BY DEF Nameds
<1>4. MaxDepth # 0 /\ v \in ListsOf(Tokenizables[MaxDepth - 1])
  BY <1>1, <1>2, <1>3, Made
<1>5. MaxDepth - 1 \in 0 .. MaxDepth
  BY <1>4, TokensAssumption
<1>6. /\ v.items \in Seq(Tokenizables[MaxDepth - 1])
      /\ TokensOf[MaxDepth][v] = <<Control(StartList)>>
           \o Joined(TokensOfItems(MaxDepth - 1, v.items)) \o <<Control(EndList)>>
  BY <1>1, <1>4, ListSent
<1>7. PICK j \in Seq(WrittenTokens) : j = Joined(TokensOfItems(MaxDepth - 1, v.items))
  BY <1>5, <1>6, TokensWritten, ItemsWritten
<1>8. Tokenize(v) = <<Control(StartList)>> \o j \o <<Control(EndList)>>
  BY <1>6, <1>7 DEF Tokenize
<1> QED BY <1>4, <1>5, <1>8

LEMMA SurroundedAgain ==
  ASSUME NEW S, NEW a, NEW b, <<a>> \in Seq(S), <<b>> \in Seq(S), NEW j \in Seq(S)
  PROVE  UnSurroundWithList(<<a>> \o j \o <<b>>) = j
<1>1. PICK n \in Nat : n = Len(j)
  OBVIOUS
<1>2. PICK c : c = <<a>> \o j
  OBVIOUS
<1>3. c \in Seq(S) /\ Len(c) = n + 1 /\ \A i \in 1 .. n : c[i + 1] = j[i]
  <2>1. Len(<<a>>) = 1
    OBVIOUS
  <2>2. /\ c \in Seq(S) /\ Len(c) = 1 + n
        /\ \A i \in 1 .. 1 + n : c[i] = IF i <= 1 THEN <<a>>[i] ELSE j[i - 1]
    BY <1>1, <1>2, <2>1, ConcatProperties
  <2>3. ASSUME NEW i \in 1 .. n  PROVE c[i + 1] = j[i]
    <3>1. PICK k \in 1 .. 1 + n : k = i + 1 /\ ~(k <= 1) /\ k - 1 = i
      OBVIOUS
    <3>2. c[k] = j[k - 1]
      BY <2>2, <3>1, Zenon
    <3> QED BY <3>1, <3>2
  <2> QED BY <2>2, <2>3
<1>4. PICK d : d = c \o <<b>>
  OBVIOUS
<1>5. d \in Seq(S) /\ Len(d) = n + 2 /\ \A i \in 1 .. n : d[i + 1] = j[i]
  <2>1. Len(<<b>>) = 1
    OBVIOUS
  <2>2. /\ d \in Seq(S) /\ Len(d) = (n + 1) + 1
        /\ \A i \in 1 .. (n + 1) + 1 : d[i] = IF i <= n + 1 THEN c[i] ELSE <<b>>[i - (n + 1)]
    BY <1>3, <1>4, <2>1, ConcatProperties
  <2>3. ASSUME NEW i \in 1 .. n  PROVE d[i + 1] = j[i]
    <3>1. PICK k \in 1 .. (n + 1) + 1 : k = i + 1 /\ k <= n + 1
      OBVIOUS
    <3>2. d[k] = c[k]
      BY <2>2, <3>1, Zenon
    <3> QED BY <1>3, <3>1, <3>2
  <2> QED BY <2>2, <2>3
<1>6. UnSurroundWithList(d) = SubSeq(d, 2, n + 1)
  BY <1>5 DEF UnSurroundWithList
<1>7. PICK u : u = SubSeq(d, 2, n + 1)
  OBVIOUS
<1>8. u \in Seq(S) /\ Len(u) = n /\ \A i \in 1 .. n : u[i] = d[i + 1]
  <2>1. \A i \in 2 .. n + 1 : d[i] \in S
    BY <1>5
  <2>2. /\ u \in Seq(S) /\ Len(u) = (IF 2 <= n + 1 THEN ((n + 1) - 2) + 1 ELSE 0)
        /\ \A i \in 1 .. ((n + 1) - 2) + 1 : u[i] = d[(2 + i) - 1]
    BY <1>7, <2>1, SubSeqProperties
  <2> QED BY <2>2
<1>9. u = j
  <2>1. \A i \in 1 .. n : u[i] = j[i]
    BY <1>5, <1>8
  <2> QED BY <1>1, <1>8, <2>1, SeqEqual
<1> QED BY <1>2, <1>4, <1>6, <1>7, <1>9

\* What the other side reads from the bytes a list is sent as, is the list, but
\* for what the encoding does not keep: Value, TokenStream and the list that
\* SendPacketizedValue takes off and ReceivePacketizedValue puts on again.
THEOREM ListsArrive ==
  ASSUME NEW v, Tokenizable(v), v.kind = "list"
  PROVE  FromBytes(ToBytes(v)) = Read(Arrived[MaxDepth][v], 0)
<1>1. PICK j \in Seq(WrittenTokens) :
        Tokenize(v) = <<Control(StartList)>> \o j \o <<Control(EndList)>>
  BY ListTokens
<1>2. UnSurroundWithList(Tokenize(v)) = j
  <2>1. <<Control(StartList)>> \in Seq(WrittenTokens) /\ <<Control(EndList)>> \in Seq(WrittenTokens)
    BY ControlsWritten
  <2> QED BY <1>1, <2>1, SurroundedAgain
<1>3. ToBytes(v) = SerializeTokens(j)
  BY <1>2 DEF ToBytes
<1>4. DeSerializeTokens(ToBytes(v)) = Read(j, 0)
  BY <1>3, TokensRead
<1>5. FromBytes(ToBytes(v)) = DeTokenize(SurroundWithList(j))
  <2>1. PICK tokens : tokens = DeSerializeTokens(ToBytes(v))
    OBVIOUS
  <2>2. tokens.ok /\ tokens.value = j
    BY <1>4, <2>1, ReadFacts
  <2> QED BY <2>1, <2>2, Zenon DEF FromBytes
<1>6. SurroundWithList(j) = Tokenize(v)
  BY <1>1 DEF SurroundWithList
<1> QED BY <1>5, <1>6, DeTokenizeTokens
-----------------------------------------------------------------------------
(***************************************************************************)
(* What arrives does not depend on how deep a value is nested              *)
(***************************************************************************)

LEMMA NestedSteps ==
  ASSUME NEW n \in 0 .. MaxDepth, NEW m \in 0 .. MaxDepth, n <= m
  PROVE  Tokenizables[n] \subseteq Tokenizables[m]
<1> DEFINE S == {i \in Nat : n + i <= MaxDepth => Tokenizables[n] \subseteq Tokenizables[n + i]}
<1>1. 0 \in S
  OBVIOUS
<1>2. ASSUME NEW i \in Nat, i \in S  PROVE i + 1 \in S
  <2> SUFFICES ASSUME n + (i + 1) <= MaxDepth
               PROVE  Tokenizables[n] \subseteq Tokenizables[n + (i + 1)]
    OBVIOUS
  <2>1. PICK k \in 0 .. MaxDepth : k = n + (i + 1) /\ k # 0 /\ k - 1 = n + i /\ n + i <= MaxDepth
    BY TokensAssumption
  <2>2. Tokenizables[n] \subseteq Tokenizables[k - 1]
    BY <1>2, <2>1
  <2>3. Tokenizables[k - 1] \subseteq Tokenizables[k]
    BY <2>1, NestedGrows
  <2> QED BY <2>1, <2>2, <2>3
<1>3. PICK d \in Nat : n + d = m
  <2>1. m - n \in Nat /\ n + (m - n) = m
    OBVIOUS
  <2> QED BY <2>1
<1>4. d \in S
  <2> HIDE DEF S
  <2> QED BY <1>1, <1>2, SetInduction
<1>5. m <= MaxDepth
  BY TokensAssumption
<1> QED BY <1>3, <1>4, <1>5

LEMMA ArrivesNext ==
  ASSUME NEW n \in Nat, n + 1 <= MaxDepth, NEW v \in Tokenizables[n]
  PROVE  Arrived[n + 1][v] = Arrived[n][v]
<1> DEFINE S == {m \in Nat : m + 1 <= MaxDepth =>
                               \A w \in Tokenizables[m] : Arrived[m + 1][w] = Arrived[m][w]}
<1>1. ASSUME NEW m \in Nat, m + 1 <= MaxDepth, NEW w \in Tokenizables[m], w \in Scalars
      PROVE  Arrived[m + 1][w] = Arrived[m][w]
  <2>1. PICK k \in 0 .. MaxDepth : k = m + 1 /\ k # 0 /\ k - 1 = m /\ m \in 0 .. MaxDepth
    BY <1>1, TokensAssumption
  <2>2. w \in Tokenizables[k]
    BY <1>1, <2>1, NestedGrows
  <2>3. PICK e : Arrived[m][w] = ArrivedValue(w, e)
    BY <1>1, <2>1, ScalarSent
  <2>4. PICK g : Arrived[k][w] = ArrivedValue(w, g)
    BY <1>1, <2>2, ScalarSent
  <2>5. ArrivedValue(w, e) = ArrivedValue(w, g)
    BY <1>1, ScalarArrived
  <2> QED BY <2>1, <2>3, <2>4, <2>5
<1>2. 0 \in S
  BY <1>1, ScalarsOnly, TokensAssumption
<1>3. ASSUME NEW m \in Nat, m \in S  PROVE m + 1 \in S
  <2> SUFFICES ASSUME (m + 1) + 1 <= MaxDepth, NEW w \in Tokenizables[m + 1]
               PROVE  Arrived[(m + 1) + 1][w] = Arrived[m + 1][w]
    OBVIOUS
  <2>1. PICK k \in 0 .. MaxDepth, l \in 0 .. MaxDepth :
          k = m + 1 /\ l = (m + 1) + 1 /\ k # 0 /\ l # 0 /\ k - 1 = m /\ l - 1 = k
    BY TokensAssumption
  <2>2. \A x \in Tokenizables[m] : Arrived[k][x] = Arrived[m][x]
    BY <1>3, <2>1, TokensAssumption
  <2>3. Tokenizables[m] \subseteq Tokenizables[k]
    BY <2>1, NestedGrows
  <2>4. CASE w \in Scalars
    BY <1>1, <2>4
  <2>5. CASE w \in ListsOf(Tokenizables[m])
    <3>1. w \in ListsOf(Tokenizables[k])
      BY <2>3, <2>5 DEF ListsOf
    <3>2. w.items \in Seq(Tokenizables[m]) /\ Arrived[k][w] = List(ArrivedItems(m, w.items))
      BY <2>1, <2>5, ListSent
    <3>3. Arrived[l][w] = List(ArrivedItems(k, w.items))
      BY <2>1, <3>1, ListSent
    <3>4. ArrivedItems(k, w.items) = ArrivedItems(m, w.items)
      <4>1. \A i \in DOMAIN w.items : w.items[i] \in Tokenizables[m]
        BY <3>2
      <4> QED BY <2>2, <4>1 DEF ArrivedItems
    <3> QED BY <2>1, <3>2, <3>3, <3>4
  <2>6. CASE w \in Nameds(Tokenizables[m])
    <3>1. w \in Nameds(Tokenizables[k])
      BY <2>3, <2>6 DEF Nameds
    <3>2. /\ w.name \in Tokenizables[m] /\ w.value \in Tokenizables[m]
          /\ Arrived[k][w] = Named(Arrived[m][w.name], Arrived[m][w.value])
      <4>1. w \in Nameds(Tokenizables[k - 1])
        BY <2>1, <2>6, Zenon
      <4>2. /\ w.name \in Tokenizables[k - 1] /\ w.value \in Tokenizables[k - 1]
            /\ Arrived[k][w] = Named(Arrived[k - 1][w.name], Arrived[k - 1][w.value])
        BY <2>1, <4>1, NamedSent
      <4> QED BY <2>1, <4>2, Zenon
    <3>3. Arrived[l][w] = Named(Arrived[k][w.name], Arrived[k][w.value])
      BY <2>1, <3>1, NamedSent
    <3> QED BY <2>1, <2>2, <3>2, <3>3
  <2> QED BY <2>1, <2>4, <2>5, <2>6, Made
<1>4. n \in S
  <2> HIDE DEF S
  <2> QED BY <1>2, <1>3, SetInduction
<1> QED BY <1>4

LEMMA ArrivesTheSame ==
  ASSUME NEW n \in 0 .. MaxDepth, NEW v \in Tokenizables[n]
  PROVE  Arrived[MaxDepth][v] = Arrived[n][v]
<1> DEFINE S == {i \in Nat : n + i <= MaxDepth => Arrived[n + i][v] = Arrived[n][v]}
<1>1. 0 \in S
  OBVIOUS
<1>2. ASSUME NEW i \in Nat, i \in S  PROVE i + 1 \in S
  <2> SUFFICES ASSUME n + (i + 1) <= MaxDepth  PROVE Arrived[n + (i + 1)][v] = Arrived[n][v]
    OBVIOUS
  <2>1. PICK k \in 0 .. MaxDepth : k = n + i /\ n <= k /\ k + 1 = n + (i + 1) /\ k + 1 <= MaxDepth
    BY TokensAssumption
  <2>2. v \in Tokenizables[k]
    BY <2>1, NestedSteps
  <2>3. Arrived[k + 1][v] = Arrived[k][v]
    BY <2>1, <2>2, ArrivesNext
  <2>4. Arrived[k][v] = Arrived[n][v]
    BY <1>2, <2>1, TokensAssumption
  <2> QED BY <2>1, <2>3, <2>4
<1>3. PICK d \in Nat : n + d = MaxDepth
  <2>1. MaxDepth - n \in Nat /\ n + (MaxDepth - n) = MaxDepth
    BY TokensAssumption
  <2> QED BY <2>1
<1>4. d \in S
  <2> HIDE DEF S
  <2> QED BY <1>1, <1>2, SetInduction
<1> QED BY <1>3, <1>4, TokensAssumption
-----------------------------------------------------------------------------
(***************************************************************************)
(* Arguments                                                               *)
(***************************************************************************)

LEMMA GreatestElement ==
  ASSUME NEW n \in Nat, NEW X \in SUBSET (0 .. n), X # {}
  PROVE  Max(X) \in X
<1> DEFINE S == {m \in Nat : \A Y \in SUBSET (0 .. m) : Y # {} => \E x \in Y : \A y \in Y : x >= y}
<1>1. 0 \in S
  <2> SUFFICES ASSUME NEW Y \in SUBSET (0 .. 0), Y # {}  PROVE \E x \in Y : \A y \in Y : x >= y
    OBVIOUS
  <2>1. PICK x : x \in Y
    OBVIOUS
  <2>2. \A y \in Y : y = 0
    OBVIOUS
  <2> QED BY <2>1, <2>2
<1>2. ASSUME NEW m \in Nat, m \in S  PROVE m + 1 \in S
  <2> SUFFICES ASSUME NEW Y \in SUBSET (0 .. m + 1), Y # {}
               PROVE  \E x \in Y : \A y \in Y : x >= y
    OBVIOUS
  <2>1. CASE m + 1 \in Y
    BY <2>1
  <2>2. CASE m + 1 \notin Y
    <3>1. \A y \in Y : y \in 0 .. m
      BY <2>2
    <3>2. Y \in SUBSET (0 .. m)
      BY <3>1
    <3> QED BY <1>2, <3>2
  <2> QED BY <2>1, <2>2
<1>3. n \in S
  <2> HIDE DEF S
  <2> QED BY <1>1, <1>2, SetInduction
<1>4. \E x \in X : \A y \in X : x >= y
  BY <1>3
<1> QED BY <1>4 DEF Max

\* An integer of two bytes is not filled up.
LEMMA WidenTwo ==
  ASSUME NEW b \in Nat, NEW c \in Nat
  PROVE  Widen(<<b, c>>) = <<b, c>>
<1> DEFINE Suffices(w) == w >= Len(<<b, c>>) /\ \A u \in {1, 2, 4, 8} : u >= Len(<<b, c>>) => w <= u
           width == CHOOSE w \in {1, 2, 4, 8} : Suffices(w)
<1>1. Len(<<b, c>>) = 2
  OBVIOUS
<1>2. Suffices(2)
  BY <1>1
<1>3. width \in {1, 2, 4, 8} /\ Suffices(width)
  <2>1. \E w \in {1, 2, 4, 8} : Suffices(w)
    BY <1>2
  <2> HIDE DEF Suffices
  <2> QED BY <2>1
<1>4. width = 2
  BY <1>1, <1>3
<1>5. Widen(<<b, c>>) = [i \in 1 .. width - Len(<<b, c>>) |-> 0] \o <<b, c>>
  BY DEF Widen
<1>6. width - Len(<<b, c>>) = 0
  BY <1>1, <1>4
<1>7. [i \in 1 .. 0 |-> 0] = <<>> /\ <<b, c>> \in Seq(Nat)
  OBVIOUS
<1> HIDE DEF width
<1> QED BY <1>5, <1>6, <1>7, ConcatEmptySeq

\* The number that names an argument, and what arrives of it.
LEMMA NumberOfName ==
  ASSUME NEW n \in Nat
  PROVE  /\ UInt16(n).kind = "int" /\ Number(UInt16(n)) = n
         /\ Widen(UInt16(n).data) = UInt16(n).data
         /\ UInt16(n) = Integer(UInt16(n).data, UInt16(n).signed)
<1>1. PICK a \in Nat, b \in Nat : a = n \div 256 /\ b = n % 256 /\ 256 * a + b = n
  <2>1. n \div 256 \in Nat /\ n % 256 \in Nat
    OBVIOUS
  <2>2. 256 * (n \div 256) + (n % 256) = n
    OBVIOUS
  <2> QED BY <2>1, <2>2
<1>2. PICK v : v = UInt16(n)
  OBVIOUS
<1>3. v.kind = "int" /\ v.data = <<a, b>> /\ v = Integer(v.data, v.signed)
  BY <1>1, <1>2 DEF UInt16, Integer
<1>4. Len(v.data) = 2 /\ v.data[1] = a /\ v.data[2] = b
  BY <1>3
<1> DEFINE At(f, k) == IF k = 0 THEN 0 ELSE 256 * f[k - 1] + v.data[k]
           IsNumber(f) == f = [k \in 0 .. Len(v.data) |-> At(f, k)]
           g == [k \in 0 .. 2 |-> IF k = 0 THEN 0 ELSE IF k = 1 THEN a ELSE 256 * a + b]
<1>5. IsNumber(g)
  <2>1. \A k \in 0 .. 2 : g[k] = At(g, k)
    <3>1. g[0] = 0 /\ g[1] = a /\ g[2] = 256 * a + b
      OBVIOUS
    <3>2. At(g, 0) = 0 /\ At(g, 1) = 256 * g[0] + a /\ At(g, 2) = 256 * g[1] + b
      BY <1>4
    <3> HIDE DEF g, At
    <3>3. \A k \in 0 .. 2 : k = 0 \/ k = 1 \/ k = 2
      OBVIOUS
    <3> QED BY <3>1, <3>2, <3>3
  <2>2. g = [k \in 0 .. 2 |-> g[k]]
    OBVIOUS
  <2> HIDE DEF g
  <2> QED BY <1>4, <2>1, <2>2
<1>6. PICK f : f = CHOOSE h : IsNumber(h)
  OBVIOUS
<1>7. Number(v) = f[2]
  BY <1>4, <1>6 DEF Number
<1>8. IsNumber(f)
  <2> HIDE DEF IsNumber
  <2> QED BY <1>5, <1>6
<1>9. f[0] = 0 /\ f[1] = a /\ f[2] = 256 * a + b
  <2>1. \A k \in 0 .. 2 : f[k] = At(f, k)
    BY <1>4, <1>8
  <2>2. f[0] = At(f, 0) /\ f[1] = At(f, 1) /\ f[2] = At(f, 2)
    BY <2>1
  <2>3. At(f, 0) = 0 /\ At(f, 1) = 256 * f[0] + a /\ At(f, 2) = 256 * f[1] + b
    BY <1>4
  <2> HIDE DEF At
  <2> QED BY <2>2, <2>3
<1>10. Widen(v.data) = v.data
  BY <1>3, WidenTwo
<1> QED BY <1>1, <1>2, <1>3, <1>7, <1>9, <1>10
\* The arguments that are given of some optional ones, by name, from the j-th on.
NamedAt(optional, k) == Named(UInt16(k - 1), optional[k])
Parts(optional) ==
  [k \in DOMAIN optional |->
    IF optional[k] = Nothing THEN <<>> ELSE <<NamedAt(optional, k)>>]
NamedGiven(optional) == {NamedAt(optional, k) : k \in DOMAIN optional}
HoldsGiven(s, optional, j) ==
  /\ s \in Seq(NamedGiven(optional))
  /\ \A i \in 1 .. Len(s) : \E k \in 1 .. Len(optional) :
       optional[k] # Nothing /\ s[i] = NamedAt(optional, k)
  /\ \A k \in 1 .. Len(optional) : k >= j /\ optional[k] # Nothing =>
       \E i \in 1 .. Len(s) : s[i] = NamedAt(optional, k)

LEMMA OneMore ==
  ASSUME NEW O, NEW optional \in Seq(O), NEW j \in 1 .. Len(optional), NEW s,
         HoldsGiven(s, optional, j + 1)
  PROVE  HoldsGiven(Parts(optional)[j] \o s, optional, j)
<1>1. PICK n \in Nat : n = Len(optional) /\ DOMAIN optional = 1 .. n
  OBVIOUS
<1>2. s \in Seq(NamedGiven(optional))
  BY DEF HoldsGiven
<1>3. CASE optional[j] = Nothing
  <2>1. Parts(optional)[j] = <<>>
    BY <1>1, <1>3 DEF Parts
  <2>2. Parts(optional)[j] \o s = s
    BY <1>2, <2>1, ConcatEmptySeq
  <2>3. HoldsGiven(s, optional, j)
    <3>1. ASSUME NEW k \in 1 .. Len(optional), k >= j, optional[k] # Nothing
          PROVE  k >= j + 1
      BY <1>1, <1>3, <3>1
    <3> QED BY <3>1 DEF HoldsGiven
  <2> QED BY <2>2, <2>3
<1>4. CASE optional[j] # Nothing
  <2>1. PICK x : x = NamedAt(optional, j)
    OBVIOUS
  <2>2. Parts(optional)[j] = <<x>>
    BY <1>1, <1>4, <2>1 DEF Parts
  <2>3. x \in NamedGiven(optional)
    BY <1>1, <2>1 DEF NamedGiven
  <2>4. PICK p \in Seq(NamedGiven(optional)) : p = <<x>> /\ Len(p) = 1 /\ p[1] = x
    <3>1. <<x>> \in Seq(NamedGiven(optional)) /\ Len(<<x>>) = 1 /\ <<x>>[1] = x
      BY <2>3
    <3> QED BY <3>1
  <2>5. PICK m \in Nat : m = Len(s)
    BY <1>2
  <2>6. PICK t : t = p \o s
    OBVIOUS
  <2>7. /\ t \in Seq(NamedGiven(optional)) /\ Len(t) = 1 + m
        /\ \A i \in 1 .. 1 + m : t[i] = IF i <= 1 THEN p[i] ELSE s[i - 1]
    BY <1>2, <2>4, <2>5, <2>6, ConcatProperties
  <2>8. t[1] = x
    BY <2>4, <2>7
  <2>9. \A i \in 1 .. m : i + 1 \in 1 .. 1 + m /\ t[i + 1] = s[i]
    <3> SUFFICES ASSUME NEW i \in 1 .. m  PROVE i + 1 \in 1 .. 1 + m /\ t[i + 1] = s[i]
      OBVIOUS
    <3>1. PICK k \in 1 .. 1 + m : k = i + 1 /\ ~(k <= 1) /\ k - 1 = i
      OBVIOUS
    <3>2. t[k] = s[k - 1]
      BY <2>7, <3>1, Zenon
    <3> QED BY <3>1, <3>2
  <2>10. ASSUME NEW i \in 1 .. 1 + m
         PROVE  \E k \in 1 .. Len(optional) : optional[k] # Nothing /\ t[i] = NamedAt(optional, k)
    <3>1. CASE i = 1
      BY <1>4, <2>1, <2>8, <3>1
    <3>2. CASE i # 1
      <4>1. PICK l \in 1 .. m : i = l + 1
        <5>1. i - 1 \in 1 .. m /\ i = (i - 1) + 1
          BY <3>2
        <5> QED BY <5>1
      <4>2. t[i] = s[l]
        BY <2>9, <4>1
      <4>3. \E k \in 1 .. Len(optional) : optional[k] # Nothing /\ s[l] = NamedAt(optional, k)
        BY <2>5, <4>1 DEF HoldsGiven
      <4> QED BY <4>2, <4>3
    <3> QED BY <3>1, <3>2
  <2>11. ASSUME NEW k \in 1 .. Len(optional), k >= j, optional[k] # Nothing
         PROVE  \E i \in 1 .. 1 + m : t[i] = NamedAt(optional, k)
    <3>1. CASE k = j
      <4>1. 1 \in 1 .. 1 + m
        OBVIOUS
      <4> QED BY <2>1, <2>8, <3>1, <4>1
    <3>2. CASE k # j
      <4>1. k >= j + 1
        BY <1>1, <2>11, <3>2
      <4>2. PICK i \in 1 .. m : s[i] = NamedAt(optional, k)
        BY <2>5, <2>11, <4>1 DEF HoldsGiven
      <4> QED BY <2>9, <4>2
    <3> QED BY <3>1, <3>2
  <2>12. HoldsGiven(t, optional, j)
    BY <2>7, <2>10, <2>11 DEF HoldsGiven
  <2> QED BY <2>2, <2>4, <2>6, <2>12
<1> QED BY <1>3, <1>4

LEMMA GivenPacked ==
  ASSUME NEW O, NEW optional \in Seq(O)
  PROVE  HoldsGiven(Joined(Parts(optional)), optional, 1)
<1>1. PICK n \in Nat : n = Len(optional) /\ DOMAIN optional = 1 .. n
  OBVIOUS
<1>2. PICK V, ss : V = NamedGiven(optional) /\ ss = Parts(optional)
  OBVIOUS
<1>3. ss \in Seq(Seq(V)) /\ Len(ss) = n
  <2>1. \A k \in 1 .. n : ss[k] \in Seq(V)
    <3> SUFFICES ASSUME NEW k \in 1 .. n  PROVE ss[k] \in Seq(V)
      OBVIOUS
    <3>1. PICK x \in V : x = NamedAt(optional, k)
      BY <1>1, <1>2 DEF NamedGiven
    <3>2. <<>> \in Seq(V) /\ <<x>> \in Seq(V)
      OBVIOUS
    <3>3. ss[k] = IF optional[k] = Nothing THEN <<>> ELSE <<x>>
      BY <1>1, <1>2, <3>1 DEF Parts
    <3> QED BY <3>2, <3>3
  <2>2. PICK U : U = Seq(V)
    OBVIOUS
  <2>3. ss = [k \in 1 .. n |-> IF optional[k] = Nothing THEN <<>> ELSE <<NamedAt(optional, k)>>]
    BY <1>1, <1>2 DEF Parts
  <2>4. ss \in Seq(U) /\ Len(ss) = n
    <3>1. \A k \in 1 .. n : ss[k] \in U
      BY <2>1, <2>2
    <3>2. ss \in [1 .. n -> U]
      BY <2>3, <3>1, Zenon
    <3> QED BY <3>2
  <2> QED BY <2>2, <2>4
<1>4. PICK u : /\ u = From(ss) /\ u[n + 1] = <<>>
               /\ \A j \in 1 .. n : u[j] = ss[j] \o u[j + 1]
  <2>1. /\ From(ss)[Len(ss) + 1] = <<>>
        /\ \A j \in 1 .. Len(ss) : From(ss)[j] = ss[j] \o From(ss)[j + 1]
    BY <1>3, FromFacts
  <2> QED BY <1>3, <2>1, Zenon
<1> DEFINE I == {i \in Nat : i <= n => HoldsGiven(u[(n + 1) - i], optional, (n + 1) - i)}
<1>5. 0 \in I
  <2>1. HoldsGiven(<<>>, optional, n + 1)
    BY <1>1 DEF HoldsGiven
  <2>2. (n + 1) - 0 = n + 1
    OBVIOUS
  <2> QED BY <1>4, <2>1, <2>2
<1>6. ASSUME NEW i \in Nat, i \in I  PROVE i + 1 \in I
  <2> SUFFICES ASSUME i + 1 <= n
               PROVE  HoldsGiven(u[(n + 1) - (i + 1)], optional, (n + 1) - (i + 1))
    OBVIOUS
  <2>1. PICK j \in 1 .. n : j = (n + 1) - (i + 1) /\ j + 1 = (n + 1) - i /\ i <= n
    OBVIOUS
  <2>2. HoldsGiven(u[j + 1], optional, j + 1)
    BY <1>6, <2>1
  <2>3. HoldsGiven(ss[j] \o u[j + 1], optional, j)
    BY <1>1, <1>2, <2>2, OneMore
  <2>4. u[j] = ss[j] \o u[j + 1]
    BY <1>4, Zenon
  <2> QED BY <2>1, <2>3, <2>4
<1>7. n \in I
  <2> HIDE DEF I
  <2> QED BY <1>5, <1>6, SetInduction
<1>8. HoldsGiven(u[1], optional, 1)
  <2>1. n <= n /\ (n + 1) - n = 1
    OBVIOUS
  <2> QED BY <1>7, <2>1
<1> QED BY <1>2, <1>4, <1>8 DEF Joined
LEMMA JoinTakenApart ==
  ASSUME NEW V, NEW q \in Seq(V), NEW p \in Seq(V)
  PROVE  /\ SubSeq(q \o p, 1, Len(q)) = q /\ SubSeq(q \o p, Len(q) + 1, Len(q \o p)) = p
         /\ Len(q \o p) = Len(q) + Len(p)
<1>1. PICK l \in Nat, m \in Nat : l = Len(q) /\ m = Len(p)
  OBVIOUS
<1>2. PICK c : c = q \o p
  OBVIOUS
<1>3. /\ c \in Seq(V) /\ Len(c) = l + m
      /\ \A i \in 1 .. l + m : c[i] = IF i <= l THEN q[i] ELSE p[i - l]
  BY <1>1, <1>2, ConcatProperties
<1>4. SubSeq(c, l + 1, Len(c)) = p
  <2>1. EndsWith(V, c, p)
    BY <1>2 DEF EndsWith
  <2>2. SubSeq(c, Len(c) - Len(p) + 1, Len(c)) = p
    BY <2>1, LastOfEnd DEF LastOf
  <2>3. Len(c) - Len(p) + 1 = l + 1
    BY <1>1, <1>3
  <2> QED BY <2>2, <2>3
<1>5. SubSeq(c, 1, l) = q
  <2>1. PICK u : u = SubSeq(c, 1, l)
    OBVIOUS
  <2>2. \A i \in 1 .. l : c[i] = q[i] /\ c[i] \in V
    <3> SUFFICES ASSUME NEW i \in 1 .. l  PROVE c[i] = q[i] /\ c[i] \in V
      OBVIOUS
    <3>1. i \in 1 .. l + m /\ i <= l
      OBVIOUS
    <3>2. c[i] = q[i]
      BY <1>3, <3>1, Zenon
    <3> QED BY <1>1, <3>2
  <2>3. /\ u \in Seq(V) /\ Len(u) = (IF 1 <= l THEN l - 1 + 1 ELSE 0)
        /\ \A i \in 1 .. l - 1 + 1 : u[i] = c[1 + i - 1]
    BY <2>1, <2>2, SubSeqProperties
  <2>4. Len(u) = l /\ \A i \in 1 .. l : u[i] = c[i]
    BY <2>3
  <2>5. \A i \in 1 .. l : u[i] = q[i]
    BY <2>2, <2>4
  <2>6. u = q
    BY <1>1, <2>3, <2>4, <2>5, SeqEqual
  <2> QED BY <2>1, <2>6
<1> QED BY <1>1, <1>2, <1>3, <1>4, <1>5

\* The arguments p that are named, as given[k] for what o[k] was.
IsGiven(p, n, o, given) ==
  /\ \A i \in 1 .. Len(p) : \E k \in 1 .. n :
       o[k] # Nothing /\ p[i] = Named(UInt16(k - 1), given[k])
  /\ \A k \in 1 .. n : o[k] # Nothing =>
       \E i \in 1 .. Len(p) : p[i] = Named(UInt16(k - 1), given[k])

LEMMA Unpacked ==
  ASSUME NEW V, NEW q \in Seq(V), NEW p \in Seq(V), NEW n \in Nat, NEW all \in Nat, NEW o,
         NEW given, IsGiven(p, all, o, given)
  PROVE  Unpack(q \o p, Len(q), n)
           = [ok |-> TRUE, required |-> q,
              optional |-> [k \in 1 .. n |->
                IF k \in 1 .. all /\ o[k] # Nothing THEN given[k] ELSE Nothing]]
<1>1. PICK m \in Nat, l \in Nat : m = Len(p) /\ DOMAIN p = 1 .. m /\ l = Len(q)
  OBVIOUS
<1> DEFINE Given(k) == {i \in DOMAIN p : Number(p[i].name) = k - 1}
<1>2. ASSUME NEW i \in 1 .. m, NEW k \in 1 .. all, p[i] = Named(UInt16(k - 1), given[k])
      PROVE  /\ Number(p[i].name) = k - 1 /\ p[i].value = given[k]
             /\ p[i].kind = "named" /\ p[i].name.kind = "int"
  <2>1. p[i].name = UInt16(k - 1) /\ p[i].value = given[k] /\ p[i].kind = "named"
    BY <1>2 DEF Named
  <2>2. k - 1 \in Nat
    OBVIOUS
  <2> QED BY <2>1, <2>2, NumberOfName
<1>3. ASSUME NEW i \in 1 .. m
      PROVE  \E k \in 1 .. all : o[k] # Nothing /\ p[i] = Named(UInt16(k - 1), given[k])
  BY <1>1 DEF IsGiven
<1>4. ~\E i \in DOMAIN p : ~Is(p[i], "named") \/ ~Is(p[i].name, "int")
  BY <1>1, <1>2, <1>3 DEF Is
<1>5. ASSUME NEW k \in 1 .. n
      PROVE  (IF Given(k) = {} THEN Nothing ELSE p[Max(Given(k))].value)
               = IF k \in 1 .. all /\ o[k] # Nothing THEN given[k] ELSE Nothing
  <2>1. ASSUME NEW i \in Given(k)  PROVE p[i].value = given[k] /\ k \in 1 .. all /\ o[k] # Nothing
    <3>1. i \in 1 .. m /\ Number(p[i].name) = k - 1
      BY <1>1
    <3>2. PICK x \in 1 .. all : o[x] # Nothing /\ p[i] = Named(UInt16(x - 1), given[x])
      BY <1>3, <3>1
    <3>3. Number(p[i].name) = x - 1 /\ p[i].value = given[x]
      BY <1>2, <3>1, <3>2
    <3>4. x = k
      BY <3>1, <3>3
    <3> QED BY <3>2, <3>3, <3>4
  <2>2. CASE ~(k \in 1 .. all /\ o[k] # Nothing)
    <3>1. Given(k) = {}
      BY <2>1, <2>2
    <3> QED BY <2>2, <3>1
  <2>3. CASE k \in 1 .. all /\ o[k] # Nothing
    <3>1. PICK i \in 1 .. m : p[i] = Named(UInt16(k - 1), given[k])
      BY <1>1, <2>3 DEF IsGiven
    <3>2. i \in Given(k)
      BY <1>1, <1>2, <2>3, <3>1
    <3>3. Given(k) \in SUBSET (0 .. m) /\ Given(k) # {}
      BY <1>1, <3>2
    <3> HIDE DEF Given
    <3>4. Max(Given(k)) \in Given(k)
      BY <3>3, GreatestElement
    <3>5. p[Max(Given(k))].value = given[k]
      BY <2>1, <3>4
    <3> QED BY <2>3, <3>3, <3>5
  <2> QED BY <2>2, <2>3
<1>6. PICK values : values = q \o p
  OBVIOUS
<1>7. SubSeq(values, 1, l) = q /\ SubSeq(values, l + 1, Len(values)) = p /\ ~(Len(values) < l)
  <2>1. /\ SubSeq(values, 1, l) = q /\ SubSeq(values, l + 1, Len(values)) = p
        /\ Len(values) = l + m
    <3>1. /\ SubSeq(q \o p, 1, Len(q)) = q /\ SubSeq(q \o p, Len(q) + 1, Len(q \o p)) = p
          /\ Len(q \o p) = Len(q) + Len(p)
      BY JoinTakenApart
    <3> QED BY <1>1, <1>6, <3>1, Zenon
  <2> QED BY <2>1
<1>8. Unpack(values, l, n) =
        [ok |-> TRUE, required |-> q,
         optional |-> [k \in 1 .. n |->
           IF Given(k) = {} THEN Nothing ELSE p[Max(Given(k))].value]]
  BY <1>4, <1>7, Zenon DEF Unpack
<1>9. [k \in 1 .. n |-> IF Given(k) = {} THEN Nothing ELSE p[Max(Given(k))].value]
        = [k \in 1 .. n |-> IF k \in 1 .. all /\ o[k] # Nothing THEN given[k] ELSE Nothing]
  <2> HIDE DEF Given
  <2> QED BY <1>5
<1> QED BY <1>1, <1>6, <1>8, <1>9, Zenon
-----------------------------------------------------------------------------
(***************************************************************************)
(* Calls                                                                   *)
(***************************************************************************)

LEMMA NothingIsSent ==
  ASSUME NEW n \in 0 .. MaxDepth, NEW v \in Tokenizables[n]
  PROVE  v # Nothing
<1>1. v.kind \in {"bool", "int", "bytes", "command", "list", "named"}
  BY Made, ScalarKinds DEF ListsOf, Nameds
<1> QED BY <1>1 DEF Nothing

LEMMA ScalarKept ==
  ASSUME NEW n \in 0 .. MaxDepth, NEW v \in Tokenizables[n]
  PROVE  /\ v.kind \in {"bytes", "command"} => Arrived[n][v] = v
         /\ v.kind = "int" => Arrived[n][v] = Integer(Widen(v.data), v.signed)
<1>1. Arrived[n] = ArrivedAt(n, Arrived)
  BY ArrivedIs
<1>2. Arrived[n][v] = ArrivedValue(v, Arrived[n - 1])
  BY <1>1 DEF ArrivedAt
<1> QED BY <1>2 DEF ArrivedValue

LEMMA ListKept ==
  ASSUME NEW n \in 0 .. MaxDepth, NEW items, List(items) \in Tokenizables[n]
  PROVE  /\ n # 0 /\ n - 1 \in 0 .. MaxDepth /\ items \in Seq(Tokenizables[n - 1])
         /\ Arrived[n][List(items)] = List(ArrivedItems(n - 1, items))
<1>1. List(items).kind = "list" /\ List(items).items = items
  BY DEF List
<1>2. List(items) \notin Scalars /\ List(items) \notin Nameds(Tokenizables[n - 1])
  BY <1>1, ScalarKinds DEF Nameds
<1>3. n # 0 /\ List(items) \in ListsOf(Tokenizables[n - 1])
  BY <1>2, Made
<1>4. n - 1 \in 0 .. MaxDepth
  BY <1>3, TokensAssumption
<1> QED BY <1>1, <1>3, <1>4, ListSent

LEMMA NamedKept ==
  ASSUME NEW n \in 0 .. MaxDepth, NEW k, NEW v, Named(k, v) \in Tokenizables[n]
  PROVE  /\ n # 0 /\ n - 1 \in 0 .. MaxDepth
         /\ k \in Tokenizables[n - 1] /\ v \in Tokenizables[n - 1]
         /\ Arrived[n][Named(k, v)] = Named(Arrived[n - 1][k], Arrived[n - 1][v])
<1>1. Named(k, v).kind = "named" /\ Named(k, v).name = k /\ Named(k, v).value = v
  BY DEF Named
<1>2. Named(k, v) \notin Scalars /\ Named(k, v) \notin ListsOf(Tokenizables[n - 1])
  BY <1>1, ScalarKinds DEF ListsOf
<1>3. n # 0 /\ Named(k, v) \in Nameds(Tokenizables[n - 1])
  BY <1>2, Made
<1>4. n - 1 \in 0 .. MaxDepth
  BY <1>3, TokensAssumption
<1> QED BY <1>1, <1>3, <1>4, NamedSent

\* a is what arrives of the items.
AreKept(n, S, items, a) ==
  /\ Len(a) = Len(items)
  /\ \A i \in 1 .. Len(items) : a[i] = Arrived[n][items[i]]
  /\ a \in Seq({Arrived[n][w] : w \in S})

LEMMA ItemsKept ==
  ASSUME NEW n, NEW S, NEW items \in Seq(S)
  PROVE  AreKept(n, S, items, ArrivedItems(n, items))
<1>1. PICK k \in Nat : k = Len(items) /\ DOMAIN items = 1 .. k
  OBVIOUS
<1>2. PICK V : V = {Arrived[n][w] : w \in S}
  OBVIOUS
<1>3. PICK a : a = ArrivedItems(n, items) /\ a = [i \in 1 .. k |-> Arrived[n][items[i]]]
  BY <1>1 DEF ArrivedItems
<1>4. \A i \in 1 .. k : a[i] = Arrived[n][items[i]] /\ a[i] \in V
  BY <1>1, <1>2, <1>3
<1>5. a \in [1 .. k -> V]
  BY <1>3, <1>4, Zenon
<1>6. a \in Seq(V) /\ Len(a) = k
  BY <1>5
<1> QED BY <1>1, <1>2, <1>3, <1>4, <1>6 DEF AreKept

\* A status, and what arrives of it.
LEMMA NumberOfByte ==
  ASSUME NEW n \in Nat
  PROVE  /\ UInt8(n).kind = "int" /\ Number(UInt8(n)) = n
         /\ Integer(Widen(UInt8(n).data), UInt8(n).signed) = UInt8(n)
<1>1. PICK v : v = UInt8(n)
  OBVIOUS
<1>2. v.kind = "int" /\ v.data = <<n>> /\ v = Integer(v.data, v.signed)
  BY <1>1 DEF UInt8, Integer
<1>3. Len(v.data) = 1 /\ v.data[1] = n
  BY <1>2
<1> DEFINE At(f, k) == IF k = 0 THEN 0 ELSE 256 * f[k - 1] + v.data[k]
           IsNumber(f) == f = [k \in 0 .. Len(v.data) |-> At(f, k)]
           g == [k \in 0 .. 1 |-> IF k = 0 THEN 0 ELSE n]
<1>4. IsNumber(g)
  <2>1. \A k \in 0 .. 1 : g[k] = At(g, k)
    <3>1. g[0] = 0 /\ g[1] = n
      OBVIOUS
    <3>2. At(g, 0) = 0 /\ At(g, 1) = 256 * g[0] + n
      BY <1>3
    <3> HIDE DEF g, At
    <3>3. \A k \in 0 .. 1 : k = 0 \/ k = 1
      OBVIOUS
    <3> QED BY <3>1, <3>2, <3>3
  <2>2. g = [k \in 0 .. 1 |-> g[k]]
    OBVIOUS
  <2> HIDE DEF g
  <2> QED BY <1>3, <2>1, <2>2
<1>5. PICK f : f = CHOOSE h : IsNumber(h)
  OBVIOUS
<1>6. Number(v) = f[1]
  BY <1>3, <1>5 DEF Number
<1>7. IsNumber(f)
  <2> HIDE DEF IsNumber
  <2> QED BY <1>4, <1>5
<1>8. f[1] = n
  <2>1. \A k \in 0 .. 1 : f[k] = At(f, k)
    BY <1>3, <1>7
  <2>2. f[0] = At(f, 0) /\ f[1] = At(f, 1)
    BY <2>1
  <2>3. At(f, 0) = 0 /\ At(f, 1) = 256 * f[0] + n
    BY <1>3
  <2> HIDE DEF At
  <2> QED BY <2>2, <2>3
<1>9. Widen(v.data) = v.data
  BY <1>2, WidenOne
<1> QED BY <1>1, <1>2, <1>6, <1>8, <1>9

LEMMA StatusKept ==
  ASSUME NEW n \in 0 .. MaxDepth, NEW status \in 0 .. 255, StatusList(status) \in Tokenizables[n]
  PROVE  /\ IsStatusList(Arrived[n][StatusList(status)])
         /\ StatusOf(Arrived[n][StatusList(status)]) = status
<1>1. PICK items : items = <<UInt8(status), UInt8(0), UInt8(0)>>
  OBVIOUS
<1>2. StatusList(status) = List(items) /\ List(items) \in Tokenizables[n]
  BY <1>1 DEF StatusList
<1>3. n - 1 \in 0 .. MaxDepth /\ items \in Seq(Tokenizables[n - 1])
      /\ Arrived[n][List(items)] = List(ArrivedItems(n - 1, items))
  BY <1>2, ListKept
<1>4. PICK a : a = ArrivedItems(n - 1, items)
  OBVIOUS
<1>5. Len(items) = 3 /\ items[1] = UInt8(status)
  BY <1>1
<1>6. Len(a) = 3 /\ a[1] = Arrived[n - 1][UInt8(status)]
  <2>1. PICK m, S : m = n - 1 /\ S = Tokenizables[n - 1]
    OBVIOUS
  <2>2. items \in Seq(S) /\ a = ArrivedItems(m, items)
    BY <1>3, <1>4, <2>1
  <2>3. Len(a) = Len(items) /\ \A i \in 1 .. Len(items) : a[i] = Arrived[m][items[i]]
    <3>1. AreKept(m, S, items, a)
      BY <2>2, ItemsKept, Zenon
    <3> QED BY <3>1 DEF AreKept
  <2>4. 1 \in 1 .. Len(items)
    BY <1>5
  <2> QED BY <1>5, <2>1, <2>3, <2>4, Zenon
<1>7. UInt8(status) \in Tokenizables[n - 1]
  <2>1. PICK S : S = Tokenizables[n - 1]
    OBVIOUS
  <2>2. 1 \in 1 .. Len(items) /\ items \in Seq(S)
    BY <1>3, <1>5, <2>1
  <2>3. items[1] \in S
    BY <2>2
  <2> QED BY <1>5, <2>1, <2>3
<1>8. a[1] = UInt8(status)
  <2>1. /\ UInt8(status).kind = "int"
        /\ Integer(Widen(UInt8(status).data), UInt8(status).signed) = UInt8(status)
    BY NumberOfByte
  <2> QED BY <1>3, <1>6, <1>7, <2>1, ScalarKept
<1>9. PICK v : v = Arrived[n][StatusList(status)]
  OBVIOUS
<1>10. v.kind = "list" /\ v.items = a
  BY <1>2, <1>3, <1>4, <1>9 DEF List
<1>11. UInt8(status).kind = "int" /\ Number(UInt8(status)) = status
  BY NumberOfByte
<1>12. IsStatusList(v)
  BY <1>6, <1>8, <1>10, <1>11 DEF IsStatusList, Is
<1>13. StatusOf(v) = status
  <2>1. status % 256 = status
    OBVIOUS
  <2> QED BY <1>8, <1>10, <1>11, <2>1 DEF StatusOf
<1> QED BY <1>9, <1>12, <1>13
\* What is read of a call, or of the values and the status of a result.
CallIs(read, invokingId, methodId, values, status) ==
  read = [ok |-> TRUE, invokingId |-> invokingId, methodId |-> methodId,
          values |-> values, status |-> status]

LEMMA CallRead ==
  ASSUME NEW n \in 0 .. MaxDepth, NEW invokingId, NEW methodId, NEW args, NEW status \in 0 .. 255,
         Len(invokingId) >= 8, Len(methodId) >= 8,
         MethodCallToValue(invokingId, methodId, args, status) \in Tokenizables[n]
  PROVE  \E m \in 0 .. MaxDepth :
           /\ args \in Seq(Tokenizables[m])
           /\ CallIs(MethodCallFromValue(
                       Arrived[n][MethodCallToValue(invokingId, methodId, args, status)]),
                     invokingId, methodId, ArrivedItems(m, args), status)
<1>1. PICK items : items = <<Command(Call), Bytes(invokingId), Bytes(methodId), List(args),
                             Command(EndOfData), StatusList(status)>>
  OBVIOUS
<1>2. /\ items[1] = Command(Call) /\ items[2] = Bytes(invokingId) /\ items[3] = Bytes(methodId)
      /\ items[4] = List(args) /\ items[5] = Command(EndOfData) /\ items[6] = StatusList(status)
      /\ Len(items) = 6
  BY <1>1
<1>3. MethodCallToValue(invokingId, methodId, args, status) = List(items)
  BY <1>1 DEF MethodCallToValue
<1>4. PICK k \in 0 .. MaxDepth :
        items \in Seq(Tokenizables[k]) /\ Arrived[n][List(items)] = List(ArrivedItems(k, items))
  BY <1>3, ListKept
<1>5. PICK S, a : S = Tokenizables[k] /\ a = ArrivedItems(k, items)
  OBVIOUS
<1>6. AreKept(k, S, items, a)
  BY <1>4, <1>5, ItemsKept
<1>7. Len(a) = 6 /\ \A i \in 1 .. 6 : a[i] = Arrived[k][items[i]]
  BY <1>2, <1>6 DEF AreKept
<1>8. \A i \in 1 .. 6 : items[i] \in S
  <2>1. items \in Seq(S) /\ Len(items) = 6
    BY <1>2, <1>4, <1>5
  <2>2. \A i \in 1 .. Len(items) : items[i] \in S
    BY <2>1, ElementOfSeq
  <2> QED BY <2>1, <2>2, Zenon
<1>9. /\ 1 \in 1 .. 6 /\ 2 \in 1 .. 6 /\ 3 \in 1 .. 6 /\ 4 \in 1 .. 6 /\ 5 \in 1 .. 6
      /\ 6 \in 1 .. 6
  OBVIOUS
<1>10. a[1] = Command(Call) /\ a[5] = Command(EndOfData)
  <2>1. items[1] \in Tokenizables[k] /\ items[5] \in Tokenizables[k]
    BY <1>5, <1>8, <1>9
  <2>2. items[1].kind = "command" /\ items[5].kind = "command"
    BY <1>2 DEF Command
  <2>3. Arrived[k][items[1]] = items[1] /\ Arrived[k][items[5]] = items[5]
    BY <2>1, <2>2, ScalarKept
  <2> QED BY <1>2, <1>7, <1>9, <2>3
<1>11. a[2] = Bytes(invokingId) /\ a[3] = Bytes(methodId)
  <2>1. items[2] \in Tokenizables[k] /\ items[3] \in Tokenizables[k]
    BY <1>5, <1>8, <1>9
  <2>2. items[2].kind = "bytes" /\ items[3].kind = "bytes"
    BY <1>2 DEF Bytes
  <2>3. Arrived[k][items[2]] = items[2] /\ Arrived[k][items[3]] = items[3]
    BY <2>1, <2>2, ScalarKept
  <2> QED BY <1>2, <1>7, <1>9, <2>3
<1>12. PICK m \in 0 .. MaxDepth :
         args \in Seq(Tokenizables[m]) /\ a[4] = List(ArrivedItems(m, args))
  <2>1. List(args) \in Tokenizables[k] /\ a[4] = Arrived[k][List(args)]
    BY <1>2, <1>5, <1>7, <1>8, <1>9
  <2> QED BY <2>1, ListKept
<1>13. IsStatusList(a[6]) /\ StatusOf(a[6]) = status
  <2>1. StatusList(status) \in Tokenizables[k] /\ a[6] = Arrived[k][StatusList(status)]
    BY <1>2, <1>5, <1>7, <1>8, <1>9
  <2> QED BY <2>1, StatusKept
<1>14. PICK v : v = Arrived[n][List(items)]
  OBVIOUS
<1>15. v.kind = "list" /\ v.items = a
  BY <1>4, <1>5, <1>14 DEF List
<1>16. PICK values : values = ArrivedItems(m, args)
  OBVIOUS
<1>17. /\ a[2].kind = "bytes" /\ a[2].data = invokingId /\ a[3].kind = "bytes"
       /\ a[3].data = methodId /\ a[4].kind = "list" /\ a[4].items = values
  BY <1>11, <1>12, <1>16 DEF Bytes, List
<1>18. /\ Is(v, "list") /\ Len(v.items) >= 6
       /\ v.items[1] = Command(Call) /\ v.items[5] = Command(EndOfData)
       /\ \A i \in {2, 3} : Is(v.items[i], "bytes") /\ Len(v.items[i].data) >= 8
       /\ Is(v.items[4], "list") /\ IsStatusList(v.items[6])
  <2>1. Len(v.items) >= 6
    <3>1. Len(v.items) = 6
      BY <1>7, <1>15, Zenon
    <3>2. \A l : l = 6 => l >= 6
      OBVIOUS
    <3> QED BY <3>1, <3>2, Zenon
  <2>2. \A i \in {2, 3} : Is(v.items[i], "bytes") /\ Len(v.items[i].data) >= 8
    BY <1>15, <1>17, Zenon DEF Is
  <2> QED BY <1>10, <1>13, <1>15, <1>17, <2>1, <2>2, Zenon DEF Is
<1>19. MethodCallFromValue(v) =
         [ok |-> TRUE, invokingId |-> v.items[2].data, methodId |-> v.items[3].data,
          values |-> v.items[4].items, status |-> StatusOf(v.items[6])]
  BY <1>18, Zenon DEF MethodCallFromValue
<1>20. CallIs(MethodCallFromValue(v), invokingId, methodId, values, status)
  BY <1>13, <1>15, <1>17, <1>19, Zenon DEF CallIs
<1> QED BY <1>3, <1>12, <1>14, <1>16, <1>20
\* What a list of arguments is when it arrives, and the drive counts n optional ones.
AllArrive(values, required, optional, n) ==
  Unpack(values, Len(required), n)
    = [ok |-> TRUE, required |-> AllSent(required),
       optional |-> [k \in 1 .. n |->
         IF k \in 1 .. Len(optional) /\ optional[k] # Nothing THEN Sent(optional[k]) ELSE Nothing]]

LEMMA NameKept ==
  ASSUME NEW m \in 0 .. MaxDepth, NEW k \in Nat, NEW v,
         Named(UInt16(k), v) \in Tokenizables[m], v # Nothing
  PROVE  Arrived[m][Named(UInt16(k), v)] = Named(UInt16(k), Sent(v))
<1>1. PICK l \in 0 .. MaxDepth :
        /\ UInt16(k) \in Tokenizables[l] /\ v \in Tokenizables[l]
        /\ Arrived[m][Named(UInt16(k), v)] = Named(Arrived[l][UInt16(k)], Arrived[l][v])
  <2>1. PICK u : u = UInt16(k)
    OBVIOUS
  <2>2. /\ m - 1 \in 0 .. MaxDepth /\ u \in Tokenizables[m - 1] /\ v \in Tokenizables[m - 1]
        /\ Arrived[m][Named(u, v)] = Named(Arrived[m - 1][u], Arrived[m - 1][v])
    BY <2>1, NamedKept
  <2> QED BY <2>1, <2>2
<1>2. /\ UInt16(k).kind = "int" /\ Widen(UInt16(k).data) = UInt16(k).data
      /\ UInt16(k) = Integer(UInt16(k).data, UInt16(k).signed)
  BY NumberOfName
<1>3. Arrived[l][UInt16(k)] = UInt16(k)
  BY <1>1, <1>2, ScalarKept
<1>4. Arrived[l][v] = Sent(v)
  BY <1>1, ArrivesTheSame DEF Sent
<1> QED BY <1>1, <1>3, <1>4

LEMMA ArgumentsArrive ==
  ASSUME NEW m \in 0 .. MaxDepth, NEW R, NEW required \in Seq(R), NEW O, NEW optional \in Seq(O),
         Pack(required, optional) \in Seq(Tokenizables[m]), NEW n \in Nat
  PROVE  AllArrive(ArrivedItems(m, Pack(required, optional)), required, optional, n)
<1>1. PICK l \in Nat, all \in Nat : l = Len(required) /\ all = Len(optional)
                                    /\ DOMAIN required = 1 .. l
  OBVIOUS
<1>2. PICK p, given : p = Joined(Parts(optional))
                      /\ given = [k \in 1 .. all |-> Sent(optional[k])]
  OBVIOUS
<1>3. Pack(required, optional) = required \o p
  BY <1>2 DEF Pack, Parts, NamedAt
<1>4. HoldsGiven(p, optional, 1)
  BY <1>2, GivenPacked
<1>5. PICK args : args = required \o p
  OBVIOUS
<1>6. PICK j \in Nat : j = Len(p)
  BY <1>4 DEF HoldsGiven
<1>7. /\ Len(args) = l + j /\ \A i \in 1 .. l : args[i] = required[i]
      /\ \A i \in 1 .. j : args[l + i] = p[i]
  <2>1. PICK S : required \in Seq(S) /\ p \in Seq(S)
    <3>1. required \in Seq(R \union NamedGiven(optional)) /\ p \in Seq(R \union NamedGiven(optional))
      BY <1>4 DEF HoldsGiven
    <3> QED BY <3>1
  <2>2. /\ Len(args) = l + j
        /\ \A i \in 1 .. l + j : args[i] = IF i <= l THEN required[i] ELSE p[i - l]
    BY <1>1, <1>5, <1>6, <2>1, ConcatProperties
  <2>3. ASSUME NEW i \in 1 .. l  PROVE args[i] = required[i]
    <3>1. i \in 1 .. l + j /\ i <= l
      OBVIOUS
    <3> QED BY <2>2, <3>1, Zenon
  <2>4. ASSUME NEW i \in 1 .. j  PROVE args[l + i] = p[i]
    <3>1. PICK x \in 1 .. l + j : x = l + i /\ ~(x <= l) /\ x - l = i
      OBVIOUS
    <3>2. args[x] = p[x - l]
      BY <2>2, <3>1, Zenon
    <3> QED BY <3>1, <3>2
  <2> QED BY <2>2, <2>3, <2>4
<1>8. PICK a, V, T : /\ a = ArrivedItems(m, args) /\ T = Tokenizables[m]
                     /\ V = {Arrived[m][w] : w \in T}
  OBVIOUS
<1>9. args \in Seq(T) /\ AreKept(m, T, args, a)
  <2>1. args \in Seq(T)
    BY <1>3, <1>5, <1>8
  <2> QED BY <1>8, <2>1, ItemsKept, Zenon
<1>10. a \in Seq(V) /\ Len(a) = l + j /\ \A i \in 1 .. l + j : a[i] = Arrived[m][args[i]]
  BY <1>7, <1>8, <1>9 DEF AreKept
<1>11. \A i \in 1 .. l + j : args[i] \in T
  <2>1. \A i \in 1 .. Len(args) : args[i] \in T
    BY <1>9, ElementOfSeq
  <2> QED BY <1>7, <2>1, Zenon
<1>12. ASSUME NEW i \in 1 .. l  PROVE a[i] = Sent(required[i])
  <2>1. i \in 1 .. l + j
    OBVIOUS
  <2>2. PICK w \in Tokenizables[m] : w = required[i] /\ a[i] = Arrived[m][w]
    BY <1>7, <1>8, <1>10, <1>11, <2>1
  <2> QED BY <2>2, NothingIsSent, ArrivesTheSame DEF Sent
<1>13. ASSUME NEW i \in 1 .. j, NEW k \in 1 .. all, optional[k] # Nothing,
              p[i] = NamedAt(optional, k)
       PROVE  a[l + i] = Named(UInt16(k - 1), given[k])
  <2>1. l + i \in 1 .. l + j
    OBVIOUS
  <2>2. p[i] \in Tokenizables[m] /\ a[l + i] = Arrived[m][p[i]]
    BY <1>7, <1>8, <1>10, <1>11, <2>1
  <2>3. PICK d, v : d \in Nat /\ d = k - 1 /\ v = optional[k] /\ p[i] = Named(UInt16(d), v)
    BY <1>13 DEF NamedAt
  <2>4. Arrived[m][Named(UInt16(d), v)] = Named(UInt16(d), Sent(v))
    BY <1>13, <2>2, <2>3, NameKept
  <2>5. given[k] = Sent(v)
    BY <1>2, <2>3
  <2> QED BY <2>2, <2>3, <2>4, <2>5
<1>14. PICK q, r : q = SubSeq(a, 1, l) /\ r = SubSeq(a, l + 1, l + j)
  OBVIOUS
<1>15. /\ q \in Seq(V) /\ Len(q) = l /\ \A i \in 1 .. l : q[i] = Sent(required[i])
  <2>1. \A i \in 1 .. l : a[i] \in V
    <3>1. \A i \in 1 .. l + j : a[i] \in V
      BY <1>10, ElementOfSeq
    <3> QED BY <3>1
  <2>2. /\ q \in Seq(V) /\ Len(q) = (IF 1 <= l THEN l - 1 + 1 ELSE 0)
        /\ \A i \in 1 .. l - 1 + 1 : q[i] = a[1 + i - 1]
    BY <1>14, <2>1, SubSeqProperties
  <2>3. Len(q) = l /\ \A i \in 1 .. l : q[i] = a[i]
    BY <2>2
  <2> QED BY <1>12, <2>2, <2>3
<1>16. /\ r \in Seq(V) /\ Len(r) = j /\ \A i \in 1 .. j : r[i] = a[l + i]
  <2>1. \A i \in l + 1 .. l + j : a[i] \in V
    <3>1. \A i \in 1 .. l + j : a[i] \in V
      BY <1>10, ElementOfSeq
    <3> QED BY <3>1
  <2>2. /\ r \in Seq(V) /\ Len(r) = (IF l + 1 <= l + j THEN (l + j) - (l + 1) + 1 ELSE 0)
        /\ \A i \in 1 .. (l + j) - (l + 1) + 1 : r[i] = a[(l + 1) + i - 1]
    BY <1>14, <2>1, SubSeqProperties
  <2>3. Len(r) = j
    BY <2>2
  <2>4. ASSUME NEW i \in 1 .. j  PROVE r[i] = a[l + i]
    <3>1. i \in 1 .. (l + j) - (l + 1) + 1 /\ (l + 1) + i - 1 = l + i
      OBVIOUS
    <3> QED BY <2>2, <3>1
  <2> QED BY <2>2, <2>3, <2>4
<1>17. a = q \o r
  <2>1. PICK c : c = q \o r
    OBVIOUS
  <2>2. /\ c \in Seq(V) /\ Len(c) = l + j
        /\ \A i \in 1 .. l + j : c[i] = IF i <= l THEN q[i] ELSE r[i - l]
    <3>1. /\ q \o r \in Seq(V) /\ Len(q \o r) = Len(q) + Len(r)
          /\ \A i \in 1 .. Len(q) + Len(r) :
               (q \o r)[i] = IF i <= Len(q) THEN q[i] ELSE r[i - Len(q)]
      BY <1>15, <1>16, ConcatProperties
    <3> QED BY <1>15, <1>16, <2>1, <3>1, Zenon
  <2>3. ASSUME NEW i \in 1 .. l + j  PROVE c[i] = a[i]
    <3>1. CASE i <= l
      <4>1. i \in 1 .. l
        BY <3>1
      <4>2. c[i] = q[i]
        BY <2>2, <3>1, Zenon
      <4>3. q[i] = a[i]
        BY <1>12, <1>15, <4>1
      <4> QED BY <4>2, <4>3
    <3>2. CASE ~(i <= l)
      <4>1. PICK x \in 1 .. j : x = i - l /\ l + x = i
        BY <3>2
      <4>2. c[i] = r[x]
        BY <2>2, <3>2, <4>1, Zenon
      <4> QED BY <1>16, <4>1, <4>2
    <3> QED BY <3>1, <3>2
  <2>4. c = a
    <3>1. Len(c) = Len(a) /\ \A i \in 1 .. Len(c) : c[i] = a[i]
      BY <1>10, <2>2, <2>3, Zenon
    <3> QED BY <1>10, <2>2, <3>1, SeqEqual
  <2> QED BY <2>1, <2>4
<1>18. IsGiven(r, all, optional, given)
  <2>1. ASSUME NEW i \in 1 .. j
        PROVE  \E k \in 1 .. all : optional[k] # Nothing /\ r[i] = Named(UInt16(k - 1), given[k])
    <3>1. PICK k \in 1 .. all : optional[k] # Nothing /\ p[i] = NamedAt(optional, k)
      BY <1>1, <1>4, <1>6 DEF HoldsGiven
    <3> QED BY <1>13, <1>16, <3>1
  <2>2. ASSUME NEW k \in 1 .. all, optional[k] # Nothing
        PROVE  \E i \in 1 .. j : r[i] = Named(UInt16(k - 1), given[k])
    <3>1. PICK i \in 1 .. j : p[i] = NamedAt(optional, k)
      BY <1>1, <1>4, <1>6, <2>2 DEF HoldsGiven
    <3> QED BY <1>13, <1>16, <2>2, <3>1
  <2> QED BY <1>16, <2>1, <2>2 DEF IsGiven
<1>19. Unpack(q \o r, Len(q), n)
         = [ok |-> TRUE, required |-> q,
            optional |-> [k \in 1 .. n |->
              IF k \in 1 .. all /\ optional[k] # Nothing THEN given[k] ELSE Nothing]]
  BY <1>15, <1>16, <1>18, Unpacked
<1>20. q = AllSent(required)
  <2>1. AllSent(required) = [i \in 1 .. l |-> Sent(required[i])]
    BY <1>1 DEF AllSent
  <2>2. q = [i \in 1 .. l |-> q[i]]
    BY <1>15
  <2> QED BY <1>15, <2>1, <2>2
<1>21. [k \in 1 .. n |-> IF k \in 1 .. all /\ optional[k] # Nothing THEN given[k] ELSE Nothing]
         = [k \in 1 .. n |->
             IF k \in 1 .. all /\ optional[k] # Nothing THEN Sent(optional[k]) ELSE Nothing]
  BY <1>2
<1>22. ArrivedItems(m, Pack(required, optional)) = q \o r /\ Len(q) = Len(required)
       /\ all = Len(optional)
  BY <1>1, <1>3, <1>5, <1>8, <1>15, <1>17
<1> QED BY <1>19, <1>20, <1>21, <1>22, Zenon DEF AllArrive
LEMMA CallHeard ==
  ASSUME NEW c \in Calls, NEW request,
         request = MethodCallToValue(c.invokingId, c.methodId, Pack(c.required, c.optional), Success),
         Tokenizable(request)
  PROVE  LET value == FromBytes(ToBytes(request))
             method == MethodCallFromValue(value.value)
             args == Unpack(method.values, Len(c.required), Len(c.optional))
         IN  /\ value.ok /\ method.ok /\ args.ok
             /\ method.invokingId = c.invokingId /\ method.methodId = c.methodId
             /\ args.required = AllSent(c.required) /\ args.optional = AllSent(c.optional)
<1>1. PICK value, method, args : /\ value = FromBytes(ToBytes(request))
                                 /\ method = MethodCallFromValue(value.value)
                                 /\ args = Unpack(method.values, Len(c.required), Len(c.optional))
  OBVIOUS
<1>2. value = Read(Arrived[MaxDepth][request], 0)
  <2>1. request.kind = "list"
    BY DEF MethodCallToValue, List
  <2> QED BY <1>1, <2>1, ListsArrive
<1>3. value.ok /\ value.value = Arrived[MaxDepth][request]
  BY <1>2, ReadFacts
<1>4. PICK packed, n, R, O : /\ packed = Pack(c.required, c.optional) /\ n = Len(c.optional)
                             /\ R = Range(c.required) /\ O = Range(c.optional)
  OBVIOUS
<1>5. c.required \in Seq(R) /\ c.optional \in Seq(O) /\ n \in Nat /\ DOMAIN c.optional = 1 .. n
  BY <1>4, MethodsAssumption
<1>6. PICK m \in 0 .. MaxDepth :
        /\ packed \in Seq(Tokenizables[m])
        /\ CallIs(method, c.invokingId, c.methodId, ArrivedItems(m, packed), 0)
  <2>1. Len(c.invokingId) >= 8 /\ Len(c.methodId) >= 8
    <3>1. Len(c.invokingId) = 8 /\ Len(c.methodId) = 8
      BY MethodsAssumption, Zenon
    <3>2. \A l : l = 8 => l >= 8
      OBVIOUS
    <3> QED BY <3>1, <3>2, Zenon
  <2>2. MaxDepth \in 0 .. MaxDepth /\ request \in Tokenizables[MaxDepth] /\ 0 \in 0 .. 255
    BY TokensAssumption DEF Tokenizable
  <2>3. PICK i, j : i = c.invokingId /\ j = c.methodId
    OBVIOUS
  <2>4. request = MethodCallToValue(i, j, packed, 0)
    BY <1>4, <2>3 DEF Success
  <2>5. \E m \in 0 .. MaxDepth :
          /\ packed \in Seq(Tokenizables[m])
          /\ CallIs(MethodCallFromValue(Arrived[MaxDepth][MethodCallToValue(i, j, packed, 0)]),
                    i, j, ArrivedItems(m, packed), 0)
    BY <2>1, <2>2, <2>3, <2>4, CallRead
  <2> QED BY <1>1, <1>3, <2>3, <2>4, <2>5
<1>7. /\ method.ok /\ method.invokingId = c.invokingId /\ method.methodId = c.methodId
      /\ method.values = ArrivedItems(m, packed)
  BY <1>6 DEF CallIs
<1>8. AllArrive(ArrivedItems(m, packed), c.required, c.optional, n)
  BY <1>4, <1>5, <1>6, ArgumentsArrive
<1>9. args = [ok |-> TRUE, required |-> AllSent(c.required),
              optional |-> [k \in 1 .. n |->
                IF k \in 1 .. Len(c.optional) /\ c.optional[k] # Nothing THEN Sent(c.optional[k])
                ELSE Nothing]]
  BY <1>1, <1>4, <1>7, <1>8 DEF AllArrive
<1>10. AllSent(c.optional) = [k \in 1 .. n |->
         IF k \in 1 .. Len(c.optional) /\ c.optional[k] # Nothing THEN Sent(c.optional[k])
         ELSE Nothing]
  <2>1. AllSent(c.optional) = [k \in 1 .. n |-> Sent(c.optional[k])]
    BY <1>5 DEF AllSent
  <2>2. ASSUME NEW k \in 1 .. n
        PROVE  Sent(c.optional[k]) =
                 IF k \in 1 .. Len(c.optional) /\ c.optional[k] # Nothing THEN Sent(c.optional[k])
                 ELSE Nothing
    BY <1>4 DEF Sent
  <2> QED BY <2>1, <2>2, Zenon
<1>11. args.ok /\ args.required = AllSent(c.required) /\ args.optional = AllSent(c.optional)
  BY <1>9, <1>10
<1> QED BY <1>1, <1>3, <1>7, <1>11, Zenon

\* The bytes under way are those of the call until the drive has read them, and
\* it is read exactly once.
CallInv ==
  /\ call \in Calls
  /\ stage = "calling" => heard = Nothing
  /\ stage = "request" => heard = Nothing /\ Tokenizable(Request) /\ wire = ToBytes(Request)
  /\ stage \in {"executing", "reply", "split"} => heard # Nothing
  /\ CallArrives

LEMMA CallInvInit ==
  MethodsInit => CallInv
BY DEF MethodsInit, CallInv, CallArrives

LEMMA CallInvNext ==
  CallInv /\ [MethodsNext]_methodsVars => CallInv'
<1> SUFFICES ASSUME CallInv, [MethodsNext]_methodsVars  PROVE CallInv'
  OBVIOUS
<1>1. CASE HostCalls
  <2>1. call' = call /\ heard' = heard /\ heard = Nothing /\ Request' = Request
    BY <1>1 DEF HostCalls, CallInv, Request
  <2>2. CASE Tokenizable(Request)
    BY <1>1, <2>1, <2>2 DEF HostCalls, CallInv, CallArrives
  <2>3. CASE ~Tokenizable(Request)
    BY <1>1, <2>1, <2>3 DEF HostCalls, CallInv, CallArrives, End
  <2> QED BY <2>2, <2>3
<1>2. CASE DriveReads
  <2>1. /\ call' = call /\ call \in Calls /\ Tokenizable(Request) /\ wire = ToBytes(Request)
        /\ Request' = Request /\ stage' \in {"done", "executing"}
    BY <1>2 DEF DriveReads, CallInv, End, Request
  <2>2. heard' = [invokingId |-> call.invokingId, methodId |-> call.methodId,
                  required |-> AllSent(call.required), optional |-> AllSent(call.optional)]
    <3>1. PICK value, method, args :
            /\ value = FromBytes(ToBytes(Request))
            /\ method = MethodCallFromValue(value.value)
            /\ args = Unpack(method.values, Len(call.required), Len(call.optional))
      OBVIOUS
    <3>2. /\ value.ok /\ method.ok /\ args.ok
          /\ method.invokingId = call.invokingId /\ method.methodId = call.methodId
          /\ args.required = AllSent(call.required) /\ args.optional = AllSent(call.optional)
      BY <2>1, <3>1, CallHeard, Zenon DEF Request
    <3> QED BY <1>2, <2>1, <3>1, <3>2, Zenon DEF DriveReads
  <2>3. heard' # Nothing
    <3>1. DOMAIN heard' = {"invokingId", "methodId", "required", "optional"}
      BY <2>2
    <3>2. DOMAIN Nothing = {"kind"}
      BY DEF Nothing
    <3> QED BY <3>1, <3>2
  <2>4. AllSent(call'.required) = AllSent(call.required)
        /\ AllSent(call'.optional) = AllSent(call.optional)
    BY <2>1
  <2> QED BY <2>1, <2>2, <2>3, <2>4 DEF CallInv, CallArrives
<1>3. CASE DriveAnswers
  BY <1>3 DEF DriveAnswers, CallInv, CallArrives
<1>4. CASE DriveCloses
  BY <1>4 DEF DriveCloses, CallInv, CallArrives
<1>5. CASE DriveSplits
  BY <1>5 DEF DriveSplits, CallInv, CallArrives
<1>6. CASE HostReads
  BY <1>6 DEF HostReads, CallInv, CallArrives, End
<1>7. CASE UNCHANGED methodsVars
  BY <1>7 DEF methodsVars, CallInv, CallArrives, Request
<1> QED BY <1>1, <1>2, <1>3, <1>4, <1>5, <1>6, <1>7 DEF MethodsNext

\* The drive executes the method the host called, on the object it was called
\* on, with each argument in its place (MethodUtils.cpp, Method.hpp, Value.cpp,
\* TokenStream.cpp), whatever the calls and however deep their values.
THEOREM CallsArrive ==
  MethodsSpec => []CallArrives
<1>1. CallInv => CallArrives
  BY DEF CallInv
<1> QED BY CallInvInit, CallInvNext, <1>1, PTL DEF MethodsSpec

-----------------------------------------------------------------------------
(***************************************************************************)
(* Bytes that are cut                                                      *)
(***************************************************************************)

\* What is known of a sequence made of two parts.
LEMMA JoinParts ==
  ASSUME NEW S, NEW c, NEW a, NEW b, IsJoin(S, c, a, b)
  PROVE  /\ c \in Seq(S) /\ a \in Seq(S) /\ b \in Seq(S)
         /\ Len(a) \in Nat /\ Len(b) \in Nat /\ Len(c) = Len(a) + Len(b)
         /\ \A i \in 1 .. Len(a) : c[i] = a[i]
<1>1. /\ c \in Seq(S) /\ a \in Seq(S) /\ b \in Seq(S) /\ Len(c) = Len(a) + Len(b)
      /\ \A i \in 1 .. Len(a) + Len(b) : c[i] = IF i <= Len(a) THEN a[i] ELSE b[i - Len(a)]
  <2>1. c = a \o b /\ a \in Seq(S) /\ b \in Seq(S)
    BY DEF IsJoin
  <2> QED BY <2>1, ConcatProperties
<1>2. Len(a) \in Nat /\ Len(b) \in Nat
  BY <1>1, LenProperties
<1>3. ASSUME NEW i \in 1 .. Len(a)  PROVE c[i] = a[i]
  <2>1. i \in 1 .. Len(a) + Len(b) /\ i <= Len(a)
    BY <1>2
  <2> QED BY <1>1, <2>1, Zenon
<1> QED BY <1>1, <1>2, <1>3

LEMMA SplitsWithin ==
  ASSUME NEW S, NEW c, NEW a, NEW b, NEW x, NEW z, IsJoin(S, c, a, b), IsJoin(S, c, x, z),
         Len(x) <= Len(a)
  PROVE  \E y \in Seq(S) : IsJoin(S, a, x, y) /\ IsJoin(S, z, y, b) /\ Len(y) = Len(a) - Len(x)
<1>1. /\ a \in Seq(S) /\ b \in Seq(S) /\ x \in Seq(S) /\ z \in Seq(S)
      /\ c = a \o b /\ c = x \o z
  BY DEF IsJoin
<1>2. PICK m \in Nat, n \in Nat : m = Len(x) /\ n = Len(a) /\ m <= n
  BY <1>1, LenProperties
<1>3. PICK p, y : p = SubSeq(a, 1, m) /\ y = SubSeq(a, m + 1, n)
  OBVIOUS
<1>4. p \in Seq(S) /\ Len(p) = m /\ \A i \in 1 .. m : p[i] = a[i]
  <2>1. \A i \in 1 .. m : a[i] \in S
    BY <1>1, <1>2, ElementOfSeq
  <2>2. /\ p \in Seq(S) /\ Len(p) = (IF 1 <= m THEN (m - 1) + 1 ELSE 0)
        /\ \A i \in 1 .. (m - 1) + 1 : p[i] = a[(1 + i) - 1]
    BY <1>3, <2>1, SubSeqProperties
  <2> QED BY <2>2
<1>5. y \in Seq(S) /\ Len(y) = n - m
  <2>1. \A i \in m + 1 .. n : a[i] \in S
    BY <1>1, <1>2, ElementOfSeq
  <2>2. y \in Seq(S) /\ Len(y) = (IF m + 1 <= n THEN (n - (m + 1)) + 1 ELSE 0)
    BY <1>3, <2>1, SubSeqProperties
  <2> QED BY <1>2, <2>2
<1>6. p = x
  <2>1. ASSUME NEW i \in 1 .. m  PROVE p[i] = x[i]
    <3>1. i \in 1 .. Len(a) /\ i \in 1 .. Len(x)
      BY <1>2
    <3>2. c[i] = a[i]
      BY <3>1, JoinParts
    <3>3. c[i] = x[i]
      BY <3>1, JoinParts
    <3> QED BY <1>4, <3>2, <3>3
  <2> QED BY <1>1, <1>2, <1>4, <2>1, SeqEqual
<1>7. a = p \o y
  <2>1. 1 \in 1 .. Len(a) + 1 /\ m \in 1 - 1 .. Len(a) /\ n \in m .. Len(a)
    BY <1>2
  <2>2. SubSeq(a, 1, m) \o SubSeq(a, m + 1, n) = SubSeq(a, 1, n)
    BY <1>1, <2>1, ConcatAdjacentSubSeq
  <2>3. SubSeq(a, 1, n) = a
    BY <1>1, <1>2, SubSeqFull
  <2> QED BY <1>3, <2>2, <2>3
<1>8. z = y \o b
  <2>1. (x \o y) \o b = x \o (y \o b) /\ y \o b \in Seq(S)
    <3>1. x \in Seq(S) /\ y \in Seq(S) /\ b \in Seq(S)
      BY <1>1, <1>5
    <3>2. (x \o y) \o b = x \o (y \o b)
      BY <3>1, ConcatAssociative
    <3>3. y \o b \in Seq(S)
      BY <3>1, ConcatProperties
    <3> QED BY <3>2, <3>3
  <2>2. x \o z = x \o (y \o b)
    BY <1>1, <1>6, <1>7, <2>1
  <2>3. \A u, v \in Seq(S) : x \o u = x \o v => u = v
    BY <1>1, ConcatSimplifications, Zenon
  <2> QED BY <1>1, <2>1, <2>2, <2>3, Zenon
<1>9. IsJoin(S, a, x, y) /\ IsJoin(S, z, y, b)
  BY <1>1, <1>5, <1>6, <1>7, <1>8 DEF IsJoin
<1> QED BY <1>2, <1>5, <1>9

\* A part ends in the first of two pieces or in the second.
LEMMA PartCases ==
  ASSUME NEW S, NEW c, NEW a, NEW b, NEW x, NEW z, IsJoin(S, c, a, b), IsJoin(S, c, x, z)
  PROVE  \/ \E y \in Seq(S) \ {<<>>} : IsJoin(S, a, x, y)
         \/ \E y \in Seq(S) : IsJoin(S, x, a, y) /\ IsJoin(S, b, y, z)
<1>1. PICK m \in Nat, n \in Nat : m = Len(x) /\ n = Len(a)
  BY LenProperties DEF IsJoin
<1>2. CASE m < n
  <2>1. PICK y \in Seq(S) : IsJoin(S, a, x, y) /\ Len(y) = n - m
    <3>1. Len(x) <= Len(a)
      BY <1>1, <1>2
    <3>2. \E y \in Seq(S) : IsJoin(S, a, x, y) /\ IsJoin(S, z, y, b) /\ Len(y) = Len(a) - Len(x)
      BY <3>1, SplitsWithin
    <3> QED BY <1>1, <3>2
  <2>2. Len(y) # 0
    BY <1>2, <2>1
  <2>3. y # <<>>
    BY <2>2, EmptySeq
  <2> QED BY <2>1, <2>3
<1>3. CASE n <= m
  <2>1. Len(a) <= Len(x)
    BY <1>1, <1>3
  <2>2. \E y \in Seq(S) : IsJoin(S, x, a, y) /\ IsJoin(S, b, y, z) /\ Len(y) = Len(x) - Len(a)
    BY <2>1, SplitsWithin
  <2> QED BY <2>2
<1> QED BY <1>1, <1>2, <1>3

\* A part of an atom is not read.
LEMMA ReadAtomFails ==
  ASSUME NEW p, NEW tag, NEW b, NEW s, NEW k, NEW n, Len(p) < k + n
  PROVE  ReadAtom(p, tag, b, s, k, n) = Failure
BY Zenon DEF ReadAtom

\* A part that lacks something is shorter, and what it has is the same.
LEMMA PartOfJoin ==
  ASSUME NEW S, NEW c, NEW p, NEW y, IsJoin(S, c, p, y), y # <<>>
  PROVE  Len(p) < Len(c) /\ \A i \in 1 .. Len(p) : p[i] = c[i]
<1>1. PICK m \in Nat, n \in Nat : m = Len(p) /\ n = Len(y) /\ Len(c) = m + n
  BY JoinParts
<1>2. n # 0
  <2>1. y \in Seq(S)
    BY JoinParts
  <2> QED BY <1>1, <2>1, EmptySeq
<1>3. \A i \in 1 .. Len(p) : p[i] = c[i]
  BY JoinParts
<1> QED BY <1>1, <1>2, <1>3

\* A part of a token that is not all of it, and not nothing.
IsCut(c, p) ==
  /\ p \in Seq(Nat) /\ p # <<>> /\ Len(p) \in Nat /\ Len(p) > 0 /\ Len(p) < Len(c)
  /\ \A i \in 1 .. Len(p) : p[i] = c[i]

LEMMA CutHead ==
  ASSUME NEW c, NEW p, IsCut(c, p)
  PROVE  Head(p) = c[1]
<1>1. p \in Seq(Nat) /\ p # <<>> /\ 1 \in 1 .. Len(p)
  BY DEF IsCut
<1>2. Head(p) = p[1]
  BY <1>1
<1> QED BY <1>1, <1>2 DEF IsCut

\* An atom of each kind, when it is cut.
LEMMA ShortCut ==
  ASSUME NEW t, NEW b, NEW s, NEW d, NEW n \in ShortLengths, IsAtom(t, ShortAtom, b, s, d, n),
         NEW c, c = Header(t) \o d, NEW p, IsCut(c, p)
  PROVE  DeSerializeToken(p) = Failure
<1>1. PICK h : ShortHead(t, h, b, s, n)
  BY ShortHeaderIs
<1>2. Len(c) = 1 + n /\ c[1] = h
  BY <1>1 DEF IsAtom, ShortHead
<1>3. Head(p) = h
  BY <1>2, CutHead
<1>4. DeSerializeToken(p) = ReadAtom(p, ShortAtom, b, s, 1, n)
  BY <1>1, <1>3, TagsDiffer, Zenon DEF DeSerializeToken, ShortHead
<1>5. Len(p) < 1 + n
  BY <1>2 DEF IsCut
<1> QED BY <1>4, <1>5, ReadAtomFails

LEMMA MediumCut ==
  ASSUME NEW t, NEW b, NEW s, NEW d, NEW n \in MediumLengths, IsAtom(t, MediumAtom, b, s, d, n),
         NEW c, c = Header(t) \o d, NEW p, IsCut(c, p)
  PROVE  DeSerializeToken(p) = Failure
<1>1. PICK h, l : MediumHead(t, h, l, b, s, n)
  BY MediumHeaderIs
<1>2. Len(c) = 2 + n /\ c[1] = h /\ c[2] = l
  BY <1>1 DEF IsAtom, MediumHead
<1>3. Head(p) = h
  BY <1>2, CutHead
<1>4. CASE Len(p) < 2
  BY <1>1, <1>3, <1>4, TagsDiffer, Zenon DEF DeSerializeToken, MediumHead
<1>5. CASE ~(Len(p) < 2)
  <2>1. p[2] = l
    <3>1. 2 \in 1 .. Len(p)
      BY <1>5 DEF IsCut
    <3> QED BY <1>2, <3>1 DEF IsCut
  <2>2. DeSerializeToken(p) = ReadAtom(p, MediumAtom, b, s, 2, n)
    BY <1>1, <1>3, <1>5, <2>1, TagsDiffer, Zenon DEF DeSerializeToken, MediumHead
  <2>3. Len(p) < 2 + n
    BY <1>2 DEF IsCut
  <2> QED BY <2>2, <2>3, ReadAtomFails
<1> QED BY <1>4, <1>5

LEMMA LongCut ==
  ASSUME NEW t, NEW b, NEW s, NEW d, NEW n \in AtomLengths, IsAtom(t, LongAtom, b, s, d, n),
         NEW c, c = Header(t) \o d, NEW p, IsCut(c, p)
  PROVE  DeSerializeToken(p) = Failure
<1>1. PICK h, i, j, l : LongHead(t, h, i, j, l, b, s, n)
  BY LongHeaderIs
<1>2. Len(c) = 4 + n /\ c[1] = h /\ c[2] = i /\ c[3] = j /\ c[4] = l
  BY <1>1 DEF IsAtom, LongHead, AtomLengths
<1>3. Head(p) = h
  BY <1>2, CutHead
<1>4. CASE Len(p) < 4
  BY <1>1, <1>3, <1>4, TagsDiffer, Zenon DEF DeSerializeToken, LongHead
<1>5. CASE ~(Len(p) < 4)
  <2>1. p[2] = i /\ p[3] = j /\ p[4] = l
    <3>1. 2 \in 1 .. Len(p) /\ 3 \in 1 .. Len(p) /\ 4 \in 1 .. Len(p)
      BY <1>5 DEF IsCut
    <3> QED BY <1>2, <3>1 DEF IsCut
  <2>2. DeSerializeToken(p) = ReadAtom(p, LongAtom, b, s, 4, n)
    BY <1>1, <1>3, <1>5, <2>1, TagsDiffer, Zenon DEF DeSerializeToken, LongHead
  <2>3. Len(p) < 4 + n
    BY <1>2 DEF IsCut
  <2> QED BY <2>2, <2>3, ReadAtomFails
<1> QED BY <1>4, <1>5

\* A token that is cut is not read.
LEMMA TokenCut ==
  ASSUME NEW t \in WrittenTokens, NEW p, IsCut(SerializeToken(t), p)
  PROVE  DeSerializeToken(p) = Failure
<1>1. CASE t \in AtomTokens
  <2>1. PICK b \in Flags, s \in Flags, d \in AtomData : t = Atom(GetTag(Len(d)), b, s, d)
    BY <1>1 DEF AtomTokens, Flags
  <2>2. d \in Seq(Nat) /\ Len(d) \in AtomLengths
    BY DEF AtomData, Byte
  <2>3. PICK n \in AtomLengths : n = Len(d)
    BY <2>2
  <2>4. PICK c : c = Header(t) \o d /\ IsCut(c, p)
    BY <2>1, SerializeTokenIs, Zenon DEF Atom
  <2>8. IsAtom(t, GetTag(n), b, s, d, n)
    BY <2>1, <2>2, <2>3 DEF IsAtom
  <2>5. CASE GetTag(n) = ShortAtom /\ n \in ShortLengths
    BY <2>4, <2>5, <2>8, ShortCut
  <2>6. CASE GetTag(n) = MediumAtom /\ n \in MediumLengths
    BY <2>4, <2>6, <2>8, MediumCut
  <2>7. CASE GetTag(n) = LongAtom
    BY <2>4, <2>7, <2>8, LongCut
  <2> QED BY <2>5, <2>6, <2>7, GetTagFacts
<1>2. CASE t \in ControlTokens
  <2>1. PICK k \in Controls : t = Control(k)
    BY <1>2 DEF ControlTokens
  <2>2. SerializeToken(t) = <<k>>
    BY <2>1, ControlTokenIs
  <2>3. Len(SerializeToken(t)) = 1
    BY <2>2
  <2> QED BY <2>3 DEF IsCut
<1> QED BY <1>1, <1>2 DEF WrittenTokens

LEMMA CutOfJoin ==
  ASSUME NEW c, NEW p, NEW y, IsJoin(Nat, c, p, y), y # <<>>, p # <<>>
  PROVE  IsCut(c, p)
<1>1. Len(p) < Len(c) /\ \A i \in 1 .. Len(p) : p[i] = c[i]
  BY PartOfJoin
<1>2. PICK n \in Nat : n = Len(p) /\ p \in Seq(Nat)
  BY JoinParts
<1>3. n # 0
  BY <1>2, EmptySeq
<1> QED BY <1>1, <1>2, <1>3 DEF IsCut

\* u[i] is what the tokens are written as from the i-th on.
AreLaid(tokens, n, u) ==
  /\ n \in Nat /\ n = Len(tokens) /\ u[n + 1] = <<>> /\ u[1] = SerializeTokens(tokens)
  /\ \A i \in 1 .. n : IsJoin(Nat, u[i], SerializeToken(tokens[i]), u[i + 1])

LEMMA TokensLaid ==
  ASSUME NEW tokens \in Seq(WrittenTokens)
  PROVE  \E n, u : AreLaid(tokens, n, u)
<1>1. PICK n \in Nat : n = Len(tokens) /\ DOMAIN tokens = 1 .. n
  OBVIOUS
<1>2. PICK ss \in Seq(Seq(Nat)) : /\ ss = [i \in DOMAIN tokens |-> SerializeToken(tokens[i])]
                                  /\ Len(ss) = n /\ \A i \in 1 .. n : ss[i] = SerializeToken(tokens[i])
  <2>1. \A i \in 1 .. n : tokens[i] \in WrittenTokens
    BY <1>1
  <2>2. \A i \in 1 .. n : SerializeToken(tokens[i]) \in Seq(Nat)
    <3>1. <<>> \in Seq(Nat)
      OBVIOUS
    <3> QED BY <2>1, <3>1, TokenRead
  <2> DEFINE s == [i \in 1 .. n |-> SerializeToken(tokens[i])]
  <2>3. s \in Seq(Seq(Nat)) /\ Len(s) = n
    BY <2>2
  <2>4. \A i \in 1 .. n : s[i] = SerializeToken(tokens[i])
    OBVIOUS
  <2>5. s = [i \in DOMAIN tokens |-> SerializeToken(tokens[i])]
    BY <1>1
  <2> HIDE DEF s
  <2> QED BY <2>3, <2>4, <2>5
<1>3. PICK u \in [1 .. n + 1 -> Seq(Nat)] : /\ u = From(ss) /\ u[n + 1] = <<>>
                                            /\ \A j \in 1 .. n : u[j] = ss[j] \o u[j + 1]
  <2>1. /\ From(ss) \in [1 .. Len(ss) + 1 -> Seq(Nat)] /\ From(ss)[Len(ss) + 1] = <<>>
        /\ \A j \in 1 .. Len(ss) : From(ss)[j] = ss[j] \o From(ss)[j + 1]
    BY FromFacts
  <2>2. Len(ss) = n
    BY <1>2
  <2> QED BY <2>1, <2>2, Zenon
<1>4. u[1] = SerializeTokens(tokens)
  BY <1>2, <1>3 DEF SerializeTokens, Joined
<1>5. ASSUME NEW i \in 1 .. n  PROVE IsJoin(Nat, u[i], SerializeToken(tokens[i]), u[i + 1])
  <2>1. i + 1 \in 1 .. n + 1
    OBVIOUS
  <2>2. u[i] = SerializeToken(tokens[i]) \o u[i + 1]
    BY <1>2, <1>3, Zenon
  <2>3. SerializeToken(tokens[i]) \in Seq(Nat)
    <3>1. ss[i] \in Seq(Nat)
      BY <1>2, ElementOfSeq
    <3> QED BY <1>2, <3>1, Zenon
  <2>4. u[i + 1] \in Seq(Nat)
    BY <1>3, <2>1, Zenon
  <2> QED BY <2>2, <2>3, <2>4, Zenon DEF IsJoin
<1>6. AreLaid(tokens, n, u)
  BY <1>1, <1>3, <1>4, <1>5 DEF AreLaid
<1> QED BY <1>6

\* From a part of the bytes of some tokens that is not all of them, nothing is
\* read, or a part of the tokens that is not all of them.
ReadsPart(r, tokens) ==
  ~r.ok \/ \E q, z : IsJoin(WrittenTokens, tokens, q, z) /\ z # <<>> /\ r = Read(q, 0)

\* One token more is read in front of a part of the others.
LEMMA OneMoreRead ==
  ASSUME NEW t \in WrittenTokens, NEW tokens, NEW r, NEW all, IsJoin(WrittenTokens, all, <<t>>, tokens),
         ReadsPart(r, tokens)
  PROVE  ReadsPart(IF r.ok THEN Read(<<t>> \o r.value, 0) ELSE Failure, all)
<1>1. CASE ~r.ok
  BY <1>1, ReadFacts, Zenon DEF ReadsPart
<1>2. CASE r.ok
  <2>1. PICK q, z : IsJoin(WrittenTokens, tokens, q, z) /\ z # <<>> /\ r = Read(q, 0)
    BY <1>2 DEF ReadsPart
  <2>2. r.value = q
    BY <2>1, ReadFacts
  <2>3. <<t>> \in Seq(WrittenTokens) /\ q \in Seq(WrittenTokens) /\ z \in Seq(WrittenTokens)
        /\ tokens = q \o z /\ all = <<t>> \o tokens
    BY <2>1 DEF IsJoin
  <2>4. PICK p : p = <<t>> \o q /\ p \in Seq(WrittenTokens)
    BY <2>3, ConcatProperties
  <2>5. all = p \o z
    BY <2>3, <2>4, ConcatAssociative
  <2>6. IsJoin(WrittenTokens, all, p, z)
    BY <2>3, <2>4, <2>5 DEF IsJoin
  <2> QED BY <1>2, <2>1, <2>2, <2>4, <2>6, Zenon DEF ReadsPart
<1> QED BY <1>1, <1>2

LEMMA NothingIsCut ==
  ASSUME NEW S, NEW z, z # <<>>
  PROVE  \A x : ~IsJoin(S, <<>>, x, z)
<1> SUFFICES ASSUME NEW x, NEW c, c = <<>>, IsJoin(S, c, x, z)  PROVE FALSE
  OBVIOUS
<1>1. PICK k \in Nat, m \in Nat : k = Len(x) /\ m = Len(z) /\ Len(c) = k + m
  BY JoinParts
<1>2. Len(c) = 0
  OBVIOUS
<1>3. m = 0
  BY <1>1, <1>2
<1>4. z \in Seq(S)
  BY DEF IsJoin
<1> QED BY <1>1, <1>3, <1>4, EmptySeq

LEMMA TokensCut ==
  ASSUME NEW tokens \in Seq(WrittenTokens), NEW w, NEW z,
         IsJoin(Nat, SerializeTokens(tokens), w, z), z # <<>>
  PROVE  ReadsPart(DeSerializeTokens(w), tokens)
<1>0. PICK n \in Nat : \E u : AreLaid(tokens, n, u)
  BY TokensLaid DEF AreLaid
<1>1. PICK u : AreLaid(tokens, n, u)
  BY <1>0
<1>2. /\ n = Len(tokens) /\ u[n + 1] = <<>> /\ u[1] = SerializeTokens(tokens)
      /\ \A i \in 1 .. n : IsJoin(Nat, u[i], SerializeToken(tokens[i]), u[i + 1])
  BY <1>1 DEF AreLaid
<1>3. w \in Seq(Nat) /\ z \in Seq(Nat)
  BY DEF IsJoin
<1>4. PICK f : /\ \A k \in 0 .. Len(w) : f[k] = TokensAt(w, k, f)
               /\ DeSerializeTokens(w) = f[Len(w)]
  BY <1>3, DeSerializeTokensIs
<1> DEFINE Rest(i) == SubSeq(tokens, i, n)
           Claim(i) == \A x : EndsWith(Nat, w, x) /\ IsJoin(Nat, u[i], x, z)
                                => ReadsPart(f[Len(x)], Rest(i))
           I == {d \in Nat : d <= n => Claim((n + 1) - d)}
<1>5. f[0] = Read(<<>>, 0)
  <2>1. 0 \in 0 .. Len(w)
    BY <1>3
  <2>2. TokensAt(w, 0, f) = Read(<<>>, 0)
    BY Zenon DEF TokensAt
  <2> QED BY <1>4, <2>1, <2>2
<1>6. 0 \in I
  <2>1. \A x : ~IsJoin(Nat, u[n + 1], x, z)
    BY <1>2, NothingIsCut
  <2>2. (n + 1) - 0 = n + 1
    OBVIOUS
  <2> HIDE DEF Rest
  <2> QED BY <2>1, <2>2
<1>7. ASSUME NEW d \in Nat, d \in I  PROVE d + 1 \in I
  <2> SUFFICES ASSUME d + 1 <= n  PROVE Claim((n + 1) - (d + 1))
    OBVIOUS
  <2>1. PICK i \in 1 .. n : i = (n + 1) - (d + 1) /\ i + 1 = (n + 1) - d
    OBVIOUS
  <2>2. Claim(i + 1)
    <3> HIDE DEF Claim
    <3> QED BY <1>7, <2>1
  <2>3. PICK t \in WrittenTokens : t = tokens[i]
    BY <1>2
  <2>4. PICK s, others : s = SerializeToken(t) /\ others = u[i + 1] /\ IsJoin(Nat, u[i], s, others)
    BY <1>2, <2>3, Zenon
  <2>5. IsJoin(WrittenTokens, Rest(i), <<t>>, Rest(i + 1))
    <3>1. i \in 1 .. Len(tokens) /\ n \in i .. Len(tokens)
      BY <1>2
    <3>2. Rest(i) = <<t>> \o Rest(i + 1)
      BY <2>3, <3>1, SubSeqRecursiveFirst
    <3>3. Rest(i + 1) \in Seq(WrittenTokens)
      <4>1. \A k \in i + 1 .. n : tokens[k] \in WrittenTokens
        BY <1>2, ElementOfSeq
      <4> QED BY <4>1, SubSeqProperties
    <3>4. <<t>> \in Seq(WrittenTokens)
      OBVIOUS
    <3> QED BY <3>2, <3>3, <3>4 DEF IsJoin
  <2> SUFFICES ASSUME NEW x, EndsWith(Nat, w, x), IsJoin(Nat, u[i], x, z)
               PROVE  ReadsPart(f[Len(x)], Rest(i))
    BY <2>1
  <2>6. Len(x) \in 0 .. Len(w) /\ LastOf(w, Len(x)) = x
    <3>1. Len(w) \in Nat /\ Len(x) \in Nat /\ Len(x) <= Len(w) /\ LastOf(w, Len(x)) = x
      BY LastOfEnd
    <3> QED BY <3>1
  <2>7. f[Len(x)] = TokensAt(w, Len(x), f)
    BY <1>4, <2>6
  <2>8. CASE x = <<>>
    <3>1. Rest(i) # <<>> /\ Rest(i) \in Seq(WrittenTokens)
      <4> HIDE DEF Rest
      <4>1. Rest(i) \in Seq(WrittenTokens) /\ Len(Rest(i)) # 0
        BY <2>5, JoinFacts DEF IsJoin
      <4> QED BY <4>1
    <3>2. <<>> \in Seq(WrittenTokens)
      BY EmptySeq
    <3>3. <<>> \o Rest(i) = Rest(i)
      BY <3>1, ConcatEmptySeq
    <3>4. IsJoin(WrittenTokens, Rest(i), <<>>, Rest(i))
      BY <3>1, <3>2, <3>3 DEF IsJoin
    <3>5. f[Len(x)] = Read(<<>>, 0)
      BY <1>5, <2>8
    <3> HIDE DEF Rest
    <3> QED BY <3>1, <3>4, <3>5 DEF ReadsPart
  <2>9. CASE x # <<>> /\ \E y \in Seq(Nat) \ {<<>>} : IsJoin(Nat, s, x, y)
    <3>1. PICK y : IsJoin(Nat, s, x, y) /\ y # <<>>
      BY <2>9
    <3>2. IsCut(s, x)
      BY <2>9, <3>1, CutOfJoin
    <3>3. DeSerializeToken(x) = Failure
      BY <2>4, <3>2, TokenCut
    <3>4. Len(x) # 0
      BY <3>2 DEF IsCut
    <3>5. f[Len(x)] = Failure
      BY <2>6, <2>7, <3>3, <3>4, ReadFacts, Zenon DEF TokensAt
    <3> QED BY <3>5, ReadFacts DEF ReadsPart
  <2>10. CASE \E y \in Seq(Nat) : IsJoin(Nat, x, s, y) /\ IsJoin(Nat, others, y, z)
    <3>1. PICK y \in Seq(Nat) : IsJoin(Nat, x, s, y) /\ IsJoin(Nat, others, y, z)
      BY <2>10
    <3>2. DeSerializeToken(x) = Read(t, Len(y)) /\ Len(s) > 0
      <4>1. x = s \o y
        BY <3>1 DEF IsJoin
      <4> QED BY <2>4, <4>1, TokenRead
    <3>3. Len(x) # 0
      <4>1. Len(x) = Len(s) + Len(y) /\ Len(s) \in Nat /\ Len(y) \in Nat
        BY <3>1, JoinParts
      <4> QED BY <3>2, <4>1
    <3>4. EndsWith(Nat, w, y)
      BY <3>1, EndsJoin
    <3>5. ReadsPart(f[Len(y)], Rest(i + 1))
      <4> HIDE DEF Rest
      <4> QED BY <2>2, <2>4, <3>1, <3>4
    <3>6. PICK r : r = f[Len(y)]
      OBVIOUS
    <3>7. f[Len(x)] = IF r.ok THEN Read(<<t>> \o r.value, 0) ELSE Failure
      <4>1. PICK first : /\ first = DeSerializeToken(LastOf(w, Len(x))) /\ first.ok
                         /\ first.value = t /\ first.left = Len(y)
        BY <2>6, <3>2, ReadFacts
      <4> QED BY <2>7, <3>3, <3>6, <4>1, Zenon DEF TokensAt
    <3> HIDE DEF Rest
    <3> QED BY <2>5, <3>5, <3>6, <3>7, OneMoreRead
  <2>11. \/ \E y \in Seq(Nat) \ {<<>>} : IsJoin(Nat, s, x, y)
         \/ \E y \in Seq(Nat) : IsJoin(Nat, x, s, y) /\ IsJoin(Nat, others, y, z)
    BY <2>4, PartCases
  <2> HIDE DEF Rest
  <2> QED BY <2>8, <2>9, <2>10, <2>11, Zenon
<1>8. n \in I
  <2> HIDE DEF I
  <2> QED BY <1>6, <1>7, SetInduction
<1>9. Claim(1)
  <2>1. n <= n /\ (n + 1) - n = 1
    OBVIOUS
  <2> HIDE DEF Claim
  <2> QED BY <1>8, <2>1
<1>10. Rest(1) = tokens
  BY <1>2, SubSeqFull
<1>11. EndsWith(Nat, w, w) /\ IsJoin(Nat, u[1], w, z)
  BY <1>2, <1>3, EndsWithItself
<1> HIDE DEF Rest
<1> QED BY <1>4, <1>9, <1>10, <1>11

-----------------------------------------------------------------------------
(***************************************************************************)
(* What is read of values that are cut                                     *)
(***************************************************************************)

\* The first element of what is left of a part.
LEMMA FirstOfPart ==
  ASSUME NEW S, NEW c, NEW t, NEW g, IsJoin(S, c, <<t>>, g), NEW q, NEW z, IsJoin(S, c, q, z),
         q # <<>>
  PROVE  \E h : IsJoin(S, q, <<t>>, h) /\ IsJoin(S, g, h, z)
<1>1. Len(<<t>>) = 1
  OBVIOUS
<1>2. PICK n \in Nat : n = Len(q) /\ n # 0
  <2>1. q \in Seq(S)
    BY DEF IsJoin
  <2> QED BY <2>1, EmptySeq, LenProperties
<1>3. Len(<<t>>) <= Len(q)
  BY <1>1, <1>2
<1> QED BY <1>3, SplitsWithin

LEMMA JoinBehind ==
  ASSUME NEW S, NEW c, NEW a, NEW b, IsJoin(S, c, a, b), NEW e, NEW d, IsJoin(S, d, c, e)
  PROVE  \E o : IsJoin(S, o, b, e) /\ IsJoin(S, d, a, o)
<1>1. b \in Seq(S) /\ e \in Seq(S)
  BY DEF IsJoin
<1>2. PICK o : IsJoin(S, o, b, e)
  BY <1>1, JoinFacts
<1> QED BY <1>2, JoinAssociative

LEMMA JoinWithNothing ==
  ASSUME NEW S, NEW c, NEW e, IsJoin(S, c, <<>>, e)
  PROVE  c = e
BY ConcatEmptySeq DEF IsJoin

\* A part of a piece and one element more, that is not all of it, is a part of the piece.
LEMMA PartOfOneMore ==
  ASSUME NEW S, NEW c, NEW a, NEW x, IsJoin(S, c, a, <<x>>), NEW q, NEW y, IsJoin(S, c, q, y),
         y # <<>>
  PROVE  \E z : IsJoin(S, a, q, z)
<1>1. PICK k \in Nat, m \in Nat : k = Len(q) /\ m = Len(a) /\ Len(c) = m + 1
  <2>1. \A b : IsJoin(S, c, a, b) => Len(a) \in Nat /\ Len(c) = Len(a) + Len(b)
    BY JoinParts
  <2>2. Len(<<x>>) = 1 /\ Len(q) \in Nat
    BY JoinParts
  <2> QED BY <2>1, <2>2
<1>2. k < m + 1
  <2>1. Len(q) < Len(c)
    BY PartOfJoin
  <2> QED BY <1>1, <2>1
<1>3. Len(q) <= Len(a)
  BY <1>1, <1>2
<1> QED BY <1>3, SplitsWithin

\* What is not read, or read to the very end of the tokens.
Lost(r) == ~r.ok \/ r.left = 0
Ends == <<Control(EndList)>>

\* What is read at the end of the list that stands behind what was cut off.
LEMMA EndIsAt ==
  ASSUME NEW W, NEW f, IsReading(W, f), EndsWith(WrittenTokens, W, Ends)
  PROVE  /\ IsAt(W, f, Len(Ends), Control(EndList), <<>>) /\ Control(EndList).tag = EndList
         /\ Ends \in Seq(WrittenTokens) /\ Len(Ends) = 1
<1>1. Control(EndList) \in WrittenTokens /\ Control(EndList).tag = EndList
      /\ Ends \in Seq(WrittenTokens) /\ <<>> \in Seq(WrittenTokens)
  BY ControlsWritten, EmptySeq DEF Ends
<1>2. IsJoin(WrittenTokens, Ends, <<Control(EndList)>>, <<>>)
  BY <1>1, ConcatEmptySeq DEF IsJoin, Ends
<1>3. IsAt(W, f, Len(Ends), Control(EndList), <<>>)
  BY <1>1, <1>2, AtToken
<1>4. Len(Ends) = 1
  BY DEF Ends
<1> QED BY <1>1, <1>3, <1>4

LEMMA EndIsNoValue ==
  ASSUME NEW W, NEW f, NEW n, NEW t, NEW e, IsAt(W, f, n, t, e), t.tag = EndList
  PROVE  f[n]["value"] = Failure
<1>1. NextOf(W, n) = t /\ f[n]["value"] = ValueAt(W, n, f) /\ n # 0
  BY DEF IsAt
<1> QED BY <1>1, MarksDiffer, Zenon DEF ValueAt

LEMMA NothingBehind ==
  ASSUME NEW W, NEW f, IsReading(W, f), Len(W) \in Nat
  PROVE  f[0]["items"] = Failure
<1>1. 0 \in 0 .. Len(W)
  OBVIOUS
<1>2. f[0]["items"] = ItemsAt(W, 0, f)
  BY <1>1 DEF IsReading
<1> QED BY <1>2, Zenon DEF ItemsAt

\* Where the value of an item is lost, the list is lost.
LEMMA ItemLost ==
  ASSUME NEW W, NEW f, NEW n, NEW t, NEW e, IsAt(W, f, n, t, e), t.tag # EndList,
         f[0]["items"] = Failure, NEW r, r = f[n]["value"], Lost(r) \/ ~f[r.left]["items"].ok
  PROVE  f[n]["items"] = Failure
<1>1. NextOf(W, n) = t /\ n # 0 /\ f[n]["items"] = ItemsAt(W, n, f)
      /\ r = ValueAt(W, n, f)
  BY DEF IsAt
<1>2. ~(r.ok /\ f[r.left]["items"].ok)
  BY ReadFacts, Zenon DEF Lost
<1>3. ItemsAt(W, n, f) = Failure
  BY <1>1, <1>2, Zenon DEF ItemsAt
<1> QED BY <1>1, <1>3

\* Values nested at most n deep that are cut are lost in the end of the list.
CutsValues(W, f, n) ==
  \A v \in Tokenizables[n] : \A p, y, d :
       /\ IsJoin(WrittenTokens, TokensOf[n][v], p, y) /\ y # <<>>
       /\ IsJoin(WrittenTokens, d, p, Ends) /\ EndsWith(WrittenTokens, W, d)
    => Lost(f[Len(d)]["value"])

\* u[i] is what the items are tokenized as from the i-th on.
AreTokenized(n, items, k, u) ==
  /\ k \in Nat /\ k = Len(items) /\ u[k + 1] = <<>> /\ u[1] = Joined(TokensOfItems(n, items))
  /\ \A i \in 1 .. k : /\ items[i] \in Tokenizables[n]
                       /\ IsJoin(WrittenTokens, u[i], TokensOf[n][items[i]], u[i + 1])

LEMMA ItemsTokenized ==
  ASSUME NEW n \in 0 .. MaxDepth, NEW items \in Seq(Tokenizables[n])
  PROVE  \E k, u : AreTokenized(n, items, k, u)
<1>1. PICK k \in Nat : k = Len(items) /\ DOMAIN items = 1 .. k
  OBVIOUS
<1>2. PICK ss \in Seq(Seq(WrittenTokens)) :
        /\ ss = TokensOfItems(n, items) /\ Len(ss) = k
        /\ \A i \in 1 .. k : ss[i] = TokensOf[n][items[i]] /\ items[i] \in Tokenizables[n]
  BY <1>1, TokensWritten, ItemsWritten
<1>3. PICK u \in [1 .. k + 1 -> Seq(WrittenTokens)] :
        /\ u = From(ss) /\ u[k + 1] = <<>>
        /\ \A j \in 1 .. k : u[j] = ss[j] \o u[j + 1]
  <2>1. /\ From(ss) \in [1 .. Len(ss) + 1 -> Seq(WrittenTokens)] /\ From(ss)[Len(ss) + 1] = <<>>
        /\ \A j \in 1 .. Len(ss) : From(ss)[j] = ss[j] \o From(ss)[j + 1]
    BY FromFacts
  <2> QED BY <1>2, <2>1, Zenon
<1>4. ASSUME NEW i \in 1 .. k
      PROVE  IsJoin(WrittenTokens, u[i], TokensOf[n][items[i]], u[i + 1])
  <2>1. i + 1 \in 1 .. k + 1
    OBVIOUS
  <2>2. u[i] = TokensOf[n][items[i]] \o u[i + 1]
    BY <1>2, <1>3, Zenon
  <2>3. TokensOf[n][items[i]] \in Seq(WrittenTokens)
    <3>1. ss[i] \in Seq(WrittenTokens)
      BY <1>2, ElementOfSeq
    <3> QED BY <1>2, <3>1, Zenon
  <2>4. u[i + 1] \in Seq(WrittenTokens)
    BY <1>3, <2>1, Zenon
  <2> QED BY <2>2, <2>3, <2>4, Zenon DEF IsJoin
<1>5. u[1] = Joined(TokensOfItems(n, items))
  BY <1>2, <1>3 DEF Joined
<1>6. AreTokenized(n, items, k, u)
  BY <1>1, <1>2, <1>3, <1>4, <1>5 DEF AreTokenized
<1> QED BY <1>6

\* Of A from j to k there is read nothing, or a part up to the end of the tokens;
\* not all of it, if z is missing.
IsPart(r, A, j, k, z) ==
  ~r.ok \/ \E m \in j - 1 .. k : r = Read(SubSeq(A, j, m), 0) /\ (z # <<>> => m < k)

LEMMA OneMorePart ==
  ASSUME NEW V, NEW A \in Seq(V), NEW k \in Nat, k = Len(A), NEW j \in 1 .. k, NEW z, NEW r,
         IsPart(r, A, j + 1, k, z), r.ok
  PROVE  r.left = 0 /\ IsPart(Read(<<A[j]>> \o r.value, 0), A, j, k, z)
<1>1. PICK m \in (j + 1) - 1 .. k : r = Read(SubSeq(A, j + 1, m), 0) /\ (z # <<>> => m < k)
  BY DEF IsPart
<1>2. r.left = 0 /\ r.value = SubSeq(A, j + 1, m)
  BY <1>1, ReadFacts
<1>3. SubSeq(A, j, m) = <<A[j]>> \o SubSeq(A, j + 1, m)
  <2>1. j \in 1 .. Len(A) /\ m \in j .. Len(A)
    BY <1>1
  <2> QED BY <2>1, SubSeqRecursiveFirst
<1>4. m \in j - 1 .. k
  BY <1>1
<1>5. Read(<<A[j]>> \o r.value, 0) = Read(SubSeq(A, j, m), 0)
  BY <1>2, <1>3
<1> QED BY <1>1, <1>2, <1>4, <1>5 DEF IsPart

\* Either nothing is read at d, or a behind what is read at a part of o.
GoesOn(W, f, d, o, z, a) ==
  \/ ~f[Len(d)]["items"].ok
  \/ \E y, g : /\ IsJoin(WrittenTokens, o, y, z) /\ IsJoin(WrittenTokens, g, y, Ends)
               /\ EndsWith(WrittenTokens, W, g) /\ f[Len(g)]["items"].ok
               /\ \A as, m : HasRead(f, Len(g), "items", as, m)
                    => HasRead(f, Len(d), "items", <<a>> \o as, m)

\* One item more in front of a part of the others.
LEMMA CutItemsNext ==
  ASSUME NEW W, NEW f, IsReading(W, f), Len(W) \in Nat, NEW n \in 0 .. MaxDepth,
         ReadsValues(W, f, n), CutsValues(W, f, n), NEW v \in Tokenizables[n],
         NEW e, NEW o, IsJoin(WrittenTokens, e, TokensOf[n][v], o), NEW q, NEW z,
         IsJoin(WrittenTokens, e, q, z), NEW d, IsJoin(WrittenTokens, d, q, Ends),
         EndsWith(WrittenTokens, W, d), q # <<>>
  PROVE  GoesOn(W, f, d, o, z, Arrived[n][v])
<1>1. PICK s : s = TokensOf[n][v] /\ IsWritten(s)
  BY TokensWritten
<1>2. PICK t \in WrittenTokens, x \in Seq(WrittenTokens) : s = <<t>> \o x /\ t.tag # EndList
  BY <1>1 DEF IsWritten
<1>3. PICK h : IsJoin(WrittenTokens, q, <<t>>, h)
  <2>1. <<t>> \in Seq(WrittenTokens)
    OBVIOUS
  <2>2. IsJoin(WrittenTokens, s, <<t>>, x)
    BY <1>2, <2>1 DEF IsJoin
  <2>3. PICK c : IsJoin(WrittenTokens, c, x, o) /\ IsJoin(WrittenTokens, e, <<t>>, c)
    BY <1>1, <2>2, JoinBehind
  <2> QED BY <2>3, FirstOfPart
<1>4. PICK c : IsJoin(WrittenTokens, d, <<t>>, c) /\ c \in Seq(WrittenTokens)
  <2>1. PICK c : IsJoin(WrittenTokens, d, <<t>>, c)
    BY <1>3, JoinBehind
  <2> QED BY <2>1 DEF IsJoin
<1>5. IsAt(W, f, Len(d), t, c)
  BY <1>4, AtToken
<1>6. f[0]["items"] = Failure
  BY NothingBehind
<1>7. CASE \E y \in Seq(WrittenTokens) \ {<<>>} : IsJoin(WrittenTokens, s, q, y)
  <2>1. Lost(f[Len(d)]["value"])
    BY <1>1, <1>7 DEF CutsValues
  <2>2. f[Len(d)]["items"] = Failure
    BY <1>2, <1>5, <1>6, <2>1, ItemLost
  <2> QED BY <2>2, ReadFacts DEF GoesOn
<1>8. CASE \E y \in Seq(WrittenTokens) : IsJoin(WrittenTokens, q, s, y) /\ IsJoin(WrittenTokens, o, y, z)
  <2>1. PICK y : IsJoin(WrittenTokens, q, s, y) /\ IsJoin(WrittenTokens, o, y, z)
    BY <1>8
  <2>2. PICK g : IsJoin(WrittenTokens, g, y, Ends) /\ IsJoin(WrittenTokens, d, s, g)
    BY <2>1, JoinBehind
  <2>3. EndsWith(WrittenTokens, W, g)
    BY <2>2, EndsJoin
  <2>4. HasRead(f, Len(d), "value", Arrived[n][v], Len(g))
    BY <1>1, <2>2 DEF ReadsValues, HasRead
  <2>5. CASE ~f[Len(g)]["items"].ok
    <3>1. PICK r, l : r = f[Len(d)]["value"] /\ r = Read(Arrived[n][v], l) /\ l = Len(g)
      BY <2>4 DEF HasRead
    <3>2. r.left = l
      <4>1. Read(Arrived[n][v], l).left = l
        BY ReadFacts, Zenon
      <4> QED BY <3>1, <4>1
    <3>3. f[Len(d)]["items"] = Failure
      BY <1>2, <1>5, <1>6, <2>5, <3>1, <3>2, ItemLost
    <3> QED BY <3>3, ReadFacts DEF GoesOn
  <2>6. CASE f[Len(g)]["items"].ok
    <3>1. ASSUME NEW as, NEW m, HasRead(f, Len(g), "items", as, m)
          PROVE  HasRead(f, Len(d), "items", <<Arrived[n][v]>> \o as, m)
      BY <1>2, <1>5, <2>4, <3>1, ItemRead, Zenon
    <3> QED BY <2>1, <2>2, <2>3, <2>6, <3>1 DEF GoesOn
  <2> QED BY <2>5, <2>6
<1>9. \/ \E y \in Seq(WrittenTokens) \ {<<>>} : IsJoin(WrittenTokens, s, q, y)
      \/ \E y \in Seq(WrittenTokens) : IsJoin(WrittenTokens, q, s, y) /\ IsJoin(WrittenTokens, o, y, z)
  BY <1>1, PartCases
<1> QED BY <1>7, <1>8, <1>9

\* Of the items of a list that is cut there is read nothing, or a part of them up to the end.
LEMMA CutItems ==
  ASSUME NEW W, NEW f, IsReading(W, f), Len(W) \in Nat, NEW n \in 0 .. MaxDepth,
         ReadsValues(W, f, n), CutsValues(W, f, n),
         NEW items \in Seq(Tokenizables[n]), NEW k, k = Len(items), NEW q, NEW z,
         IsJoin(WrittenTokens, Joined(TokensOfItems(n, items)), q, z),
         NEW d, IsJoin(WrittenTokens, d, q, Ends), EndsWith(WrittenTokens, W, d)
  PROVE  IsPart(f[Len(d)]["items"], ArrivedItems(n, items), 1, k, z)
<1>1. PICK u : AreTokenized(n, items, k, u)
  <2>1. PICK l, u : AreTokenized(n, items, l, u)
    BY ItemsTokenized
  <2>2. l = k
    BY <2>1 DEF AreTokenized
  <2> QED BY <2>1, <2>2
<1>2. /\ k \in Nat /\ u[k + 1] = <<>> /\ u[1] = Joined(TokensOfItems(n, items))
      /\ \A i \in 1 .. k : /\ items[i] \in Tokenizables[n]
                           /\ IsJoin(WrittenTokens, u[i], TokensOf[n][items[i]], u[i + 1])
  BY <1>1 DEF AreTokenized
<1>3. PICK A, V : /\ A = ArrivedItems(n, items) /\ A \in Seq(V) /\ Len(A) = k
                  /\ \A i \in 1 .. k : A[i] = Arrived[n][items[i]]
  <2>1. AreKept(n, Tokenizables[n], items, ArrivedItems(n, items))
    BY ItemsKept
  <2> QED BY <2>1 DEF AreKept
<1> DEFINE Claim(j) == \A x, g : IsJoin(WrittenTokens, u[j], x, z)
                                /\ IsJoin(WrittenTokens, g, x, Ends)
                                /\ EndsWith(WrittenTokens, W, g)
                                  => IsPart(f[Len(g)]["items"], A, j, k, z)
           I == {i \in Nat : i <= k => Claim((k + 1) - i)}
\* Where the part ends before the j-th item, the list ends.
<1>4. ASSUME NEW j \in 1 .. k + 1, NEW g, IsJoin(WrittenTokens, g, <<>>, Ends),
             EndsWith(WrittenTokens, W, g), z # <<>> => j - 1 < k
      PROVE  IsPart(f[Len(g)]["items"], A, j, k, z)
  <2>1. g = Ends
    BY <1>4, JoinWithNothing
  <2>2. f[Len(g)]["items"] = Read(<<>>, 0)
    <3>1. IsAt(W, f, Len(g), Control(EndList), <<>>) /\ Control(EndList).tag = EndList
      BY <1>4, <2>1, EndIsAt
    <3>2. f[Len(g)]["items"] = Read(<<>>, Len(<<>>))
      BY <3>1, ListEnds
    <3> QED BY <3>2, EmptySeq
  <2>3. SubSeq(A, j, j - 1) = <<>>
    BY SubSeqEmpty
  <2>4. j - 1 \in j - 1 .. k
    BY <1>2
  <2> HIDE DEF Claim, I
  <2> QED BY <1>4, <2>2, <2>3, <2>4 DEF IsPart
<1>5. 0 \in I
  <2>1. ASSUME NEW x, NEW g, IsJoin(WrittenTokens, u[k + 1], x, z),
               IsJoin(WrittenTokens, g, x, Ends), EndsWith(WrittenTokens, W, g)
        PROVE  IsPart(f[Len(g)]["items"], A, k + 1, k, z)
    <3>1. z = <<>>
      BY <1>2, <2>1, NothingIsCut
    <3>2. x = <<>>
      <4>1. x \in Seq(WrittenTokens) /\ x \o <<>> = <<>>
        BY <1>2, <2>1, <3>1 DEF IsJoin
      <4> QED BY <4>1, ConcatEmptySeq
    <3>3. k + 1 \in 1 .. k + 1
      BY <1>2
    <3> QED BY <1>4, <2>1, <3>1, <3>2, <3>3
  <2>2. Claim(k + 1)
    BY <2>1, Zenon
  <2>3. (k + 1) - 0 = k + 1
    BY <1>2
  <2> HIDE DEF Claim
  <2> QED BY <2>2, <2>3
<1>6. ASSUME NEW i \in Nat, i \in I  PROVE i + 1 \in I
  <2> SUFFICES ASSUME i + 1 <= k  PROVE Claim((k + 1) - (i + 1))
    OBVIOUS
  <2>1. PICK j \in 1 .. k : j = (k + 1) - (i + 1) /\ j + 1 = (k + 1) - i
    <3> HIDE DEF Claim, I
    <3> QED BY <1>2
  <2>2. Claim(j + 1)
    <3>1. i <= k
      BY <1>2
    <3> HIDE DEF Claim
    <3> QED BY <1>6, <2>1, <3>1
  <2>3. ASSUME NEW x, NEW g, IsJoin(WrittenTokens, u[j], x, z),
               IsJoin(WrittenTokens, g, x, Ends), EndsWith(WrittenTokens, W, g)
        PROVE  IsPart(f[Len(g)]["items"], A, j, k, z)
    <3>1. PICK v, e, o :
            /\ v \in Tokenizables[n] /\ v = items[j] /\ e = u[j] /\ o = u[j + 1]
            /\ IsJoin(WrittenTokens, e, TokensOf[n][v], o) /\ A[j] = Arrived[n][v]
      BY <1>2, <1>3
    <3>2. CASE x = <<>>
      <4>1. j \in 1 .. k + 1 /\ j - 1 < k
        BY <1>2
      <4> HIDE DEF Claim, I
      <4> QED BY <1>4, <2>3, <3>2, <4>1
    <3>3. CASE x # <<>> /\ f[Len(g)]["items"].ok
      <4>1. PICK y, h : /\ IsJoin(WrittenTokens, o, y, z) /\ IsJoin(WrittenTokens, h, y, Ends)
                        /\ EndsWith(WrittenTokens, W, h) /\ f[Len(h)]["items"].ok
                        /\ \A as, m : HasRead(f, Len(h), "items", as, m)
                             => HasRead(f, Len(g), "items", <<Arrived[n][v]>> \o as, m)
        <5>1. IsJoin(WrittenTokens, e, x, z)
          BY <2>3, <3>1
        <5> HIDE DEF Claim, I
        <5>2. GoesOn(W, f, g, o, z, Arrived[n][v])
          BY <2>3, <3>1, <3>3, <5>1, CutItemsNext
        <5> QED BY <3>3, <5>2, Zenon DEF GoesOn
      <4>2. PICK r : r = f[Len(h)]["items"]
        OBVIOUS
      <4>3. IsPart(r, A, j + 1, k, z) /\ r.ok
        BY <2>2, <3>1, <4>1, <4>2
      <4> HIDE DEF Claim, I
      <4>4. r.left = 0 /\ IsPart(Read(<<A[j]>> \o r.value, 0), A, j, k, z)
        BY <1>2, <1>3, <4>3, OneMorePart
      <4>5. HasRead(f, Len(h), "items", r.value, 0)
        <5>1. r = Read(r.value, r.left)
          <6>1. PICK m : r = Read(SubSeq(A, j + 1, m), 0)
            BY <4>3 DEF IsPart
          <6> QED BY <6>1, ReadFacts
        <5> QED BY <4>2, <4>4, <5>1 DEF HasRead
      <4>6. f[Len(g)]["items"] = Read(<<A[j]>> \o r.value, 0)
        BY <3>1, <4>1, <4>5 DEF HasRead
      <4> QED BY <4>4, <4>6
    <3>4. CASE ~f[Len(g)]["items"].ok
      BY <3>4 DEF IsPart
    <3> QED BY <3>2, <3>3, <3>4
  <2>4. Claim(j)
    BY <2>3, Zenon
  <2> HIDE DEF Claim
  <2> QED BY <2>1, <2>4
<1>7. k \in I
  <2> HIDE DEF I
  <2> QED BY <1>2, <1>5, <1>6, SetInduction
<1>8. Claim(1)
  <2>1. k <= k /\ (k + 1) - k = 1
    BY <1>2
  <2> HIDE DEF Claim
  <2> QED BY <1>2, <1>7, <2>1
<1> QED BY <1>2, <1>3, <1>8

LEMMA CutAtStart ==
  ASSUME NEW W, NEW f, IsReading(W, f), NEW d, IsJoin(WrittenTokens, d, <<>>, Ends),
         EndsWith(WrittenTokens, W, d)
  PROVE  Lost(f[Len(d)]["value"])
<1>1. d = Ends
  BY JoinWithNothing
<1>2. f[Len(d)]["value"] = Failure
  BY <1>1, EndIsAt, EndIsNoValue
<1> QED BY <1>2, ReadFacts DEF Lost

\* The token a scalar starts with opens neither a list nor a name.
LEMMA NoListOpens ==
  ASSUME NEW W, NEW f, NEW n, NEW t, NEW e, IsAt(W, f, n, t, e), t.tag = StartList,
         ~f[Len(e)]["items"].ok
  PROVE  f[n]["value"] = Failure
<1>1. /\ n # 0 /\ NextOf(W, n) = t /\ n - 1 = Len(e) /\ f[n]["value"] = ValueAt(W, n, f)
  BY DEF IsAt
<1>2. ~f[n - 1]["items"].ok
  BY <1>1
<1>3. ValueAt(W, n, f) = Failure
  BY <1>1, <1>2, MarksDiffer, Zenon DEF ValueAt
<1> QED BY <1>1, <1>3

LEMMA NoNameOpens ==
  ASSUME NEW W, NEW f, NEW n, NEW t, NEW e, IsAt(W, f, n, t, e), t.tag = StartName,
         NEW name, name = f[Len(e)]["value"], NEW value, value = f[name.left]["value"],
         Lost(name) \/ Lost(value) \/ NextOf(W, value.left).tag # EndName
  PROVE  f[n]["value"] = Failure
<1>1. /\ n # 0 /\ NextOf(W, n) = t /\ n - 1 = Len(e) /\ f[n]["value"] = ValueAt(W, n, f)
  BY DEF IsAt
<1>2. ~(/\ name.ok /\ name.left > 0 /\ value.ok /\ value.left > 0
        /\ NextOf(W, value.left).tag = EndName)
  <2>1. ~(0 > 0)
    OBVIOUS
  <2> QED BY <2>1, Zenon DEF Lost
<1>3. name = f[n - 1]["value"]
  BY <1>1
<1>4. ValueAt(W, n, f) = Failure
  BY <1>1, <1>2, <1>3, MarksDiffer, Zenon DEF ValueAt
<1> QED BY <1>1, <1>4

\* Values of each kind, when they are cut.
LEMMA CutScalar ==
  ASSUME NEW W, NEW f, IsReading(W, f), NEW n \in 0 .. MaxDepth, NEW v \in Tokenizables[n],
         v \in Scalars, NEW p, NEW y, IsJoin(WrittenTokens, TokensOf[n][v], p, y), y # <<>>,
         NEW d, IsJoin(WrittenTokens, d, p, Ends), EndsWith(WrittenTokens, W, d)
  PROVE  Lost(f[Len(d)]["value"])
<1>1. PICK t : TokensOf[n][v] = <<t>>
  BY ScalarSent, ScalarToken
<1>2. p = <<>>
  <2>1. Len(p) < Len(<<t>>)
    BY <1>1, PartOfJoin
  <2>2. Len(<<t>>) = 1
    OBVIOUS
  <2>3. Len(p) \in Nat /\ p \in Seq(WrittenTokens)
    BY JoinParts
  <2>4. Len(p) = 0
    BY <2>1, <2>2, <2>3
  <2> QED BY <2>3, <2>4, EmptySeq
<1> QED BY <1>2, CutAtStart

LEMMA CutList ==
  ASSUME NEW W, NEW f, IsReading(W, f), Len(W) \in Nat, NEW n \in 0 .. MaxDepth, n # 0,
         ReadsValues(W, f, n - 1), CutsValues(W, f, n - 1), NEW v \in ListsOf(Tokenizables[n - 1]),
         NEW p, NEW y, IsJoin(WrittenTokens, TokensOf[n][v], p, y), y # <<>>,
         NEW d, IsJoin(WrittenTokens, d, p, Ends), EndsWith(WrittenTokens, W, d)
  PROVE  Lost(f[Len(d)]["value"])
<1>1. PICK m \in 0 .. MaxDepth : m = n - 1
  BY TokensAssumption
<1>2. PICK items \in Seq(Tokenizables[m]) :
        TokensOf[n][v] = <<Control(StartList)>> \o Joined(TokensOfItems(m, items))
                         \o <<Control(EndList)>>
  BY <1>1, ListSent
<1>3. PICK s, j, x : /\ s = <<Control(StartList)>> /\ j = Joined(TokensOfItems(m, items))
                     /\ x = <<Control(EndList)>> /\ s \in Seq(WrittenTokens)
                     /\ j \in Seq(WrittenTokens) /\ x \in Seq(WrittenTokens)
  BY ControlsWritten, TokensWritten, ItemsWritten
<1>4. PICK c, jx : /\ c = TokensOf[n][v] /\ IsJoin(WrittenTokens, jx, j, x)
                   /\ IsJoin(WrittenTokens, c, s, jx)
  <2>1. PICK sj : IsJoin(WrittenTokens, sj, s, j) /\ sj \in Seq(WrittenTokens) /\ sj = s \o j
    BY <1>3, JoinFacts
  <2>2. IsJoin(WrittenTokens, TokensOf[n][v], sj, x)
    BY <1>2, <1>3, <2>1 DEF IsJoin
  <2> QED BY <2>1, <2>2, JoinBehind
<1>5. CASE p = <<>>
  BY <1>5, CutAtStart
<1>6. CASE p # <<>>
  <2>1. PICK q : IsJoin(WrittenTokens, p, s, q) /\ IsJoin(WrittenTokens, jx, q, y)
    BY <1>3, <1>4, <1>6, FirstOfPart
  <2>2. PICK z : IsJoin(WrittenTokens, j, q, z)
    BY <1>3, <1>4, <2>1, PartOfOneMore
  <2>3. PICK g : IsJoin(WrittenTokens, g, q, Ends) /\ IsJoin(WrittenTokens, d, s, g)
    BY <2>1, JoinBehind
  <2>4. EndsWith(WrittenTokens, W, g)
    BY <2>3, EndsJoin
  <2>5. PICK r : r = f[Len(g)]["items"]
    OBVIOUS
  <2>6. IsPart(r, ArrivedItems(m, items), 1, Len(items), z)
    BY <1>1, <1>3, <2>2, <2>3, <2>4, <2>5, CutItems
  <2>7. IsAt(W, f, Len(d), Control(StartList), g) /\ Control(StartList).tag = StartList
    <3>1. g \in Seq(WrittenTokens)
      BY <2>3 DEF IsJoin
    <3> QED BY <1>3, <2>3, <3>1, ControlsWritten, AtToken
  <2>8. CASE r.ok
    <3>1. PICK as : r = Read(as, 0)
      BY <2>6, <2>8 DEF IsPart
    <3>2. HasRead(f, Len(g), "items", as, 0)
      BY <2>5, <3>1 DEF HasRead
    <3>3. HasRead(f, Len(d), "value", List(as), 0)
      BY <2>7, <3>2, ListOpens
    <3>4. f[Len(d)]["value"].left = 0
      <4>1. f[Len(d)]["value"] = Read(List(as), 0)
        BY <3>3 DEF HasRead
      <4>2. Read(List(as), 0).left = 0
        BY DEF Read
      <4> QED BY <4>1, <4>2
    <3> QED BY <3>4 DEF Lost
  <2>9. CASE ~r.ok
    <3>1. f[Len(d)]["value"] = Failure
      BY <2>5, <2>7, <2>9, NoListOpens
    <3> QED BY <3>1, ReadFacts DEF Lost
  <2> QED BY <2>8, <2>9
<1> QED BY <1>5, <1>6

LEMMA CutNamed ==
  ASSUME NEW W, NEW f, IsReading(W, f), NEW n \in 0 .. MaxDepth, n # 0,
         ReadsValues(W, f, n - 1), CutsValues(W, f, n - 1), NEW v \in Nameds(Tokenizables[n - 1]),
         NEW p, NEW y, IsJoin(WrittenTokens, TokensOf[n][v], p, y), y # <<>>,
         NEW d, IsJoin(WrittenTokens, d, p, Ends), EndsWith(WrittenTokens, W, d)
  PROVE  Lost(f[Len(d)]["value"])
<1>1. PICK m \in 0 .. MaxDepth : m = n - 1
  BY TokensAssumption
<1>2. PICK k \in Tokenizables[m], w \in Tokenizables[m] :
        TokensOf[n][v] = <<Control(StartName)>> \o TokensOf[m][k] \o TokensOf[m][w]
                         \o <<Control(EndName)>>
  BY <1>1, NamedSent
<1>3. PICK s, i, j, x : /\ s = <<Control(StartName)>> /\ i = TokensOf[m][k]
                        /\ j = TokensOf[m][w] /\ x = <<Control(EndName)>>
                        /\ s \in Seq(WrittenTokens) /\ i \in Seq(WrittenTokens)
                        /\ j \in Seq(WrittenTokens) /\ x \in Seq(WrittenTokens)
  <2>1. TokensOf[m][k] \in Seq(WrittenTokens) /\ TokensOf[m][w] \in Seq(WrittenTokens)
    BY TokensWritten DEF IsWritten
  <2> QED BY <2>1, ControlsWritten
<1>4. PICK c, ijx, jx : /\ c = TokensOf[n][v] /\ IsJoin(WrittenTokens, c, s, ijx)
                        /\ IsJoin(WrittenTokens, ijx, i, jx) /\ IsJoin(WrittenTokens, jx, j, x)
  <2>1. PICK si : IsJoin(WrittenTokens, si, s, i) /\ si \in Seq(WrittenTokens) /\ si = s \o i
    BY <1>3, JoinFacts
  <2>2. PICK sij : IsJoin(WrittenTokens, sij, si, j) /\ sij \in Seq(WrittenTokens) /\ sij = si \o j
    BY <1>3, <2>1, JoinFacts
  <2>3. IsJoin(WrittenTokens, TokensOf[n][v], sij, x)
    BY <1>2, <1>3, <2>1, <2>2 DEF IsJoin
  <2>4. PICK jx : IsJoin(WrittenTokens, jx, j, x) /\ IsJoin(WrittenTokens, TokensOf[n][v], si, jx)
    BY <2>2, <2>3, JoinBehind
  <2>5. PICK ijx : IsJoin(WrittenTokens, ijx, i, jx) /\ IsJoin(WrittenTokens, TokensOf[n][v], s, ijx)
    BY <2>1, <2>4, JoinBehind
  <2> QED BY <2>4, <2>5
<1>5. ReadsValues(W, f, m) /\ CutsValues(W, f, m)
  BY <1>1
<1>6. CASE p = <<>>
  BY <1>6, CutAtStart
<1>7. CASE p # <<>>
  <2>1. PICK q : IsJoin(WrittenTokens, p, s, q) /\ IsJoin(WrittenTokens, ijx, q, y)
    BY <1>3, <1>4, <1>7, FirstOfPart
  <2>2. PICK g : IsJoin(WrittenTokens, g, q, Ends) /\ IsJoin(WrittenTokens, d, s, g)
    BY <2>1, JoinBehind
  <2>3. EndsWith(WrittenTokens, W, g)
    BY <2>2, EndsJoin
  <2>4. IsAt(W, f, Len(d), Control(StartName), g) /\ Control(StartName).tag = StartName
    <3>1. g \in Seq(WrittenTokens)
      BY <2>2 DEF IsJoin
    <3> QED BY <1>3, <2>2, <3>1, ControlsWritten, AtToken
  <2>5. PICK name, value : name = f[Len(g)]["value"] /\ value = f[name.left]["value"]
    OBVIOUS
  <2>6. Lost(name) \/ Lost(value) \/ NextOf(W, value.left).tag # EndName
\* The part ends in the name,
    <3>1. CASE \E z \in Seq(WrittenTokens) \ {<<>>} : IsJoin(WrittenTokens, i, q, z)
      BY <1>3, <1>5, <2>2, <2>3, <2>5, <3>1 DEF CutsValues
\* in the value, or behind it.
    <3>2. CASE \E z \in Seq(WrittenTokens) : IsJoin(WrittenTokens, q, i, z) /\ IsJoin(WrittenTokens, jx, z, y)
      <4>1. PICK z : IsJoin(WrittenTokens, q, i, z) /\ IsJoin(WrittenTokens, jx, z, y)
        BY <3>2
      <4>2. PICK h : IsJoin(WrittenTokens, h, z, Ends) /\ IsJoin(WrittenTokens, g, i, h)
        BY <2>2, <4>1, JoinBehind
      <4>3. EndsWith(WrittenTokens, W, h)
        BY <2>3, <4>2, EndsJoin
      <4>4. name = Read(Arrived[m][k], Len(h))
        BY <1>3, <1>5, <2>3, <2>5, <4>2 DEF ReadsValues
      <4>5. value = f[Len(h)]["value"]
        BY <2>5, <4>4, ReadFacts
      <4>6. PICK others : IsJoin(WrittenTokens, j, z, others)
        BY <1>3, <1>4, <4>1, PartOfOneMore
      <4>7. CASE others # <<>>
        <5>1. Lost(value)
          BY <1>3, <1>5, <4>2, <4>3, <4>5, <4>6, <4>7 DEF CutsValues
        <5> QED BY <5>1
      <4>8. CASE others = <<>>
        <5>1. z = j
          BY <4>6, <4>8, ConcatEmptySeq DEF IsJoin
        <5>2. value = Read(Arrived[m][w], Len(Ends))
          BY <1>3, <1>5, <4>2, <4>3, <4>5, <5>1 DEF ReadsValues
        <5>3. value.left = Len(Ends)
          BY <5>2, ReadFacts
        <5>4. NextOf(W, Len(Ends)).tag = EndList
          <6>1. EndsWith(WrittenTokens, W, Ends)
            BY <4>2, <4>3, EndsJoin
          <6> QED BY <6>1, EndIsAt DEF IsAt
        <5>5. EndList # EndName
          BY DEF EndList, EndName
        <5> QED BY <5>3, <5>4, <5>5
      <4> QED BY <4>7, <4>8
    <3>3. \/ \E z \in Seq(WrittenTokens) \ {<<>>} : IsJoin(WrittenTokens, i, q, z)
          \/ \E z \in Seq(WrittenTokens) : IsJoin(WrittenTokens, q, i, z) /\ IsJoin(WrittenTokens, jx, z, y)
      BY <1>4, <2>1, PartCases
    <3> QED BY <3>1, <3>2, <3>3, Zenon
  <2>7. f[Len(d)]["value"] = Failure
    BY <2>4, <2>5, <2>6, NoNameOpens
  <2> QED BY <2>7, ReadFacts DEF Lost
<1> QED BY <1>6, <1>7

\* A value that is cut is not read, or takes the end of the list for its own.
LEMMA ValuesCut ==
  ASSUME NEW W, NEW f, IsReading(W, f), Len(W) \in Nat, NEW n \in 0 .. MaxDepth
  PROVE  CutsValues(W, f, n)
<1> DEFINE S == {m \in Nat : m <= MaxDepth => CutsValues(W, f, m)}
<1>1. 0 \in S
  <2>1. ASSUME NEW v \in Tokenizables[0], NEW p, NEW y, NEW d,
               IsJoin(WrittenTokens, TokensOf[0][v], p, y), y # <<>>,
               IsJoin(WrittenTokens, d, p, Ends), EndsWith(WrittenTokens, W, d)
        PROVE  Lost(f[Len(d)]["value"])
    <3>1. 0 \in 0 .. MaxDepth
      BY TokensAssumption
    <3>2. v \in Scalars
      BY <3>1, ScalarsOnly
    <3> QED BY <2>1, <3>1, <3>2, CutScalar
  <2>2. CutsValues(W, f, 0)
    BY <2>1 DEF CutsValues
  <2> QED BY <2>2
<1>2. ASSUME NEW m \in Nat, m \in S  PROVE m + 1 \in S
  <2> SUFFICES ASSUME m + 1 <= MaxDepth  PROVE CutsValues(W, f, m + 1)
    OBVIOUS
  <2>1. PICK k \in 0 .. MaxDepth : k = m + 1 /\ k # 0 /\ k - 1 = m
    BY TokensAssumption
  <2>2. k - 1 \in 0 .. MaxDepth /\ CutsValues(W, f, k - 1)
    BY <1>2, <2>1, TokensAssumption
  <2>3. ReadsValues(W, f, k - 1)
    BY <2>2, ValuesRead
  <2>4. ASSUME NEW v \in Tokenizables[k], NEW p, NEW y, NEW d,
               IsJoin(WrittenTokens, TokensOf[k][v], p, y), y # <<>>,
               IsJoin(WrittenTokens, d, p, Ends), EndsWith(WrittenTokens, W, d)
        PROVE  Lost(f[Len(d)]["value"])
    <3>1. CASE v \in Scalars
      BY <2>4, <3>1, CutScalar
    <3>2. CASE v \in ListsOf(Tokenizables[k - 1])
      BY <2>1, <2>2, <2>3, <2>4, <3>2, CutList
    <3>3. CASE v \in Nameds(Tokenizables[k - 1])
      BY <2>1, <2>2, <2>3, <2>4, <3>3, CutNamed
    <3> QED BY <3>1, <3>2, <3>3, Made
  <2>5. CutsValues(W, f, k)
    BY <2>4 DEF CutsValues
  <2> QED BY <2>1, <2>5
<1>3. n \in S
  <2> HIDE DEF S
  <2> QED BY <1>1, <1>2, SetInduction
<1> QED BY <1>3

\* Bytes on the wire and their parts are sequences of numbers.
LEMMA BytesWritten ==
  ASSUME NEW tokens \in Seq(WrittenTokens)
  PROVE  SerializeTokens(tokens) \in Seq(Nat)
<1>1. PICK n, u : AreLaid(tokens, n, u)
  BY TokensLaid
<1>2. /\ n \in Nat /\ u[n + 1] = <<>> /\ u[1] = SerializeTokens(tokens)
      /\ \A i \in 1 .. n : IsJoin(Nat, u[i], SerializeToken(tokens[i]), u[i + 1])
  BY <1>1 DEF AreLaid
<1>3. CASE n = 0
  <2>1. n + 1 = 1 /\ <<>> \in Seq(Nat)
    BY <1>3
  <2> QED BY <1>2, <2>1
<1>4. CASE n # 0
  <2>1. 1 \in 1 .. n
    BY <1>2, <1>4
  <2>2. PICK c, a, b : c = u[1] /\ IsJoin(Nat, c, a, b)
    BY <1>2, <2>1
  <2>3. c \in Seq(Nat)
    BY <2>2, JoinParts
  <2> QED BY <1>2, <2>2, <2>3
<1> QED BY <1>3, <1>4

LEMMA PartOfSeq ==
  ASSUME NEW S, NEW c \in Seq(S), NEW n \in 0 .. Len(c) - 1
  PROVE  \E z : IsJoin(S, c, SubSeq(c, 1, n), z) /\ z # <<>>
<1>0. PICK l \in Nat : l = Len(c)
  OBVIOUS
<1>1. PICK z : l = Len(c) /\ z = SubSeq(c, n + 1, l)
  BY <1>0
<1>2. SubSeq(c, 1, n) \in Seq(S)
  <2>1. \A i \in 1 .. n : c[i] \in S
    BY ElementOfSeq
  <2> QED BY <2>1, SubSeqProperties
<1>3. z \in Seq(S) /\ Len(z) # 0
  <2>1. \A i \in n + 1 .. l : c[i] \in S
    BY <1>1, ElementOfSeq
  <2>2. z \in Seq(S) /\ Len(z) = (IF n + 1 <= l THEN l - (n + 1) + 1 ELSE 0)
    BY <1>1, <2>1, SubSeqProperties
  <2> QED BY <1>1, <2>2
<1>4. c = SubSeq(c, 1, n) \o z
  <2>1. 1 \in 1 .. Len(c) + 1 /\ n \in 1 - 1 .. Len(c) /\ l \in n .. Len(c)
    BY <1>1
  <2>2. SubSeq(c, 1, n) \o SubSeq(c, n + 1, l) = SubSeq(c, 1, l)
    BY <2>1, ConcatAdjacentSubSeq
  <2>3. SubSeq(c, 1, l) = c
    BY <1>1, SubSeqFull
  <2> QED BY <1>1, <2>2, <2>3
<1>5. z # <<>>
  BY <1>3, EmptySeq
<1> QED BY <1>2, <1>3, <1>4, <1>5 DEF IsJoin

\* The tokens of a list without its first and its last one, and what arrives of it.
LEMMA ListTokensAre ==
  ASSUME NEW v, Tokenizable(v), v.kind = "list"
  PROVE  \E m \in 0 .. MaxDepth, j \in Seq(WrittenTokens) :
           /\ v.items \in Seq(Tokenizables[m]) /\ j = Joined(TokensOfItems(m, v.items))
           /\ UnSurroundWithList(Tokenize(v)) = j
           /\ Arrived[MaxDepth][v] = List(ArrivedItems(m, v.items))
<1>1. PICK m \in 0 .. MaxDepth : /\ m = MaxDepth - 1 /\ MaxDepth # 0 /\ MaxDepth \in 0 .. MaxDepth
                                 /\ v \in ListsOf(Tokenizables[MaxDepth - 1])
  BY ListTokens, TokensAssumption
<1>2. /\ v.items \in Seq(Tokenizables[m])
      /\ Tokenize(v) = <<Control(StartList)>> \o Joined(TokensOfItems(m, v.items))
                       \o <<Control(EndList)>>
      /\ Arrived[MaxDepth][v] = List(ArrivedItems(m, v.items))
  BY <1>1, ListSent DEF Tokenize
<1>3. PICK j \in Seq(WrittenTokens) : j = Joined(TokensOfItems(m, v.items))
  BY <1>2, TokensWritten, ItemsWritten
<1>4. UnSurroundWithList(Tokenize(v)) = j
  <2>1. <<Control(StartList)>> \in Seq(WrittenTokens) /\ <<Control(EndList)>> \in Seq(WrittenTokens)
    BY ControlsWritten
  <2> QED BY <1>2, <1>3, <2>1, SurroundedAgain
<1> QED BY <1>2, <1>3, <1>4

\* A list the last items of which are missing, read from a part of its bytes.
ReadsFewer(r, A, k) ==
  ~r.ok \/ \E m \in 0 .. k - 1 : r.value = List(SubSeq(A, 1, m))

\* What is read of the list that is put around a part of the tokens of a list.
LEMMA PartOfTokens ==
  ASSUME NEW n \in 0 .. MaxDepth, NEW items \in Seq(Tokenizables[n]), NEW q, NEW z, z # <<>>,
         IsJoin(WrittenTokens, Joined(TokensOfItems(n, items)), q, z)
  PROVE  ReadsFewer(DeTokenize(SurroundWithList(q)), ArrivedItems(n, items), Len(items))
<1>1. PICK k \in Nat : k = Len(items)
  OBVIOUS
<1>2. PICK s, x : /\ s = <<Control(StartList)>> /\ x = Ends /\ q \in Seq(WrittenTokens)
                  /\ s \in Seq(WrittenTokens) /\ x \in Seq(WrittenTokens)
  BY ControlsWritten DEF IsJoin, Ends
<1>3. PICK W, d : /\ W = SurroundWithList(q) /\ IsJoin(WrittenTokens, d, q, x)
                  /\ IsJoin(WrittenTokens, W, s, d) /\ W \in Seq(WrittenTokens)
  <2>1. PICK sq : IsJoin(WrittenTokens, sq, s, q) /\ sq = s \o q /\ sq \in Seq(WrittenTokens)
    BY <1>2, JoinFacts
  <2>2. PICK W : IsJoin(WrittenTokens, W, sq, x) /\ W = sq \o x /\ W \in Seq(WrittenTokens)
    BY <1>2, <2>1, JoinFacts
  <2>3. W = SurroundWithList(q)
    BY <1>2, <2>1, <2>2 DEF SurroundWithList, Ends
  <2>4. PICK d : IsJoin(WrittenTokens, d, q, x) /\ IsJoin(WrittenTokens, W, s, d)
    BY <2>1, <2>2, JoinBehind
  <2> QED BY <2>2, <2>3, <2>4
<1>4. Len(W) \in Nat
  BY <1>3, LenProperties
<1>5. PICK f : /\ \A i \in 0 .. Len(W) : /\ f[i]["value"] = ValueAt(W, i, f)
                                         /\ f[i]["items"] = ItemsAt(W, i, f)
               /\ DeTokenize(W) = f[Len(W)]["value"]
  BY <1>4, DeTokenizeIs
<1>6. IsReading(W, f)
  BY <1>5, Zenon DEF IsReading
<1>7. ReadsValues(W, f, n) /\ CutsValues(W, f, n)
  BY <1>4, <1>6, ValuesRead, ValuesCut
<1>8. EndsWith(WrittenTokens, W, W) /\ EndsWith(WrittenTokens, W, d) /\ d \in Seq(WrittenTokens)
  <2>1. EndsWith(WrittenTokens, W, W)
    BY <1>3, EndsWithItself
  <2>2. EndsWith(WrittenTokens, W, d)
    BY <1>3, <2>1, EndsJoin
  <2>3. d \in Seq(WrittenTokens)
    BY <1>3 DEF IsJoin
  <2> QED BY <2>1, <2>2, <2>3
<1>9. PICK A : A = ArrivedItems(n, items)
  OBVIOUS
<1>10. PICK r : r = f[Len(d)]["items"]
  OBVIOUS
<1>11. IsPart(r, A, 1, k, z)
  BY <1>1, <1>2, <1>3, <1>4, <1>6, <1>7, <1>8, <1>9, <1>10, CutItems
<1>12. IsAt(W, f, Len(W), Control(StartList), d) /\ Control(StartList).tag = StartList
  BY <1>2, <1>3, <1>6, <1>8, ControlsWritten, AtToken
<1>13. CASE ~r.ok
  <2>1. f[Len(W)]["value"] = Failure
    BY <1>10, <1>12, <1>13, NoListOpens
  <2> QED BY <1>3, <1>5, <2>1, ReadFacts DEF ReadsFewer
<1>14. CASE r.ok
  <2>1. PICK m \in 1 - 1 .. k : r = Read(SubSeq(A, 1, m), 0) /\ m < k
    BY <1>11, <1>14 DEF IsPart
  <2>2. HasRead(f, Len(d), "items", SubSeq(A, 1, m), 0)
    BY <1>10, <2>1 DEF HasRead
  <2>3. HasRead(f, Len(W), "value", List(SubSeq(A, 1, m)), 0)
    BY <1>12, <2>2, ListOpens
  <2>4. DeTokenize(W).value = List(SubSeq(A, 1, m))
    BY <1>5, <2>3 DEF HasRead, Read
  <2>5. m \in 0 .. k - 1
    BY <2>1
  <2> QED BY <1>1, <1>3, <1>9, <2>4, <2>5 DEF ReadsFewer
<1> QED BY <1>13, <1>14

\* Of a part of the bytes of a list that is not all of them, there is read
\* nothing or a list that lacks the last items.
LEMMA PartOfList ==
  ASSUME NEW v, Tokenizable(v), v.kind = "list", NEW n \in 0 .. Len(ToBytes(v)) - 1
  PROVE  \E m \in 0 .. MaxDepth :
           /\ v.items \in Seq(Tokenizables[m])
           /\ ReadsFewer(FromBytes(SubSeq(ToBytes(v), 1, n)), ArrivedItems(m, v.items), Len(v.items))
<1>1. PICK m \in 0 .. MaxDepth, j \in Seq(WrittenTokens) :
        /\ v.items \in Seq(Tokenizables[m]) /\ j = Joined(TokensOfItems(m, v.items))
        /\ UnSurroundWithList(Tokenize(v)) = j
  BY ListTokensAre
<1>2. PICK c \in Seq(Nat) : c = ToBytes(v) /\ c = SerializeTokens(j)
  BY <1>1, BytesWritten DEF ToBytes
<1>3. PICK w, z : w = SubSeq(c, 1, n) /\ IsJoin(Nat, c, w, z) /\ z # <<>>
  BY <1>2, PartOfSeq
<1>4. PICK r : r = DeSerializeTokens(w) /\ ReadsPart(r, j)
  BY <1>2, <1>3, TokensCut
<1>5. CASE ~r.ok
  <2>1. FromBytes(w) = Failure
    BY <1>4, <1>5, Zenon DEF FromBytes
  <2> QED BY <1>1, <1>2, <1>3, <2>1, ReadFacts DEF ReadsFewer
<1>6. CASE r.ok
  <2>1. PICK q, others : IsJoin(WrittenTokens, j, q, others) /\ others # <<>> /\ r = Read(q, 0)
    BY <1>4, <1>6 DEF ReadsPart
  <2>2. FromBytes(w) = DeTokenize(SurroundWithList(q))
    <3>1. r.value = q
      BY <2>1 DEF Read
    <3> QED BY <1>4, <1>6, <3>1, Zenon DEF FromBytes
  <2>3. ReadsFewer(FromBytes(w), ArrivedItems(m, v.items), Len(v.items))
    BY <1>1, <2>1, <2>2, PartOfTokens
  <2> QED BY <1>1, <1>2, <1>3, <2>3
<1> QED BY <1>5, <1>6

-----------------------------------------------------------------------------
(***************************************************************************)
(* Answers                                                                 *)
(***************************************************************************)

ResultIs(read, values, status) == read = [ok |-> TRUE, values |-> values, status |-> status]

\* What the host reads from a result, and from a call that closes the session.
LEMMA ResultRead ==
  ASSUME NEW n \in 0 .. MaxDepth, NEW values, NEW status \in 0 .. 255,
         MethodResultToValue(values, status) \in Tokenizables[n]
  PROVE  \E m \in 0 .. MaxDepth :
           /\ values \in Seq(Tokenizables[m])
           /\ ResultIs(MethodResultFromValue(Arrived[n][MethodResultToValue(values, status)]),
                       ArrivedItems(m, values), status)
<1>1. PICK items : items = <<List(values), Command(EndOfData), StatusList(status)>>
  OBVIOUS
<1>2. /\ items[1] = List(values) /\ items[2] = Command(EndOfData)
      /\ items[3] = StatusList(status) /\ Len(items) = 3
  BY <1>1
<1>3. MethodResultToValue(values, status) = List(items)
  BY <1>1 DEF MethodResultToValue
<1>4. PICK k \in 0 .. MaxDepth :
        items \in Seq(Tokenizables[k]) /\ Arrived[n][List(items)] = List(ArrivedItems(k, items))
  BY <1>3, ListKept
<1>5. PICK S, a : S = Tokenizables[k] /\ a = ArrivedItems(k, items)
  OBVIOUS
<1>6. AreKept(k, S, items, a)
  BY <1>4, <1>5, ItemsKept
<1>7. Len(a) = 3 /\ \A i \in 1 .. 3 : a[i] = Arrived[k][items[i]]
  BY <1>2, <1>6 DEF AreKept
<1>8. \A i \in 1 .. 3 : items[i] \in S
  <2>1. items \in Seq(S) /\ Len(items) = 3
    BY <1>2, <1>4, <1>5
  <2>2. \A i \in 1 .. Len(items) : items[i] \in S
    BY <2>1, ElementOfSeq
  <2> QED BY <2>1, <2>2, Zenon
<1>9. 1 \in 1 .. 3 /\ 2 \in 1 .. 3 /\ 3 \in 1 .. 3
  OBVIOUS
<1>10. a[2] = Command(EndOfData)
  <2>1. items[2] \in Tokenizables[k]
    BY <1>5, <1>8, <1>9
  <2>2. items[2].kind = "command"
    BY <1>2 DEF Command
  <2>3. Arrived[k][items[2]] = items[2]
    BY <2>1, <2>2, ScalarKept
  <2> QED BY <1>2, <1>7, <1>9, <2>3
<1>11. PICK m \in 0 .. MaxDepth :
         values \in Seq(Tokenizables[m]) /\ a[1] = List(ArrivedItems(m, values))
  <2>1. List(values) \in Tokenizables[k] /\ a[1] = Arrived[k][List(values)]
    BY <1>2, <1>5, <1>7, <1>8, <1>9
  <2> QED BY <2>1, ListKept
<1>12. IsStatusList(a[3]) /\ StatusOf(a[3]) = status
  <2>1. StatusList(status) \in Tokenizables[k] /\ a[3] = Arrived[k][StatusList(status)]
    BY <1>2, <1>5, <1>7, <1>8, <1>9
  <2> QED BY <2>1, StatusKept
<1>13. PICK v : v = Arrived[n][List(items)]
  OBVIOUS
<1>14. v.kind = "list" /\ v.items = a
  BY <1>4, <1>5, <1>13 DEF List
<1>15. PICK arrived : arrived = ArrivedItems(m, values)
  OBVIOUS
<1>16. a[1].kind = "list" /\ a[1].items = arrived /\ a[1] # Command(Call)
  BY <1>11, <1>15 DEF List, Command
<1>17. ~(Len(v.items) < 3)
  <2>1. \A l : l = 3 => ~(l < 3)
    OBVIOUS
  <2> QED BY <1>7, <1>14, <2>1, Zenon
<1>18. MethodResultFromValue(v) =
         [ok |-> TRUE, values |-> v.items[1].items, status |-> StatusOf(v.items[3])]
  BY <1>10, <1>12, <1>14, <1>16, <1>17, Zenon DEF MethodResultFromValue, Is
<1>19. ResultIs(MethodResultFromValue(v), arrived, status)
  BY <1>12, <1>14, <1>16, <1>18, Zenon DEF ResultIs
<1> QED BY <1>3, <1>11, <1>13, <1>15, <1>19

LEMMA ClosingRead ==
  ASSUME NEW v, NEW c, c = MethodCallFromValue(v), c.ok, c.methodId = CloseSession,
         NEW l \in Nat, l = Len(v.items)
  PROVE  ResultIs(MethodResultFromValue(v), <<>>, 63)
<1>1. Is(v, "list") /\ Len(v.items) >= 6 /\ v.items[1] = Command(Call)
  BY ReadFacts, Zenon DEF MethodCallFromValue
<1>2. ~(Len(v.items) < 3)
  <2>1. l >= 6 => ~(l < 3)
    OBVIOUS
  <2> QED BY <1>1, <2>1, Zenon
<1>3. MethodResultFromValue(v) = [ok |-> TRUE, values |-> <<>>, status |-> 63]
  BY <1>1, <1>2, Zenon DEF MethodResultFromValue
<1> QED BY <1>3, Zenon DEF ResultIs

\* A list that lacks items is neither a call nor a result.
LEMMA FewerIsNoCall ==
  ASSUME NEW items, NEW l \in Nat, l = Len(items), l < 6
  PROVE  MethodCallFromValue(List(items)) = Failure
<1>1. ~(Len(List(items).items) >= 6)
  <2>1. List(items).items = items
    BY DEF List
  <2>2. ~(l >= 6)
    OBVIOUS
  <2> QED BY <2>1, <2>2, Zenon
<1> QED BY <1>1, Zenon DEF MethodCallFromValue

LEMMA FewerIsNoResult ==
  ASSUME NEW items, NEW l \in Nat, l = Len(items), l < 6, l < 3 \/ items[1] = Command(Call)
  PROVE  MethodResultFromValue(List(items)) = Failure
<1>1. List(items).items = items
  BY DEF List
<1>2. ~MethodCallFromValue(List(items)).ok
  BY FewerIsNoCall, ReadFacts
<1>3. CASE l < 3
  BY <1>1, <1>3, Zenon DEF MethodResultFromValue
<1>4. CASE items[1] = Command(Call)
  BY <1>1, <1>2, <1>4, Zenon DEF MethodResultFromValue
<1> QED BY <1>3, <1>4

\* What the host makes of the bytes of a reply.
ResultOf(c, wired) ==
  LET value == FromBytes(wired)
  IN IF ~value.ok THEN Failure
     ELSE IF c.level = "session" THEN MethodResultFromValue(value.value)
     ELSE MethodCallFromValue(value.value)
OutcomeOf(c, result) ==
  IF ~result.ok THEN Failure
  ELSE IF result.status \in Failures THEN [ok |-> FALSE, status |-> result.status]
  ELSE Unpack(result.values, c.results, c.optionalResults)

\* The answer as the host reads it: its values as they arrive, and its status.
AnswerRead(m, c, a, packed) ==
  /\ packed \in Seq(Tokenizables[m])
  /\ ResultOf(c, ToBytes(AnswerTo(c, a))).ok
  /\ ResultOf(c, ToBytes(AnswerTo(c, a))).values = ArrivedItems(m, packed)
  /\ ResultOf(c, ToBytes(AnswerTo(c, a))).status = a.status

\* A whole answer is read as it was given.
LEMMA AnswerIsRead ==
  ASSUME NEW c \in Calls, NEW a \in Answers
  PROVE  \E m \in 0 .. MaxDepth : AnswerRead(m, c, a, Pack(a.required, a.optional))
<1>0. PICK status \in 0 .. 255 : status = a.status
  BY MethodsAssumption, Zenon
<1>1. PICK packed, sent : packed = Pack(a.required, a.optional) /\ sent = AnswerTo(c, a)
  OBVIOUS
<1>2. Tokenizable(sent)
  BY <1>1, AnswersAssumption
<1>3. PICK value, v : value = FromBytes(ToBytes(sent)) /\ v = Arrived[MaxDepth][sent]
  OBVIOUS
<1>4. value.ok /\ value.value = v
  <2>1. sent.kind = "list"
    BY <1>1, Zenon DEF AnswerTo, MethodCallToValue, MethodResultToValue, List
  <2>2. value = Read(v, 0)
    BY <1>2, <1>3, <2>1, ListsArrive
  <2> QED BY <2>2, ReadFacts
<1>5. MaxDepth \in 0 .. MaxDepth /\ sent \in Tokenizables[MaxDepth]
  BY <1>2, TokensAssumption DEF Tokenizable
<1>6. PICK r : r = ResultOf(c, ToBytes(sent))
  OBVIOUS
<1>7. CASE c.level = "session"
  <2>1. sent = MethodResultToValue(packed, status)
    BY <1>0, <1>1, <1>7, Zenon DEF AnswerTo
  <2>2. PICK m \in 0 .. MaxDepth :
          /\ packed \in Seq(Tokenizables[m])
          /\ ResultIs(MethodResultFromValue(v), ArrivedItems(m, packed), status)
    BY <1>3, <1>5, <2>1, ResultRead
  <2>3. r = MethodResultFromValue(v)
    BY <1>3, <1>4, <1>6, <1>7, Zenon DEF ResultOf
  <2>4. r.ok /\ r.values = ArrivedItems(m, packed) /\ r.status = status
    BY <2>2, <2>3 DEF ResultIs
  <2> QED BY <1>0, <1>1, <1>6, <2>2, <2>4 DEF AnswerRead
<1>8. CASE c.level # "session"
  <2>1. PICK i, j : i = SessionManagerId /\ j = c.methodId
    OBVIOUS
  <2>2. sent = MethodCallToValue(i, j, packed, status)
    BY <1>0, <1>1, <1>8, <2>1, Zenon DEF AnswerTo
  <2>3. Len(i) >= 8 /\ Len(j) >= 8
    <3>1. Len(i) = 8
      BY <2>1 DEF SessionManagerId
    <3>2. Len(j) = 8
      BY <2>1, MethodsAssumption, Zenon
    <3>3. \A l : l = 8 => l >= 8
      OBVIOUS
    <3> QED BY <3>1, <3>2, <3>3, Zenon
  <2>4. PICK m \in 0 .. MaxDepth :
          /\ packed \in Seq(Tokenizables[m])
          /\ CallIs(MethodCallFromValue(v), i, j, ArrivedItems(m, packed), status)
    BY <1>3, <1>5, <2>2, <2>3, CallRead
  <2>5. r = MethodCallFromValue(v)
    BY <1>3, <1>4, <1>6, <1>8, Zenon DEF ResultOf
  <2>6. r.ok /\ r.values = ArrivedItems(m, packed) /\ r.status = status
    BY <2>4, <2>5 DEF CallIs
  <2> QED BY <1>0, <1>1, <1>6, <2>4, <2>6 DEF AnswerRead
<1> QED BY <1>7, <1>8

\* A closed session is an error on the host.
LEMMA ClosingFails ==
  ASSUME NEW c \in Calls, c.level = "session", NEW args, NEW sent, Tokenizable(sent),
         sent = MethodCallToValue(SessionManagerId, CloseSession, args, Success)
  PROVE  ~OutcomeOf(c, ResultOf(c, ToBytes(sent))).ok
<1>3. PICK value, v : value = FromBytes(ToBytes(sent)) /\ v = Arrived[MaxDepth][sent]
  OBVIOUS
<1>4. value.ok /\ value.value = v
  <2>1. sent.kind = "list"
    BY DEF MethodCallToValue, List
  <2>2. value = Read(v, 0)
    BY <1>3, <2>1, ListsArrive
  <2> QED BY <2>2, ReadFacts
<1>5. PICK i, j : i = SessionManagerId /\ j = CloseSession
  OBVIOUS
<1>6. sent = MethodCallToValue(i, j, args, 0)
  BY <1>5 DEF Success
<1>7. PICK m \in 0 .. MaxDepth :
        /\ args \in Seq(Tokenizables[m])
        /\ CallIs(MethodCallFromValue(v), i, j, ArrivedItems(m, args), 0)
  <2>1. MaxDepth \in 0 .. MaxDepth /\ sent \in Tokenizables[MaxDepth] /\ 0 \in 0 .. 255
    BY TokensAssumption DEF Tokenizable
  <2>2. Len(i) >= 8 /\ Len(j) >= 8
    BY <1>5 DEF SessionManagerId, CloseSession
  <2> QED BY <1>3, <1>6, <2>1, <2>2, CallRead
<1>8. PICK read : read = MethodCallFromValue(v) /\ read.ok /\ read.methodId = CloseSession
  BY <1>5, <1>7 DEF CallIs
<1>9. PICK l \in Nat : l = Len(v.items)
  <2>1. PICK items : items = <<Command(Call), Bytes(i), Bytes(j), List(args),
                               Command(EndOfData), StatusList(0)>>
    OBVIOUS
  <2>2. sent = List(items)
    BY <1>6, <2>1 DEF MethodCallToValue
  <2>3. MaxDepth \in 0 .. MaxDepth /\ List(items) \in Tokenizables[MaxDepth]
    BY <2>2, TokensAssumption DEF Tokenizable
  <2>4. PICK k \in 0 .. MaxDepth :
          items \in Seq(Tokenizables[k])
          /\ Arrived[MaxDepth][List(items)] = List(ArrivedItems(k, items))
    BY <2>3, ListKept
  <2>5. PICK S, b : S = Tokenizables[k] /\ b = ArrivedItems(k, items)
    OBVIOUS
  <2>6. AreKept(k, S, items, b)
    BY <2>4, <2>5, ItemsKept
  <2>7. v.items = b
    BY <1>3, <2>2, <2>4, <2>5 DEF List
  <2> QED BY <2>1, <2>6, <2>7 DEF AreKept
<1>10. ResultIs(MethodResultFromValue(v), <<>>, 63)
  BY <1>8, <1>9, ClosingRead
<1>11. PICK r : r = ResultOf(c, ToBytes(sent))
  OBVIOUS
<1>12. r = MethodResultFromValue(v)
  BY <1>3, <1>4, <1>11, Zenon DEF ResultOf
<1>13. r.ok /\ r.status \in Failures
  <2>1. 63 \in Failures
    BY DEF Failures
  <2> QED BY <1>10, <1>12, <2>1 DEF ResultIs
<1>14. OutcomeOf(c, r) = [ok |-> FALSE, status |-> r.status]
  BY <1>13, Zenon DEF OutcomeOf
<1> QED BY <1>11, <1>14

\* What the values of an answer are on the host.
DeliveredBy(c, a) ==
  [ok |-> TRUE, required |-> AllSent(SubSeq(a.required, 1, c.results)),
   optional |-> [k \in 1 .. c.optionalResults |->
     IF k \in DOMAIN a.optional THEN Sent(a.optional[k]) ELSE Nothing]]

\* The answer a to the call c arrives, with o for what the host ends with.
ArrivesAs(c, a, o) ==
  IF a.status \in Failures THEN o = [ok |-> FALSE, status |-> a.status]
  ELSE /\ Len(a.required) = c.results => o = DeliveredBy(c, a)
       /\ Len(a.required) < c.results /\ Range(a.optional) \subseteq {Nothing} => o = Failure

\* The values a method returns, when the drive gives as many as it needs, and when not.
LEMMA EnoughValues ==
  ASSUME NEW c \in Calls, NEW a \in Answers, NEW m \in 0 .. MaxDepth,
         Pack(a.required, a.optional) \in Seq(Tokenizables[m]), Len(a.required) = c.results
  PROVE  Unpack(ArrivedItems(m, Pack(a.required, a.optional)), c.results, c.optionalResults)
           = DeliveredBy(c, a)
<1>1. PICK R, O : R = Range(a.required) /\ O = Range(a.optional)
  OBVIOUS
<1>2. a.required \in Seq(R) /\ a.optional \in Seq(O)
  BY <1>1, MethodsAssumption, Zenon
<1>3. PICK n \in Nat : n = c.optionalResults
  BY MethodsAssumption, Zenon
<1>4. PICK all \in Nat : all = Len(a.optional) /\ DOMAIN a.optional = 1 .. all
  BY <1>2
<1>5. PICK values : values = ArrivedItems(m, Pack(a.required, a.optional))
  OBVIOUS
<1>6. AllArrive(values, a.required, a.optional, n)
  BY <1>2, <1>3, <1>5, ArgumentsArrive
<1>7. Unpack(values, c.results, n)
        = [ok |-> TRUE, required |-> AllSent(a.required),
           optional |-> [k \in 1 .. n |->
             IF k \in 1 .. all /\ a.optional[k] # Nothing THEN Sent(a.optional[k]) ELSE Nothing]]
  BY <1>4, <1>6, Zenon DEF AllArrive
<1>8. SubSeq(a.required, 1, c.results) = a.required
  <2>1. SubSeq(a.required, 1, Len(a.required)) = a.required
    BY <1>2, SubSeqFull
  <2> QED BY <2>1, Zenon
<1>9. [k \in 1 .. n |->
        IF k \in 1 .. all /\ a.optional[k] # Nothing THEN Sent(a.optional[k]) ELSE Nothing]
      = [k \in 1 .. n |-> IF k \in DOMAIN a.optional THEN Sent(a.optional[k]) ELSE Nothing]
  <2>1. ASSUME NEW k \in 1 .. n
        PROVE  (IF k \in 1 .. all /\ a.optional[k] # Nothing THEN Sent(a.optional[k]) ELSE Nothing)
                 = IF k \in DOMAIN a.optional THEN Sent(a.optional[k]) ELSE Nothing
    <3>1. Sent(Nothing) = Nothing
      BY DEF Sent
    <3> QED BY <1>4, <3>1, Zenon
  <2> QED BY <2>1, Zenon
<1> QED BY <1>3, <1>5, <1>7, <1>8, <1>9, Zenon DEF DeliveredBy

LEMMA TooFewValues ==
  ASSUME NEW c \in Calls, NEW a \in Answers, NEW m,
         Pack(a.required, a.optional) \in Seq(Tokenizables[m]),
         Len(a.required) < c.results, Range(a.optional) \subseteq {Nothing}
  PROVE  Unpack(ArrivedItems(m, Pack(a.required, a.optional)), c.results, c.optionalResults)
           = Failure
<1>1. PICK R, O : R = Range(a.required) /\ O = Range(a.optional)
  OBVIOUS
<1>2. a.required \in Seq(R) /\ a.optional \in Seq(O) /\ DOMAIN a.optional = 1 .. Len(a.optional)
  BY <1>1, MethodsAssumption
<1>3. \A k \in 1 .. Len(a.optional) : a.optional[k] = Nothing
  BY <1>2 DEF Range
<1>4. PICK p : p = Joined(Parts(a.optional))
  OBVIOUS
<1>5. HoldsGiven(p, a.optional, 1)
  BY <1>2, <1>4, GivenPacked
<1>6. Len(p) = 0
  <2>1. ~\E i \in 1 .. Len(p) : TRUE
    BY <1>3, <1>5, Zenon DEF HoldsGiven
  <2>2. p \in Seq(NamedGiven(a.optional))
    BY <1>5, Zenon DEF HoldsGiven
  <2>3. Len(p) \in Nat
    BY <2>2
  <2> QED BY <2>1, <2>3
<1>7. Pack(a.required, a.optional) = a.required \o p
  BY <1>4 DEF Pack, Parts, NamedAt
<1>8. PICK S : a.required \in Seq(S) /\ p \in Seq(S)
  <2>1. /\ a.required \in Seq(R \union NamedGiven(a.optional))
        /\ p \in Seq(R \union NamedGiven(a.optional))
    BY <1>2, <1>5 DEF HoldsGiven
  <2> QED BY <2>1
<1>9. Len(Pack(a.required, a.optional)) = Len(a.required) /\ Len(a.required) \in Nat
  BY <1>6, <1>7, <1>8, ConcatProperties
<1>10. PICK packed, values : packed = Pack(a.required, a.optional) /\ values = ArrivedItems(m, packed)
  OBVIOUS
<1>11. Len(values) = Len(packed)
  BY <1>10, ItemsKept DEF AreKept
<1>12. Len(values) < c.results
  BY <1>9, <1>10, <1>11
<1> QED BY <1>10, <1>12, Zenon DEF Unpack

\* Whatever a drive answers arrives.
LEMMA AnswerArrivesAs ==
  ASSUME NEW c \in Calls, NEW a \in Answers
  PROVE  ArrivesAs(c, a, OutcomeOf(c, ResultOf(c, ToBytes(AnswerTo(c, a)))))
<1>1. PICK r, packed, o : /\ r = ResultOf(c, ToBytes(AnswerTo(c, a)))
                          /\ packed = Pack(a.required, a.optional) /\ o = OutcomeOf(c, r)
  OBVIOUS
<1>2. PICK m \in 0 .. MaxDepth : AnswerRead(m, c, a, packed)
  BY <1>1, AnswerIsRead
<1>3. /\ packed \in Seq(Tokenizables[m]) /\ r.ok
      /\ r.values = ArrivedItems(m, packed) /\ r.status = a.status
  BY <1>1, <1>2 DEF AnswerRead
<1>4. CASE a.status \in Failures
  BY <1>1, <1>3, <1>4, Zenon DEF OutcomeOf, ArrivesAs
<1>5. CASE a.status \notin Failures
  <2>1. o = Unpack(ArrivedItems(m, packed), c.results, c.optionalResults)
    BY <1>1, <1>3, <1>5, Zenon DEF OutcomeOf
  <2>2. Len(a.required) = c.results => o = DeliveredBy(c, a)
    BY <1>1, <1>3, <2>1, EnoughValues
  <2>3. Len(a.required) < c.results /\ Range(a.optional) \subseteq {Nothing} => o = Failure
    BY <1>1, <1>3, <2>1, TooFewValues
  <2> QED BY <1>1, <1>5, <2>2, <2>3, Zenon DEF ArrivesAs
<1> QED BY <1>4, <1>5

\* No part of the list v is an answer to the call c.
NoPartIs(c, v) ==
  \A n \in 0 .. Len(ToBytes(v)) - 1 : ~ResultOf(c, SubSeq(ToBytes(v), 1, n)).ok

\* A result of three items, and a call of six, are not read from a part of them.
LEMMA PartFails ==
  ASSUME NEW c \in Calls, NEW items, Tokenizable(List(items)), NEW l \in Nat, l = Len(items),
         l <= 6, l <= 3 \/ items[1] = Command(Call)
  PROVE  NoPartIs(c, List(items))
<1> SUFFICES ASSUME NEW n \in 0 .. Len(ToBytes(List(items))) - 1
             PROVE  ~ResultOf(c, SubSeq(ToBytes(List(items)), 1, n)).ok
  BY Zenon DEF NoPartIs
<1>1. PICK v, part, value : /\ v = List(items) /\ part = SubSeq(ToBytes(v), 1, n)
                            /\ value = FromBytes(part)
  OBVIOUS
<1>2. v.kind = "list" /\ v.items = items
  BY <1>1 DEF List
<1>3. PICK m \in 0 .. MaxDepth :
        /\ items \in Seq(Tokenizables[m])
        /\ ReadsFewer(value, ArrivedItems(m, items), l)
  BY <1>1, <1>2, PartOfList
<1>4. PICK r : r = ResultOf(c, part)
  OBVIOUS
<1>5. CASE ~value.ok
  BY <1>1, <1>4, <1>5, ReadFacts, Zenon DEF ResultOf
<1>6. CASE value.ok
  <2>1. PICK a, S, A : /\ a = ArrivedItems(m, items) /\ S = Tokenizables[m]
                       /\ A = {Arrived[m][w] : w \in S}
    OBVIOUS
  <2>2. AreKept(m, S, items, a)
    BY <1>3, <2>1, ItemsKept
  <2>3. a \in Seq(A) /\ Len(a) = l /\ \A i \in 1 .. l : a[i] = Arrived[m][items[i]]
    BY <2>1, <2>2 DEF AreKept
  <2>4. PICK j \in 0 .. l - 1 : value.value = List(SubSeq(a, 1, j))
    BY <1>3, <1>6, <2>1 DEF ReadsFewer
  <2>5. PICK q : q = SubSeq(a, 1, j)
    OBVIOUS
  <2>6. Len(q) = j /\ \A i \in 1 .. j : q[i] = a[i]
    <3>1. \A i \in 1 .. j : a[i] \in A
      <4>1. \A i \in 1 .. l : a[i] \in A
        BY <2>3, ElementOfSeq
      <4> QED BY <4>1
    <3>2. /\ Len(q) = (IF 1 <= j THEN j - 1 + 1 ELSE 0)
          /\ \A i \in 1 .. j - 1 + 1 : q[i] = a[1 + i - 1]
      BY <2>5, <3>1, SubSeqProperties
    <3> QED BY <3>2
  <2>7. MethodCallFromValue(List(q)) = Failure
    <3>1. j < 6
      OBVIOUS
    <3> QED BY <2>6, <3>1, FewerIsNoCall
  <2>8. CASE j < 3
    <3>1. j < 6
      OBVIOUS
    <3>2. MethodResultFromValue(List(q)) = Failure
      BY <2>6, <2>8, <3>1, FewerIsNoResult
    <3> QED BY <1>1, <1>4, <1>6, <2>4, <2>5, <2>7, <3>2, ReadFacts, Zenon DEF ResultOf
  <2>9. CASE ~(j < 3)
    <3>1. j < 6 /\ ~(l <= 3) /\ 1 \in 1 .. j /\ 1 \in 1 .. l
      BY <2>9
    <3>2. items[1] = Command(Call)
      BY <3>1, Zenon
    <3>3. q[1] = Command(Call)
      <4>1. items[1] \in Tokenizables[m]
        BY <1>3, <3>1, ElementOfSeq
      <4>2. items[1].kind = "command"
        BY <3>2 DEF Command
      <4>3. Arrived[m][items[1]] = items[1]
        BY <4>1, <4>2, ScalarKept
      <4> QED BY <2>3, <2>6, <3>1, <3>2, <4>3
    <3>4. MethodResultFromValue(List(q)) = Failure
      BY <2>6, <3>1, <3>3, FewerIsNoResult
    <3> QED BY <1>1, <1>4, <1>6, <2>4, <2>5, <2>7, <3>4, ReadFacts, Zenon DEF ResultOf
  <2> QED BY <2>8, <2>9
<1> QED BY <1>1, <1>4, <1>5, <1>6

\* A part of an answer is an error on the host.
LEMMA AnswerPartFails ==
  ASSUME NEW c \in Calls, NEW a \in Answers
  PROVE  NoPartIs(c, AnswerTo(c, a))
<1>1. PICK sent, packed : sent = AnswerTo(c, a) /\ packed = Pack(a.required, a.optional)
  OBVIOUS
<1>2. Tokenizable(sent)
  BY <1>1, AnswersAssumption
<1>3. CASE c.level = "session"
  <2>1. PICK items : items = <<List(packed), Command(EndOfData), StatusList(a.status)>>
    OBVIOUS
  <2>2. sent = List(items)
    BY <1>1, <1>3, <2>1, Zenon DEF AnswerTo, MethodResultToValue
  <2>3. PICK l \in Nat : l = Len(items) /\ l <= 6 /\ l <= 3
    BY <2>1
  <2>4. NoPartIs(c, List(items))
    BY <1>2, <2>2, <2>3, PartFails
  <2> QED BY <1>1, <2>2, <2>4
<1>4. CASE c.level # "session"
  <2>1. PICK items : items = <<Command(Call), Bytes(SessionManagerId), Bytes(c.methodId),
                               List(packed), Command(EndOfData), StatusList(a.status)>>
    OBVIOUS
  <2>2. sent = List(items)
    BY <1>1, <1>4, <2>1, Zenon DEF AnswerTo, MethodCallToValue
  <2>3. PICK l \in Nat : l = Len(items) /\ l <= 6 /\ items[1] = Command(Call)
    BY <2>1
  <2>4. NoPartIs(c, List(items))
    BY <1>2, <2>2, <2>3, PartFails
  <2> QED BY <1>1, <2>2, <2>4
<1> QED BY <1>3, <1>4

LEMMA ClosingPartFails ==
  ASSUME NEW c \in Calls, NEW args, NEW sent, Tokenizable(sent),
         sent = MethodCallToValue(SessionManagerId, CloseSession, args, Success)
  PROVE  NoPartIs(c, sent)
<1>1. PICK items : items = <<Command(Call), Bytes(SessionManagerId), Bytes(CloseSession),
                             List(args), Command(EndOfData), StatusList(Success)>>
  OBVIOUS
<1>2. sent = List(items)
  BY <1>1, Zenon DEF MethodCallToValue
<1>3. PICK l \in Nat : l = Len(items) /\ l <= 6 /\ items[1] = Command(Call)
  BY <1>1
<1>4. NoPartIs(c, List(items))
  BY <1>2, <1>3, PartFails
<1> QED BY <1>2, <1>4

-----------------------------------------------------------------------------
(***************************************************************************)
(* The host and the drive                                                  *)
(***************************************************************************)

\* The bytes under way are those of what the drive answered.
Replied ==
  \/ answer \in Answers /\ wire = ToBytes(AnswerTo(call, answer))
  \/ /\ answer = [kind |-> "closed"] /\ call.level = "session"
     /\ wire = ToBytes(Closing)

AnswerInv ==
  /\ call \in Calls
  /\ stage \in {"calling", "request", "executing"} => answer = Nothing
  /\ stage = "reply" => Replied
  /\ stage = "split" => answer = [kind |-> "split"] /\ ~ResultOf(call, wire).ok
  /\ AnswersAreTrue

\* The closing call is a call, and has a value at every place.
LEMMA ClosingIs ==
  /\ Tokenizable(Closing)
  /\ Closing = MethodCallToValue(SessionManagerId, CloseSession, Closing.items[4].items, Success)
<1>1. PICK v, one, two : v = Closing /\ one = UInt16(1) /\ two = UInt16(5000)
  OBVIOUS
<1>2. v = MethodCallToValue(SessionManagerId, CloseSession, <<one, two>>, Success)
  BY <1>1 DEF Closing
<1>3. v.items[4].items = <<one, two>>
  BY <1>2 DEF MethodCallToValue, List
<1>4. v = MethodCallToValue(SessionManagerId, CloseSession, v.items[4].items, Success)
  BY <1>2, <1>3, Zenon
<1> QED BY <1>1, <1>4, AnswersAssumption

\* HostReads in terms of the operators above.
LEMMA HostReadsOutcome ==
  HostReads => /\ outcome' = OutcomeOf(call, ResultOf(call, wire))
               /\ stage' = "done" /\ call' = call /\ answer' = answer
<1> SUFFICES ASSUME HostReads
             PROVE  /\ outcome' = OutcomeOf(call, ResultOf(call, wire))
                    /\ stage' = "done" /\ call' = call /\ answer' = answer
  OBVIOUS
<1>1. PICK value, result :
        /\ value = FromBytes(wire)
        /\ result = IF ~value.ok THEN Failure
                    ELSE IF call.level = "session" THEN MethodResultFromValue(value.value)
                    ELSE MethodCallFromValue(value.value)
  OBVIOUS
<1>2. result = ResultOf(call, wire)
  BY <1>1, Zenon DEF ResultOf
<1>3. /\ outcome' = IF ~result.ok THEN Failure
                    ELSE IF result.status \in Failures THEN [ok |-> FALSE, status |-> result.status]
                    ELSE Unpack(result.values, call.results, call.optionalResults)
      /\ stage' = "done" /\ call' = call /\ answer' = answer
  BY <1>1, Zenon DEF HostReads, End
<1> QED BY <1>2, <1>3, Zenon DEF OutcomeOf

\* Nothing is said of a call that was not answered.
LEMMA NotAnswered ==
  answer = Nothing => AnswersAreTrue
BY DEF AnswersAreTrue, AnswerArrives, SplitAnswersFail, ClosedCallsFail, Answered, Nothing

\* An answer that arrived is as the property says.
LEMMA ArrivedIsTrue ==
  ASSUME answer \in Answers, ArrivesAs(call, answer, outcome)
  PROVE  AnswersAreTrue
<1>1. answer.kind = "answer"
  BY MethodsAssumption, Zenon
<1>2. SplitAnswersFail /\ ClosedCallsFail
  BY <1>1 DEF SplitAnswersFail, ClosedCallsFail
<1>3. Delivered = DeliveredBy(call, answer)
  BY DEF Delivered, DeliveredBy
<1>4. AnswerArrives
  BY <1>3, Zenon DEF AnswerArrives, ArrivesAs
<1> QED BY <1>2, <1>4 DEF AnswersAreTrue

LEMMA AnswerInvInit ==
  MethodsInit => AnswerInv
BY NotAnswered DEF MethodsInit, AnswerInv

LEMMA AnswerInvNext ==
  AnswerInv /\ [MethodsNext]_methodsVars => AnswerInv'
<1> SUFFICES ASSUME AnswerInv, [MethodsNext]_methodsVars  PROVE AnswerInv'
  OBVIOUS
<1>1. CASE HostCalls
  <2>1. answer' = Nothing /\ call' \in Calls /\ stage' \in {"request", "done"}
    BY <1>1 DEF HostCalls, End, AnswerInv
  <2>2. AnswersAreTrue'
    BY <2>1 DEF AnswersAreTrue, AnswerArrives, SplitAnswersFail, ClosedCallsFail, Answered, Nothing
  <2> QED BY <2>1, <2>2 DEF AnswerInv
<1>2. CASE DriveReads
  <2>1. answer' = Nothing /\ call' \in Calls /\ stage' \in {"executing", "done"}
    BY <1>2 DEF DriveReads, End, AnswerInv
  <2>2. AnswersAreTrue'
    BY <2>1 DEF AnswersAreTrue, AnswerArrives, SplitAnswersFail, ClosedCallsFail, Answered, Nothing
  <2> QED BY <2>1, <2>2 DEF AnswerInv
<1>3. CASE DriveAnswers
  <2>1. stage' = "reply" /\ call' = call /\ call \in Calls
    BY <1>3 DEF DriveAnswers, AnswerInv
  <2>2. Replied'
    BY <1>3, <2>1 DEF DriveAnswers, Replied
  <2>3. AnswersAreTrue'
    BY <2>1 DEF AnswersAreTrue, AnswerArrives, SplitAnswersFail, ClosedCallsFail
  <2> QED BY <2>1, <2>2, <2>3 DEF AnswerInv
<1>4. CASE DriveCloses
  <2>1. stage' = "reply" /\ call' = call /\ call \in Calls
    BY <1>4 DEF DriveCloses, AnswerInv
  <2>2. Replied'
    BY <1>4, <2>1 DEF DriveCloses, Replied
  <2>3. AnswersAreTrue'
    BY <2>1 DEF AnswersAreTrue, AnswerArrives, SplitAnswersFail, ClosedCallsFail
  <2> QED BY <2>1, <2>2, <2>3 DEF AnswerInv
<1>5. CASE DriveSplits
  <2>1. /\ stage' = "split" /\ call' = call /\ call \in Calls /\ answer' = [kind |-> "split"]
        /\ Replied
    BY <1>5 DEF DriveSplits, AnswerInv
  <2>2. PICK n \in 0 .. Len(wire) - 1 : wire' = SubSeq(wire, 1, n)
    BY <1>5 DEF DriveSplits
  <2>3. ~ResultOf(call, wire').ok
    <3>1. CASE answer \in Answers /\ wire = ToBytes(AnswerTo(call, answer))
      <4>1. NoPartIs(call, AnswerTo(call, answer))
        BY <2>1, <3>1, AnswerPartFails
      <4> QED BY <2>2, <3>1, <4>1, Zenon DEF NoPartIs
    <3>2. CASE wire = ToBytes(Closing)
      <4>1. NoPartIs(call, Closing)
        BY <2>1, ClosingIs, ClosingPartFails, Zenon
      <4> QED BY <2>2, <3>2, <4>1, Zenon DEF NoPartIs
    <3> QED BY <2>1, <3>1, <3>2 DEF Replied
  <2>4. AnswersAreTrue'
    BY <2>1 DEF AnswersAreTrue, AnswerArrives, SplitAnswersFail, ClosedCallsFail
  <2> QED BY <2>1, <2>3, <2>4 DEF AnswerInv
<1>6. CASE HostReads
  <2>1. /\ outcome' = OutcomeOf(call, ResultOf(call, wire))
        /\ stage' = "done" /\ call' = call /\ answer' = answer /\ call \in Calls
    BY <1>6, HostReadsOutcome DEF AnswerInv
  <2>2. \/ Replied
        \/ answer = [kind |-> "split"] /\ ~ResultOf(call, wire).ok
    BY <1>6 DEF HostReads, AnswerInv
  <2>3. CASE answer \in Answers /\ wire = ToBytes(AnswerTo(call, answer))
    <3>1. ArrivesAs(call, answer, outcome')
      BY <2>1, <2>3, AnswerArrivesAs
    <3>2. AnswersAreTrue'
      <4>1. (answer \in Answers /\ ArrivesAs(call, answer, outcome) => AnswersAreTrue)'
        BY ArrivedIsTrue, PTL
      <4> QED BY <2>1, <2>3, <3>1, <4>1
    <3> QED BY <2>1, <3>2 DEF AnswerInv
  <2>4. CASE answer.kind \in {"split", "closed"} /\ ~outcome'.ok
    BY <2>1, <2>4 DEF AnswerInv, AnswersAreTrue, AnswerArrives, SplitAnswersFail, ClosedCallsFail,
                      Answered
  <2>5. CASE answer = [kind |-> "closed"] /\ call.level = "session" /\ wire = ToBytes(Closing)
    <3>1. ~outcome'.ok
      BY <2>1, <2>5, ClosingIs, ClosingFails, Zenon
    <3> QED BY <2>4, <2>5, <3>1
  <2>6. CASE answer = [kind |-> "split"] /\ ~ResultOf(call, wire).ok
    <3>1. outcome' = Failure
      BY <2>1, <2>6, Zenon DEF OutcomeOf
    <3> QED BY <2>4, <2>6, <3>1, ReadFacts
  <2> QED BY <2>2, <2>3, <2>5, <2>6 DEF Replied
<1>7. CASE UNCHANGED methodsVars
  BY <1>7 DEF methodsVars, AnswerInv, Replied, AnswersAreTrue, AnswerArrives, SplitAnswersFail,
              ClosedCallsFail, Answered, Delivered
<1> QED BY <1>1, <1>2, <1>3, <1>4, <1>5, <1>6, <1>7 DEF MethodsNext

\* Whatever a drive makes of a call, the host's coroutine ends with the drive's
\* values or with an error: a failure, a session the drive closed and any part
\* of an answer are never taken for a result (UnwrapPacket, MethodResultFromValue
\* and MethodCallFromValue of MethodUtils.cpp, Value.cpp, TokenStream.cpp).
THEOREM AnswersTrue ==
  MethodsSpec => []AnswersAreTrue
<1>1. AnswerInv => AnswersAreTrue
  BY DEF AnswerInv
<1> QED BY AnswerInvInit, AnswerInvNext, <1>1, PTL DEF MethodsSpec

===============================================================================
