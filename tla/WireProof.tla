----------------------------- MODULE WireProof -----------------------------
(***************************************************************************)
(* Proofs about the encodings of Wire, for every base: locations and       *)
(* frames are read as they were written, and a stream of frames is read    *)
(* frame by frame to its end.                                              *)
(***************************************************************************)
EXTENDS Wire, Integers, SequenceTheorems, WellFoundedInduction, TLAPS

-----------------------------------------------------------------------------
(* Natural numbers *)

\* Induction, over a set of numbers.
LEMMA Induction ==
    ASSUME NEW S, 0 \in S, \A n \in Nat : n \in S => n + 1 \in S
    PROVE  Nat \subseteq S
<1> DEFINE less == OpToRel(<, Nat)
           other == Nat \ S
<1> SUFFICES ASSUME other # {} PROVE FALSE
  OBVIOUS
<1>1. \A x, y \in Nat : x < y => <<x, y>> \in less
  BY DEF OpToRel
<1>2. IsWellFoundedOn(less, Nat)
  BY NatLessThanWellFounded
<1> HIDE DEF less
<1>3. PICK x \in other : \A y \in other : ~(<<y, x>> \in less)
  <2>1. other \subseteq Nat
    OBVIOUS
  <2> HIDE DEF other
  <2> QED
    BY <1>2, <2>1, WFMin
<1>4. x - 1 \in other /\ x \in Nat /\ x - 1 \in Nat
  OBVIOUS
<1>5. x - 1 < x
  BY <1>4
<1> QED
  BY <1>1, <1>3, <1>4, <1>5

-----------------------------------------------------------------------------
(* Sequences *)

\* It does not matter what is appended first.
LEMMA Associative ==
    ASSUME NEW a \in Seq(Byte), NEW b \in Seq(Byte), NEW c \in Seq(Byte)
    PROVE  (a \o b) \o c = a \o (b \o c)
  OBVIOUS

\* Where the elements of a concatenation are.
LEMMA Elements ==
    ASSUME NEW a \in Seq(Byte), NEW b \in Seq(Byte)
    PROVE  /\ \A i \in 1 .. Len(a) : (a \o b)[i] = a[i]
           /\ \A i \in 1 .. Len(b) : (a \o b)[Len(a) + i] = b[i]
  OBVIOUS

\* The beginning of a sequence.
LEMMA Beginning ==
    ASSUME NEW s \in Seq(Byte), NEW m \in 0 .. Len(s)
    PROVE  /\ SubSeq(s, 1, m) \in Seq(Byte) /\ Len(SubSeq(s, 1, m)) = m
           /\ \A i \in 1 .. m : SubSeq(s, 1, m)[i] = s[i]
  OBVIOUS

\* What was put together comes apart again.
LEMMA Parted ==
    ASSUME NEW s \in Seq(Byte), NEW r \in Seq(Byte)
    PROVE  /\ s \o r \in Seq(Byte) /\ Len(s \o r) = Len(s) + Len(r)
           /\ SubSeq(s \o r, 1, Len(s)) = s
           /\ SubSeq(s \o r, Len(s) + 1, Len(s \o r)) = r
<1>1. s \o r \in Seq(Byte) /\ Len(s \o r) = Len(s) + Len(r)
  OBVIOUS
<1>2. \A i \in 1 .. Len(s) : (s \o r)[i] = s[i]
  OBVIOUS
<1>3. \A i \in 1 .. Len(r) : (s \o r)[Len(s) + i] = r[i]
  OBVIOUS
<1>4. SubSeq(s \o r, 1, Len(s)) = s
  <2> DEFINE t == SubSeq(s \o r, 1, Len(s))
  <2>1. t \in Seq(Byte) /\ Len(t) = Len(s) /\ \A i \in 1 .. Len(s) : t[i] = (s \o r)[i]
    BY <1>1
  <2> QED
    BY <2>1, <1>2
<1>5. SubSeq(s \o r, Len(s) + 1, Len(s \o r)) = r
  <2> DEFINE t == SubSeq(s \o r, Len(s) + 1, Len(s \o r))
  <2>1. /\ t \in Seq(Byte) /\ Len(t) = Len(r)
        /\ \A i \in 1 .. Len(r) : t[i] = (s \o r)[Len(s) + i]
    BY <1>1
  <2> QED
    BY <2>1, <1>3
<1> QED
  BY <1>1, <1>4, <1>5

-----------------------------------------------------------------------------
(* Numbers *)

\* A number is made of its quotient and its remainder.
LEMMA DivMod ==
    ASSUME NEW n \in Nat, NEW d \in Nat, d > 0
    PROVE  /\ n \div d \in Nat /\ n % d \in 0 .. d - 1
           /\ n = d * (n \div d) + (n % d)
  OBVIOUS

\* ... and in one way only.
LEMMA ModUnique ==
    ASSUME NEW d \in Nat, d > 0, NEW q \in Nat, NEW r \in 0 .. d - 1
    PROVE  (d * q + r) % d = r
<1> DEFINE n == d * q + r
<1>1. n \in Nat
  OBVIOUS
<1> DEFINE k == n \div d
           m == n % d
<1>2. k \in Nat /\ m \in 0 .. d - 1 /\ n = d * k + m
  BY <1>1, DivMod
<1>3. d * (q - k) = m - r
  BY <1>2
<1>4. CASE q - k >= 1
  BY <1>2, <1>3, <1>4
<1>5. CASE q - k <= -1
  BY <1>2, <1>3, <1>5
<1>6. CASE q - k = 0
  BY <1>2, <1>3, <1>6
<1> QED
  BY <1>2, <1>4, <1>5, <1>6

\* A number that is small is its remainder.
LEMMA Small ==
    ASSUME NEW d \in Nat, NEW n \in Nat, n < d
    PROVE  n % d = n
<1>1. d * 0 + n = n /\ n \in 0 .. d - 1 /\ d > 0
  OBVIOUS
<1> QED
  BY <1>1, ModUnique

\* Two digits say a number below d * d.
LEMMA TwoDigits ==
    ASSUME NEW n \in Nat, NEW d \in Nat, d > 0
    PROVE  (n % d) + ((n \div d) % d) * d = n % (d * d)
<1> DEFINE q == n \div d
           r == n % d
           s == q \div d
           t == q % d
<1>1. q \in Nat /\ r \in 0 .. d - 1 /\ n = d * q + r
  BY DivMod
<1>2. s \in Nat /\ t \in 0 .. d - 1 /\ q = d * s + t
  BY <1>1, DivMod
<1> HIDE DEF q, r, s, t
<1>3. d * d \in Nat /\ d * d > 0
  OBVIOUS
<1>4. r + t * d \in 0 .. d * d - 1
  <2>1. t * d <= (d - 1) * d
    BY <1>2
  <2>2. t * d >= 0 /\ t * d \in Nat
    BY <1>2
  <2>3. (d - 1) * d = d * d - d
    OBVIOUS
  <2> QED
    BY <1>1, <2>1, <2>2, <2>3, <1>3
<1>5. n = (d * d) * s + (r + t * d)
  <2>1. d * q = d * (d * s) + d * t
    BY <1>2
  <2>2. d * (d * s) = (d * d) * s /\ d * t = t * d
    BY <1>2
  <2> QED
    BY <1>1, <1>2, <2>1, <2>2
<1>6. ((d * d) * s + (r + t * d)) % (d * d) = r + t * d
  BY <1>2, <1>3, <1>4, ModUnique
<1> QED
  BY <1>5, <1>6 DEF q, r, s, t

\* A 16 bit field holds the low bits of what is put into it.
LEMMA Field16 ==
    ASSUME NEW n \in Nat
    PROVE  /\ PutUint16(n) \in Seq(Byte) /\ Len(PutUint16(n)) = 2
           /\ Uint16(PutUint16(n)) = n % Words16
<1>1. n % Base \in Byte /\ (n \div Base) % Base \in Byte
  BY WireAssumption, DivMod DEF Byte
<1>2. PutUint16(n) \in Seq(Byte) /\ Len(PutUint16(n)) = 2
  BY <1>1 DEF PutUint16
<1>3. Uint16(PutUint16(n)) = (n % Base) + ((n \div Base) % Base) * Base
  BY DEF Uint16, PutUint16
<1> QED
  BY <1>2, <1>3, TwoDigits, WireAssumption DEF Words16

\* A 32 bit field likewise.
LEMMA Field32 ==
    ASSUME NEW n \in Nat
    PROVE  /\ PutUint32(n) \in Seq(Byte) /\ Len(PutUint32(n)) = 4
           /\ Uint32(PutUint32(n)) = n % Words32
<1> DEFINE low == n % Words16
           high == n \div Words16
<1>1. Words16 \in Nat /\ Words16 > 0
  BY WireAssumption DEF Words16
<1>2. low \in 0 .. Words16 - 1 /\ high \in Nat
  BY <1>1, DivMod
<1> HIDE DEF low, high
<1>3. /\ PutUint16(low) \in Seq(Byte) /\ Len(PutUint16(low)) = 2
      /\ PutUint16(high) \in Seq(Byte) /\ Len(PutUint16(high)) = 2
  BY <1>2, Field16
<1>4. PutUint32(n) = PutUint16(low) \o PutUint16(high)
  BY DEF PutUint32, low, high
<1> DEFINE a == PutUint16(low)
           b == PutUint16(high)
<1>5. /\ a \o b \in Seq(Byte) /\ Len(a \o b) = 4
      /\ SubSeq(a \o b, 1, 2) = a /\ SubSeq(a \o b, 3, 4) = b
  <2> HIDE DEF a, b
  <2>1. a \in Seq(Byte) /\ Len(a) = 2 /\ b \in Seq(Byte) /\ Len(b) = 2
    BY <1>3 DEF a, b
  <2>2. /\ a \o b \in Seq(Byte) /\ Len(a \o b) = Len(a) + Len(b)
        /\ SubSeq(a \o b, 1, Len(a)) = a
        /\ SubSeq(a \o b, Len(a) + 1, Len(a \o b)) = b
    BY <2>1, Parted
  <2>3. Len(a) + Len(b) = 4 /\ Len(a) + 1 = 3
    BY <2>1
  <2> QED
    BY <2>1, <2>2, <2>3
<1>6. Uint16(PutUint16(low)) = low
  <2>1. low % Words16 = low
    BY <1>1, <1>2, Small
  <2> QED
    BY <1>2, <2>1, Field16
<1>7. Uint32(PutUint32(n)) = low + (high % Words16) * Words16
  BY <1>2, <1>4, <1>5, <1>6, Field16 DEF Uint32
<1>8. Uint32(PutUint32(n)) = n % Words32
  BY <1>1, <1>7, TwoDigits DEF low, high, Words32
<1>9. PutUint32(n) \in Seq(Byte) /\ Len(PutUint32(n)) = 4
  BY <1>4, <1>5
<1> QED
  BY <1>8, <1>9

-----------------------------------------------------------------------------
(* Byte strings and locations *)

\* ReadFull of what was put in front.
LEMMA FixedBytes ==
    ASSUME NEW s \in Seq(Byte), NEW r \in Seq(Byte)
    PROVE  ReadFixedBytes(Len(s), s \o r) = Read(s, r)
<1>1. /\ Len(s) \in Nat /\ Len(s \o r) = Len(s) + Len(r) /\ Len(r) \in Nat
      /\ SubSeq(s \o r, 1, Len(s)) = s
      /\ SubSeq(s \o r, Len(s) + 1, Len(s \o r)) = r
  BY Parted
<1>2. Len(s) <= Len(s \o r)
  BY <1>1
<1> QED
  BY <1>1, <1>2 DEF ReadFixedBytes

\* ReadFull of a part of what was put in front.
LEMMA FixedBytesPart ==
    ASSUME NEW s \in Seq(Byte), NEW r \in Seq(Byte), NEW m \in 0 .. Len(s)
    PROVE  ReadFixedBytes(m, s \o r) =
               Read(SubSeq(s, 1, m), SubSeq(s, m + 1, Len(s)) \o r)
<1> DEFINE a == SubSeq(s, 1, m)
           b == SubSeq(s, m + 1, Len(s))
<1>0. Len(s) \in Nat /\ m \in Nat /\ m <= Len(s)
  OBVIOUS
<1>1. a \in Seq(Byte) /\ Len(a) = m /\ b \in Seq(Byte)
  OBVIOUS
<1>2. a \o b = s
  <2>1. 1 \in 1 .. Len(s) + 1 /\ m \in 1 - 1 .. Len(s) /\ Len(s) \in m .. Len(s)
    BY <1>0
  <2>2. a \o b = SubSeq(s, 1, Len(s))
    BY <2>1, ConcatAdjacentSubSeq
  <2> QED
    BY <2>2, SubSeqFull
<1> HIDE DEF a, b
<1>3. b \o r \in Seq(Byte) /\ s \o r = a \o (b \o r)
  <2>1. s \o r = (a \o b) \o r
    BY <1>2
  <2>2. (a \o b) \o r = a \o (b \o r)
    BY <1>1, Associative
  <2> QED
    BY <1>1, <2>1, <2>2, Parted
<1>4. ReadFixedBytes(m, s \o r) = Read(a, b \o r)
  BY <1>1, <1>3, FixedBytes
<1> QED
  BY <1>4 DEF a, b

\* A short byte string is read up to the length that its field holds; the rest
\* of it is left in the way of what follows.
LEMMA ShortBytesRead ==
    ASSUME NEW s \in Seq(Byte), NEW r \in Seq(Byte)
    PROVE  LET m == Len(s) % Words16
           IN  /\ m \in 0 .. Words16 - 1 /\ m <= Len(s)
               /\ ReadShortBytes(WriteShortBytes(s) \o r) =
                     Read(SubSeq(s, 1, m), SubSeq(s, m + 1, Len(s)) \o r)
<1> DEFINE m == Len(s) % Words16
           p == PutUint16(Len(s))
<1>1. Words16 \in Nat /\ Words16 > 0
  BY WireAssumption DEF Words16
<1>2. m \in 0 .. Words16 - 1 /\ m <= Len(s)
  <2>1. /\ Len(s) \div Words16 \in Nat /\ m \in 0 .. Words16 - 1
        /\ Len(s) = Words16 * (Len(s) \div Words16) + m
    BY <1>1, DivMod
  <2>2. Words16 * (Len(s) \div Words16) >= 0
    BY <1>1, <2>1
  <2> QED
    BY <2>1, <2>2, <1>1
<1>3. p \in Seq(Byte) /\ Len(p) = 2 /\ Uint16(p) = m
  BY Field16
<1> HIDE DEF m, p
<1>4. s \o r \in Seq(Byte) /\ WriteShortBytes(s) \o r = p \o (s \o r)
  BY <1>3 DEF WriteShortBytes, p
<1>5. ReadFixedBytes(2, p \o (s \o r)) = Read(p, s \o r)
  BY <1>3, <1>4, FixedBytes
<1>6. ReadUint16(p \o (s \o r)) = Read(m, s \o r)
  <2>1. ReadFixedBytes(2, p \o (s \o r)).ok /\ ReadFixedBytes(2, p \o (s \o r)).val = p
        /\ ReadFixedBytes(2, p \o (s \o r)).rest = s \o r
    BY <1>5 DEF Read
  <2> QED
    BY <1>3, <2>1 DEF ReadUint16
<1>7. ReadShortBytes(p \o (s \o r)) = ReadFixedBytes(m, s \o r)
  BY <1>6 DEF ReadShortBytes, Read
<1>8. ReadFixedBytes(m, s \o r) =
          Read(SubSeq(s, 1, m), SubSeq(s, m + 1, Len(s)) \o r)
  BY <1>2, FixedBytesPart
<1> QED
  BY <1>2, <1>4, <1>7, <1>8 DEF m

\* Two ids that fit are read back as they were written; of one that does not,
\* only a beginning is.
LEMMA LocationCodec ==
    ASSUME NEW c \in Seq(Byte), NEW g \in Seq(Byte)
    PROVE  Unmarshal(Bytes(Loc(c, g))) = Loc(c, g) <=> Len(c) < Words16 /\ Len(g) < Words16
<1> DEFINE data == Bytes(Loc(c, g))
           m == Len(c) % Words16
           k == Len(g) % Words16
           w == WriteShortBytes(g)
           cut == SubSeq(c, m + 1, Len(c)) \o w
<1>0. ASSUME NEW x \in Seq(Byte)
      PROVE  WriteShortBytes(x) \in Seq(Byte) /\ Len(WriteShortBytes(x)) = 2 + Len(x)
  <2>1. PutUint16(Len(x)) \in Seq(Byte) /\ Len(PutUint16(Len(x))) = 2
    BY Field16
  <2> QED
    BY <2>1, Parted DEF WriteShortBytes
<1>1. w \in Seq(Byte) /\ WriteShortBytes(c) \in Seq(Byte) /\ Len(WriteShortBytes(c)) > 0
  BY <1>0
<1>2. data = WriteShortBytes(c) \o w /\ data # <<>>
  <2>1. data = WriteShortBytes(c) \o w
    BY DEF Bytes, Loc
  <2>2. Len(data) = Len(WriteShortBytes(c)) + Len(w) /\ Len(w) \in Nat
    BY <1>1, <2>1, Parted
  <2> QED
    BY <1>1, <2>1, <2>2
<1>3. /\ m \in 0 .. Words16 - 1 /\ m <= Len(c)
      /\ ReadShortBytes(data) = Read(SubSeq(c, 1, m), cut)
  BY <1>1, <1>2, ShortBytesRead
<1>4. /\ k \in 0 .. Words16 - 1 /\ k <= Len(g)
      /\ ReadShortBytes(w) = Read(SubSeq(g, 1, k), SubSeq(g, k + 1, Len(g)) \o <<>>)
  <2>1. w \o <<>> = w
    BY <1>1, ConcatEmptySeq
  <2> QED
    <3>1. <<>> \in Seq(Byte)
      OBVIOUS
    <3>2. ReadShortBytes(WriteShortBytes(g) \o <<>>) =
              Read(SubSeq(g, 1, k), SubSeq(g, k + 1, Len(g)) \o <<>>)
      BY <3>1, ShortBytesRead
    <3>3. k \in 0 .. Words16 - 1 /\ k <= Len(g)
      BY <3>1, ShortBytesRead
    <3> QED
      BY <2>1, <3>2, <3>3
<1>5. Words16 \in Nat /\ Words16 > 0 /\ Len(c) \in Nat /\ Len(g) \in Nat
  BY WireAssumption DEF Words16
<1> DEFINE found == Unmarshal(data)
<1> HIDE DEF data, m, k, w, cut
<1>7. found.ChannelID = SubSeq(c, 1, m)
  BY <1>2, <1>3 DEF Unmarshal, Read, Loc
<1>8. CASE Len(c) >= Words16
  <2>1. Len(SubSeq(c, 1, m)) = m
    BY <1>3
  <2>2. found.ChannelID # c
    BY <1>3, <1>5, <1>7, <1>8, <2>1
  <2> QED
    BY <1>5, <1>8, <2>2 DEF Loc, data
<1>9. CASE Len(c) < Words16
  <2>1. m = Len(c)
    BY <1>5, <1>9, Small DEF m
  <2>2. SubSeq(c, 1, m) = c /\ cut = w
    BY <1>1, <2>1, <1>5 DEF cut
  <2>3. found = Loc(c, SubSeq(g, 1, k))
    <3>1. ReadShortBytes(data) = Read(c, w)
      BY <1>3, <2>2
    <3>2. Read(c, w).ok /\ Read(c, w).val = c /\ Read(c, w).rest = w
      BY DEF Read
    <3>3. ReadShortBytes(w).ok /\ ReadShortBytes(w).val = SubSeq(g, 1, k)
      BY <1>4 DEF Read
    <3> QED
      BY <1>2, <3>1, <3>2, <3>3 DEF Unmarshal
  <2>4. found = Loc(c, g) <=> SubSeq(g, 1, k) = g
    <3> DEFINE x == SubSeq(g, 1, k)
    <3> HIDE DEF x
    <3>1. Loc(c, x).GateId = x /\ Loc(c, g).GateId = g
      BY DEF Loc
    <3>2. Loc(c, x) = Loc(c, g) <=> x = g
      BY <3>1
    <3> QED
      BY <2>3, <3>2 DEF x
  <2>5. SubSeq(g, 1, k) = g <=> Len(g) < Words16
    <3>1. CASE Len(g) < Words16
      <4>1. k = Len(g)
        BY <1>5, <3>1, Small DEF k
      <4> QED
        BY <3>1, <4>1
    <3>2. CASE Len(g) >= Words16
      <4>1. Len(SubSeq(g, 1, k)) = k
        BY <1>4
      <4> QED
        BY <1>4, <1>5, <3>2, <4>1
    <3> QED
      BY <1>5, <3>1, <3>2
  <2> QED
    BY <1>9, <2>4, <2>5 DEF data
<1> QED
  BY <1>5, <1>8, <1>9

-----------------------------------------------------------------------------
(* Frames *)

\* What WriteFrame leaves on the connection.
FrameBytes(f) == Pieces(f)[1] \o (Pieces(f)[2] \o Pieces(f)[3])

\* The fields of a frame, and how a read of them goes on.
LEMMA FrameShape ==
    ASSUME NEW f \in Frame
    PROVE  /\ <<f.op>> \in Seq(Byte) /\ Len(<<f.op>>) = 1
           /\ PutUint32(Len(f.payload)) \in Seq(Byte) /\ Len(PutUint32(Len(f.payload))) = 4
           /\ FrameBytes(f) = <<f.op>> \o (PutUint32(Len(f.payload)) \o f.payload)
           /\ FrameBytes(f) \in Seq(Byte) /\ Len(FrameBytes(f)) = 5 + Len(f.payload)
<1>1. f.op \in Byte /\ f.payload \in Seq(Byte)
  BY DEF Frame
<1> DEFINE a == <<f.op>>
           n == PutUint32(Len(f.payload))
           p == f.payload
<1>2. /\ a \in Seq(Byte) /\ Len(a) = 1 /\ n \in Seq(Byte) /\ Len(n) = 4
      /\ p \in Seq(Byte)
  BY <1>1, Field32
<1>3. FrameBytes(f) = a \o (n \o p)
  BY DEF FrameBytes, Pieces
<1> HIDE DEF a, n, p
<1>4. n \o p \in Seq(Byte) /\ Len(n \o p) = 4 + Len(p)
  BY <1>2, Parted
<1>5. a \o (n \o p) \in Seq(Byte) /\ Len(a \o (n \o p)) = 5 + Len(p)
  <2> DEFINE q == n \o p
  <2>1. q \in Seq(Byte) /\ Len(q) = 4 + Len(p) /\ Len(p) \in Nat
    BY <1>2, <1>4
  <2> HIDE DEF q
  <2>2. a \o q \in Seq(Byte) /\ Len(a \o q) = Len(a) + Len(q)
    BY <1>2, <2>1, Parted
  <2> QED
    BY <1>2, <2>1, <2>2 DEF q
<1> QED
  BY <1>2, <1>3, <1>5, Zenon DEF a, n, p

\* A length that fits its field is read as it was written.
LEMMA LengthField ==
    ASSUME NEW p \in Seq(Byte), Len(p) < Words32
    PROVE  Uint32(PutUint32(Len(p))) = Len(p)
<1>1. Words32 \in Nat /\ Len(p) \in Nat
  BY WireAssumption DEF Words16, Words32
<1>2. Len(p) % Words32 = Len(p)
  BY <1>1, Small
<1> QED
  BY <1>1, <1>2, Field32

\* ReadFrame takes the frame that WriteFrame wrote off what follows on the
\* connection, if the length of the payload fits its field.
THEOREM FramesRead ==
    ASSUME NEW f \in Frame, NEW r \in Seq(Byte), Len(f.payload) < Words32
    PROVE  ReadFrame(FrameBytes(f) \o r) = Read(f, r)
<1> DEFINE a == <<f.op>>
           n == PutUint32(Len(f.payload))
           p == f.payload
<1>1. /\ a \in Seq(Byte) /\ Len(a) = 1 /\ n \in Seq(Byte) /\ Len(n) = 4
      /\ p \in Seq(Byte) /\ FrameBytes(f) = a \o (n \o p)
  BY FrameShape DEF Frame
<1>2. Uint32(n) = Len(p)
  BY LengthField DEF Frame
<1>3. a[1] = f.op /\ f = [op |-> f.op, payload |-> p]
  BY DEF Frame
<1> HIDE DEF a, n, p
<1>4. p \o r \in Seq(Byte) /\ n \o (p \o r) \in Seq(Byte)
  BY <1>1, Parted
<1>5. FrameBytes(f) \o r = a \o (n \o (p \o r))
  <2>1. (a \o (n \o p)) \o r = a \o ((n \o p) \o r)
    <3>1. n \o p \in Seq(Byte)
      BY <1>1, Parted
    <3> QED
      BY <1>1, <3>1, Associative
  <2>2. (n \o p) \o r = n \o (p \o r)
    BY <1>1, Associative
  <2> QED
    BY <1>1, <2>1, <2>2
<1>6. ReadUint8(FrameBytes(f) \o r) = Read(f.op, n \o (p \o r))
  <2>1. ReadFixedBytes(1, a \o (n \o (p \o r))) = Read(a, n \o (p \o r))
    BY <1>1, <1>4, FixedBytes
  <2>2. Read(a, n \o (p \o r)).ok /\ Read(a, n \o (p \o r)).val = a
        /\ Read(a, n \o (p \o r)).rest = n \o (p \o r)
    BY DEF Read
  <2> QED
    BY <1>3, <1>5, <2>1, <2>2 DEF ReadUint8
<1>7. ReadUint32(n \o (p \o r)) = Read(Len(p), p \o r)
  <2>1. ReadFixedBytes(4, n \o (p \o r)) = Read(n, p \o r)
    BY <1>1, <1>4, FixedBytes
  <2>2. Read(n, p \o r).ok /\ Read(n, p \o r).val = n /\ Read(n, p \o r).rest = p \o r
    BY DEF Read
  <2> QED
    BY <1>2, <2>1, <2>2 DEF ReadUint32
<1>8. ReadBytes(n \o (p \o r)) = Read(p, r)
  <2>1. ReadFixedBytes(Len(p), p \o r) = Read(p, r)
    BY <1>1, FixedBytes
  <2>2. Read(Len(p), p \o r).ok /\ Read(Len(p), p \o r).val = Len(p)
        /\ Read(Len(p), p \o r).rest = p \o r
    BY DEF Read
  <2> QED
    BY <1>7, <2>1, <2>2 DEF ReadBytes
<1>9. /\ Read(f.op, n \o (p \o r)).ok /\ Read(f.op, n \o (p \o r)).val = f.op
      /\ Read(f.op, n \o (p \o r)).rest = n \o (p \o r)
      /\ Read(p, r).ok /\ Read(p, r).val = p /\ Read(p, r).rest = r
  BY DEF Read
<1>10. ReadFrame(FrameBytes(f) \o r) = Read([op |-> f.op, payload |-> p], r)
  BY <1>6, <1>8, <1>9 DEF ReadFrame
<1> QED
  BY <1>3, <1>10

\* A connection that ends inside a frame gives an error, never a frame.
THEOREM NoFrameFromPart ==
    ASSUME NEW f \in Frame, Len(f.payload) < Words32,
           NEW m \in 0 .. Len(FrameBytes(f)) - 1
    PROVE  ~ReadFrame(SubSeq(FrameBytes(f), 1, m)).ok
<1> DEFINE a == <<f.op>>
           n == PutUint32(Len(f.payload))
           p == f.payload
           all == FrameBytes(f)
           t == SubSeq(all, 1, m)
           u == SubSeq(t, 2, Len(t))
<1>1. /\ a \in Seq(Byte) /\ Len(a) = 1 /\ n \in Seq(Byte) /\ Len(n) = 4
      /\ p \in Seq(Byte) /\ all = a \o (n \o p)
      /\ all \in Seq(Byte) /\ Len(all) = 5 + Len(p)
  BY FrameShape DEF Frame
<1>2. Uint32(n) = Len(p)
  BY LengthField DEF Frame
<1>3. m \in 0 .. Len(all) - 1
  OBVIOUS
<1> HIDE DEF a, n, p, all
<1>4. m \in Nat /\ Len(p) \in Nat /\ m < 5 + Len(p)
  BY <1>1, <1>3
<1>5. /\ t \in Seq(Byte) /\ Len(t) = m
      /\ \A i \in 1 .. m : t[i] = all[i]
  <2>1. m \in 0 .. Len(all)
    BY <1>1, <1>4
  <2> QED
    BY <1>1, <2>1, Beginning
<1> HIDE DEF t
<1>6. CASE m = 0
  <2>1. ReadFixedBytes(1, t) = Failed
    BY <1>5, <1>6 DEF ReadFixedBytes
  <2> QED
    BY <2>1 DEF ReadFrame, ReadUint8, Failed, t, all
<1>7. CASE m > 0
  <2>1. u \in Seq(Byte) /\ Len(u) = m - 1 /\ \A i \in 1 .. m - 1 : u[i] = t[i + 1]
    BY <1>4, <1>5, <1>7
  <2> HIDE DEF u
  <2>2. ReadUint8(t).rest = u
    <3>1. ReadFixedBytes(1, t) = Read(SubSeq(t, 1, 1), u)
      BY <1>4, <1>5, <1>7 DEF ReadFixedBytes, u
    <3>2. Read(SubSeq(t, 1, 1), u).ok /\ Read(SubSeq(t, 1, 1), u).rest = u
      BY DEF Read
    <3> QED
      BY <3>1, <3>2 DEF ReadUint8, Read
  <2>3. CASE m < 5
    <3>1. ReadFixedBytes(4, u) = Failed
      BY <1>4, <2>1, <2>3 DEF ReadFixedBytes
    <3>2. ~ReadBytes(u).ok
      BY <3>1 DEF ReadBytes, ReadUint32, Failed
    <3> QED
      BY <2>2, <3>2 DEF ReadFrame, Failed, t, all
  <2>4. CASE m >= 5
    <3> DEFINE v == SubSeq(u, 4 + 1, Len(u))
    <3>1. v \in Seq(Byte) /\ Len(v) = m - 5
      BY <1>4, <2>1, <2>4
    <3>2. SubSeq(u, 1, 4) = n
      <4>1. \A i \in 1 .. 4 : u[i] = n[i]
        <5> TAKE i \in 1 .. 4
        <5>1. u[i] = all[1 + i]
          BY <1>4, <1>5, <2>1, <2>4
        <5>2. all[1 + i] = (n \o p)[i]
          <6> DEFINE q == n \o p
          <6>1. q \in Seq(Byte) /\ Len(q) = 4 + Len(p)
            <7>1. n \o p \in Seq(Byte) /\ Len(n \o p) = Len(n) + Len(p)
              BY <1>1, Parted
            <7> QED
              BY <1>1, <7>1
          <6> HIDE DEF q
          <6>2. (a \o q)[1 + i] = q[i]
            <7>1. i \in 1 .. Len(q)
              BY <1>4, <6>1
            <7>2. (a \o q)[Len(a) + i] = q[i]
              BY <1>1, <6>1, <7>1, Elements
            <7> QED
              BY <1>1, <7>2
          <6> QED
            BY <1>1, <6>2 DEF q
        <5>3. (n \o p)[i] = n[i]
          <6>1. i \in 1 .. Len(n)
            BY <1>1
          <6> QED
            BY <1>1, <6>1, Elements
        <5> QED
          BY <5>1, <5>2, <5>3
      <4>2. /\ SubSeq(u, 1, 4) \in Seq(Byte) /\ Len(SubSeq(u, 1, 4)) = 4
            /\ \A i \in 1 .. 4 : SubSeq(u, 1, 4)[i] = u[i]
        BY <1>4, <2>1, <2>4
      <4> QED
        BY <1>1, <4>1, <4>2
    <3> HIDE DEF v
    <3>3. ReadUint32(u) = Read(Len(p), v)
      <4>1. ReadFixedBytes(4, u) = Read(n, v)
        <5>1. 4 <= Len(u)
          BY <1>4, <2>1, <2>4
        <5> QED
          BY <5>1, <3>2 DEF ReadFixedBytes, v
      <4>2. Read(n, v).ok /\ Read(n, v).val = n /\ Read(n, v).rest = v
        BY DEF Read
      <4> QED
        BY <1>2, <4>1, <4>2 DEF ReadUint32
    <3>4. ReadFixedBytes(Len(p), v) = Failed
      BY <1>4, <3>1 DEF ReadFixedBytes
    <3>5. Read(Len(p), v).ok /\ Read(Len(p), v).val = Len(p) /\ Read(Len(p), v).rest = v
      BY DEF Read
    <3>6. ~ReadBytes(u).ok
      BY <3>3, <3>4, <3>5 DEF ReadBytes, Failed
    <3> QED
      BY <2>2, <3>6 DEF ReadFrame, Failed, t, all
  <2> QED
    BY <1>4, <2>3, <2>4
<1> QED
  BY <1>4, <1>6, <1>7

-----------------------------------------------------------------------------
(* Streams of frames *)

\* The recursion of Reading has a solution, so each of its steps is what it says.
LEMMA ReadingUnfolds ==
    ASSUME NEW close, NEW n \in Nat, NEW stream
    PROVE  /\ Reading(close, n, stream)[0] = ReadStart(stream)
           /\ \A i \in 1 .. n :
                 Reading(close, n, stream)[i] = ReadMore(close, Reading(close, n, stream)[i - 1])
<1> DEFINE Solves(m, f) ==
               f = [i \in 0 .. m |-> IF i = 0 THEN ReadStart(stream) ELSE ReadMore(close, f[i - 1])]
           solved == {m \in Nat : \E f : Solves(m, f)}
<1>1. 0 \in solved
  <2> DEFINE f == [i \in 0 .. 0 |-> ReadStart(stream)]
  <2>1. Solves(0, f)
    OBVIOUS
  <2> QED
    BY <2>1
<1>2. ASSUME NEW m \in Nat, m \in solved PROVE m + 1 \in solved
  <2>1. PICK f : Solves(m, f)
    BY <1>2
  <2> DEFINE g == [i \in 0 .. m + 1 |-> IF i = m + 1 THEN ReadMore(close, f[m]) ELSE f[i]]
             h == [i \in 0 .. m + 1 |-> IF i = 0 THEN ReadStart(stream) ELSE ReadMore(close, g[i - 1])]
  <2>2. ASSUME NEW i \in 0 .. m + 1 PROVE g[i] = h[i]
    <3>1. CASE i = 0
      <4>1. f[0] = ReadStart(stream)
        BY <2>1
      <4> QED
        BY <3>1, <4>1
    <3>2. CASE i \in 1 .. m
      <4>1. f[i] = ReadMore(close, f[i - 1])
        BY <2>1, <3>2
      <4> QED
        BY <3>2, <4>1
    <3>3. CASE i = m + 1
      BY <3>3
    <3> QED
      BY <3>1, <3>2, <3>3
  <2>3. Solves(m + 1, g)
    BY <2>2
  <2> HIDE DEF g, Solves
  <2> QED
    BY <2>3
<1>3. n \in solved
  <2> HIDE DEF solved
  <2> QED
    BY <1>1, <1>2, Induction
<1>4. Solves(n, Reading(close, n, stream))
  BY <1>3 DEF Reading
<1> HIDE DEF solved
<1> QED
  BY <1>4

\* The frames at the beginning of a stream, and what follows each of them.
Splits(stream, frames, r) ==
    /\ r \in [0 .. Len(frames) -> Seq(Byte)]
    /\ r[0] = stream
    /\ \A i \in 1 .. Len(frames) :
          /\ Len(frames[i].payload) < Words32
          /\ r[i - 1] = FrameBytes(frames[i]) \o r[i]

LEMMA SplitNothing == \E r : Splits(<<>>, <<>>, r) /\ r[0] = <<>>
<1> DEFINE r == [i \in 0 .. 0 |-> <<>>]
<1>1. r \in [0 .. 0 -> Seq(Byte)] /\ r[0] = <<>>
  OBVIOUS
<1>2. Len(<<>>) = 0 /\ 1 .. 0 = {}
  OBVIOUS
<1> HIDE DEF r
<1> QED
  BY <1>1, <1>2 DEF Splits

\* More bytes at the end of a stream leave its frames as they are.
LEMMA SplitMore ==
    ASSUME NEW stream, NEW frames \in Seq(Frame), NEW r, Splits(stream, frames, r),
           NEW p \in Seq(Byte)
    PROVE  \E q : /\ Splits(stream \o p, frames, q)
                  /\ q[Len(frames)] = r[Len(frames)] \o p
<1> DEFINE q == [i \in 0 .. Len(frames) |-> r[i] \o p]
<1>1. Len(frames) \in Nat
  OBVIOUS
<1>2. \A i \in 0 .. Len(frames) : r[i] \in Seq(Byte)
  BY DEF Splits
<1>3. q \in [0 .. Len(frames) -> Seq(Byte)]
  <2>1. \A i \in 0 .. Len(frames) : r[i] \o p \in Seq(Byte)
    BY <1>2, Parted
  <2> QED
    BY <2>1
<1>4. q[0] = stream \o p /\ q[Len(frames)] = r[Len(frames)] \o p
  BY <1>1 DEF Splits
<1>5. ASSUME NEW i \in 1 .. Len(frames)
      PROVE  /\ Len(frames[i].payload) < Words32
             /\ q[i - 1] = FrameBytes(frames[i]) \o q[i]
  <2>1. i - 1 \in 0 .. Len(frames) /\ i \in 0 .. Len(frames)
    BY <1>1
  <2>2. frames[i] \in Frame
    OBVIOUS
  <2>3. FrameBytes(frames[i]) \in Seq(Byte) /\ r[i] \in Seq(Byte)
    BY <1>2, <2>1, <2>2, FrameShape
  <2>4. (FrameBytes(frames[i]) \o r[i]) \o p = FrameBytes(frames[i]) \o (r[i] \o p)
    BY <2>3, Associative
  <2>5. r[i - 1] = FrameBytes(frames[i]) \o r[i] /\ Len(frames[i].payload) < Words32
    BY DEF Splits
  <2>6. q[i - 1] = r[i - 1] \o p /\ q[i] = r[i] \o p
    BY <2>1
  <2> QED
    BY <2>4, <2>5, <2>6
<1> HIDE DEF q
<1> QED
  BY <1>3, <1>4, <1>5 DEF Splits

\* When what follows the last frame is a frame, it is the next one, and nothing
\* follows it.
LEMMA SplitAppend ==
    ASSUME NEW stream, NEW frames \in Seq(Frame), NEW r, Splits(stream, frames, r),
           NEW f \in Frame, Len(f.payload) < Words32, r[Len(frames)] = FrameBytes(f)
    PROVE  \E q : /\ Splits(stream, Append(frames, f), q)
                  /\ q[Len(frames) + 1] = <<>>
<1> DEFINE n == Len(frames)
           more == Append(frames, f)
           q == [i \in 0 .. n + 1 |-> IF i = n + 1 THEN <<>> ELSE r[i]]
<1>1. n \in Nat /\ Len(more) = n + 1 /\ more[n + 1] = f
      /\ \A i \in 1 .. n : more[i] = frames[i]
  OBVIOUS
<1>2. <<>> \in Seq(Byte) /\ r \in [0 .. n -> Seq(Byte)] /\ r[0] = stream
  BY DEF Splits
<1> HIDE DEF n, more
<1>3. q \in [0 .. n + 1 -> Seq(Byte)]
  BY <1>1, <1>2
<1>4. q[0] = stream /\ q[n + 1] = <<>>
  BY <1>1, <1>2
<1>5. ASSUME NEW i \in 1 .. n + 1
      PROVE  Len(more[i].payload) < Words32 /\ q[i - 1] = FrameBytes(more[i]) \o q[i]
  <2>1. CASE i = n + 1
    <3>1. q[i - 1] = r[n] /\ q[i] = <<>>
      BY <1>1, <2>1
    <3>2. FrameBytes(f) \o <<>> = FrameBytes(f)
      BY FrameShape, ConcatEmptySeq
    <3> QED
      BY <1>1, <2>1, <3>1, <3>2 DEF n
  <2>2. CASE i # n + 1
    <3>1. i \in 1 .. n /\ q[i - 1] = r[i - 1] /\ q[i] = r[i]
      BY <1>1, <2>2
    <3>2. Len(frames[i].payload) < Words32 /\ r[i - 1] = FrameBytes(frames[i]) \o r[i]
      BY <3>1 DEF Splits, n
    <3> QED
      BY <1>1, <3>1, <3>2
  <2> QED
    BY <2>1, <2>2
<1> HIDE DEF q
<1>6. Splits(stream, more, q)
  BY <1>1, <1>3, <1>4, <1>5 DEF Splits
<1> QED
  BY <1>4, <1>6 DEF n, more

\* Readloop gets the frames of a stream one after the other, up to the first
\* close frame, and up to the end when there is none and what follows the last
\* one is no frame.
THEOREM StreamRead ==
    ASSUME NEW stream, NEW frames \in Seq(Frame), NEW r, Splits(stream, frames, r),
           ~ReadFrame(r[Len(frames)]).ok,
           NEW close, NEW last \in 0 .. Len(frames),
           \A i \in 1 .. last : frames[i].op # close,
           last < Len(frames) => frames[last + 1].op = close,
           NEW n \in Nat, n >= last
    PROVE  ReadFrames(close, n, stream) = SubSeq(frames, 1, last)
<1> DEFINE all == Len(frames)
           step == Reading(close, n, stream)
           At(i) == [frames |-> SubSeq(frames, 1, i), next |-> ReadFrame(r[i])]
           good == {i \in Nat : i <= last => step[i] = At(i)}
           still == {k \in Nat : last + k <= n => step[last + k] = At(last)}
<1>1. all \in Nat /\ last \in Nat /\ last <= all /\ last <= n
  OBVIOUS
<1>2. /\ step[0] = ReadStart(stream)
      /\ \A i \in 1 .. n : step[i] = ReadMore(close, step[i - 1])
  <2>1. n \in Nat
    OBVIOUS
  <2>2. /\ Reading(close, n, stream)[0] = ReadStart(stream)
        /\ \A i \in 1 .. n :
              Reading(close, n, stream)[i] = ReadMore(close, Reading(close, n, stream)[i - 1])
    BY ONLY <2>1, ReadingUnfolds, Zenon
  <2> QED
    BY <2>2 DEF step
<1>3. ASSUME NEW i \in Nat, i < all
      PROVE  LET next == ReadFrame(r[i])
             IN  next.ok /\ next.val = frames[i + 1] /\ next.rest = r[i + 1]
  <2> DEFINE f == frames[i + 1]
  <2>1. i + 1 \in 1 .. all /\ i + 1 \in 0 .. all /\ (i + 1) - 1 = i
    BY <1>1, <1>3
  <2>2. f \in Frame
    BY <2>1
  <2>3. \A j \in 1 .. all : /\ Len(frames[j].payload) < Words32
                            /\ r[j - 1] = FrameBytes(frames[j]) \o r[j]
    BY DEF Splits
  <2>4. \A j \in 0 .. all : r[j] \in Seq(Byte)
    BY DEF Splits
  <2>5. Len(f.payload) < Words32 /\ r[i] = FrameBytes(f) \o r[i + 1] /\ r[i + 1] \in Seq(Byte)
    <3> HIDE DEF all
    <3> QED
      BY <2>1, <2>3, <2>4
  <2> HIDE DEF f
  <2>6. ReadFrame(r[i]) = Read(f, r[i + 1])
    BY <2>2, <2>5, FramesRead
  <2> QED
    BY <2>6 DEF Read, f
<1> HIDE DEF step
<1>4. 0 \in good
  <2>1. SubSeq(frames, 1, 0) = <<>> /\ r[0] = stream
    BY DEF Splits
  <2> QED
    BY <1>2, <2>1 DEF ReadStart
<1>5. ASSUME NEW i \in Nat, i \in good PROVE i + 1 \in good
  <2> SUFFICES ASSUME i + 1 <= last PROVE step[i + 1] = At(i + 1)
    OBVIOUS
  <2>1. i < all /\ i + 1 \in 1 .. last /\ i + 1 \in 1 .. n /\ i <= last /\ (i + 1) - 1 = i
    BY <1>1
  <2>2. step[i] = At(i) /\ step[i + 1] = ReadMore(close, step[i])
    BY <1>2, <1>5, <2>1
  <2> DEFINE f == frames[i + 1]
             s == step[i]
  <2>3. Append(SubSeq(frames, 1, i), f) = SubSeq(frames, 1, i + 1)
    BY <1>1, <2>1
  <2>4. f.op # close
    BY <2>1
  <2>5. ReadFrame(r[i]).ok /\ ReadFrame(r[i]).val = f /\ ReadFrame(r[i]).rest = r[i + 1]
    BY <1>3, <2>1
  <2> HIDE DEF f
  <2>6. s.frames = SubSeq(frames, 1, i) /\ s.next.ok /\ s.next.val = f /\ s.next.rest = r[i + 1]
    BY <2>2, <2>5
  <2> HIDE DEF s
  <2>7. ReadMore(close, s) = [frames |-> Append(s.frames, f), next |-> ReadFrame(r[i + 1])]
    BY <2>4, <2>6 DEF ReadMore, Continues
  <2> QED
    BY <2>2, <2>3, <2>6, <2>7 DEF s
<1>6. step[last] = At(last)
  <2>1. Nat \subseteq good
    <3> HIDE DEF good
    <3> QED
      BY <1>4, <1>5, Induction
  <2> QED
    BY <1>1, <2>1
<1>7. ~Continues(close, ReadFrame(r[last]))
  <2>1. CASE last = all
    BY <2>1 DEF Continues
  <2>2. CASE last < all
    BY <1>1, <1>3, <2>2 DEF Continues
  <2> QED
    BY <1>1, <2>1, <2>2
<1>8. 0 \in still
  BY <1>1, <1>6
<1>9. ASSUME NEW k \in Nat, k \in still PROVE k + 1 \in still
  <2> SUFFICES ASSUME last + (k + 1) <= n PROVE step[last + (k + 1)] = At(last)
    OBVIOUS
  <2>1. last + (k + 1) \in 1 .. n /\ (last + (k + 1)) - 1 = last + k /\ last + k <= n
    BY <1>1
  <2>2. step[last + k] = At(last) /\ step[last + (k + 1)] = ReadMore(close, step[last + k])
    BY <1>2, <1>9, <2>1
  <2> QED
    BY <1>7, <2>2 DEF ReadMore
<1>10. step[n] = At(last)
  <2>1. Nat \subseteq still
    <3> HIDE DEF still
    <3> QED
      BY <1>8, <1>9, Induction
  <2>2. n - last \in Nat /\ last + (n - last) = n
    BY <1>1
  <2>3. n - last \in still
    BY <2>1, <2>2
  <2> QED
    BY <2>2, <2>3
<1> QED
  BY <1>10 DEF ReadFrames, step

\* Either no frame has a given op code, or there is a first one that has it.
LEMMA FirstClose ==
    ASSUME NEW frames \in Seq(Frame), NEW close
    PROVE  \E last \in 0 .. Len(frames) :
              /\ \A i \in 1 .. last : frames[i].op # close
              /\ last < Len(frames) => frames[last + 1].op = close
<1> DEFINE all == Len(frames)
           Open(k) == \A i \in 1 .. k : frames[i].op # close
           open == {k \in Nat : k <= all => Open(k)}
<1>1. all \in Nat
  OBVIOUS
<1> SUFFICES ASSUME \A k \in 0 .. all : Open(k) /\ k < all => frames[k + 1].op # close
             PROVE  \E last \in 0 .. all : Open(last) /\ ~(last < all)
  <2> HIDE DEF all
  <2> QED
    BY DEF all
<1>2. 0 \in open
  OBVIOUS
<1>3. ASSUME NEW k \in Nat, k \in open PROVE k + 1 \in open
  <2> SUFFICES ASSUME k + 1 <= all PROVE Open(k + 1)
    OBVIOUS
  <2>1. k \in 0 .. all /\ k < all /\ Open(k)
    BY <1>1, <1>3
  <2>2. frames[k + 1].op # close
    BY <2>1
  <2>3. ASSUME NEW i \in 1 .. k + 1 PROVE i \in 1 .. k \/ i = k + 1
    OBVIOUS
  <2> QED
    BY <2>1, <2>2, <2>3
<1>4. all \in open
  <2>1. Nat \subseteq open
    <3> HIDE DEF open
    <3> QED
      BY <1>2, <1>3, Induction
  <2> QED
    BY <1>1, <2>1
<1> QED
  BY <1>1, <1>4

\* The beginnings of frames, the empty one among them.
IsPart(b) ==
    \E f \in Frame : /\ Len(f.payload) < Words32
                     /\ \E m \in 0 .. Len(FrameBytes(f)) - 1 : b = SubSeq(FrameBytes(f), 1, m)

\* What lacks something to be a frame is a part of one.
LEMMA PartOf ==
    ASSUME NEW f \in Frame, Len(f.payload) < Words32,
           NEW b \in Seq(Byte), NEW c \in Seq(Byte), c # <<>>, b \o c = FrameBytes(f)
    PROVE  IsPart(b)
<1>1. SubSeq(FrameBytes(f), 1, Len(b)) = b /\ Len(FrameBytes(f)) = Len(b) + Len(c)
  BY Parted
<1>2. Len(b) \in Nat /\ Len(c) \in Nat /\ Len(c) # 0
  OBVIOUS
<1>3. Len(b) \in 0 .. Len(FrameBytes(f)) - 1
  BY <1>1, <1>2
<1> QED
  BY <1>1, <1>3 DEF IsPart

LEMMA EmptyPart == IsPart(<<>>)
<1> DEFINE f == [op |-> 0, payload |-> <<>>]
<1>1. f \in Frame /\ Len(f.payload) = 0 /\ 0 < Words32
  BY WireAssumption DEF Frame, Byte, Words32, Words16
<1> HIDE DEF f
<1>2. FrameBytes(f) \in Seq(Byte) /\ FrameBytes(f) # <<>>
  <2>1. FrameBytes(f) \in Seq(Byte) /\ Len(FrameBytes(f)) = 5 + Len(f.payload)
    BY <1>1, FrameShape
  <2> QED
    BY <1>1, <2>1
<1>3. <<>> \o FrameBytes(f) = FrameBytes(f)
  BY <1>2, ConcatEmptySeq
<1>4. <<>> \in Seq(Byte)
  OBVIOUS
<1> QED
  BY <1>1, <1>2, <1>3, <1>4, PartOf

\* A frame that is broken off within a piece of it leaves a part.
LEMMA PartWithin ==
    ASSUME NEW f \in Frame, Len(f.payload) < Words32,
           NEW b \in Seq(Byte), NEW p \in Seq(Byte), NEW x \in Seq(Byte),
           FrameBytes(f) = b \o (p \o x),
           NEW k \in 1 .. Len(p) - 1
    PROVE  IsPart(b \o SubSeq(p, 1, k))
<1> DEFINE c == SubSeq(p, 1, k)
           e == SubSeq(p, k + 1, Len(p))
<1>1. c \in Seq(Byte) /\ e \in Seq(Byte) /\ Len(e) = Len(p) - k
  OBVIOUS
<1>2. p = c \o e
  <2>1. k \in Nat /\ Len(p) \in Nat /\ k < Len(p)
    OBVIOUS
  <2> QED
    BY <2>1
<1> HIDE DEF c, e
<1>3. e \o x \in Seq(Byte) /\ Len(e \o x) > 0
  <2>1. e \o x \in Seq(Byte) /\ Len(e \o x) = Len(e) + Len(x)
    BY <1>1, ConcatProperties
  <2>2. k \in Nat /\ Len(p) \in Nat /\ k < Len(p) /\ Len(x) \in Nat
    OBVIOUS
  <2>3. Len(e) \in Nat /\ Len(e) > 0
    BY <1>1, <2>2
  <2> QED
    BY <2>1, <2>2, <2>3
<1>4. e \o x # <<>>
  <2>1. Len(<<>>) = 0 /\ ~(0 > 0)
    OBVIOUS
  <2> QED
    BY <1>3, <2>1, Zenon
<1>5. (b \o c) \o (e \o x) = b \o ((c \o e) \o x)
  <2>1. (c \o e) \o x = c \o (e \o x)
    BY <1>1, Associative
  <2>2. (b \o c) \o (e \o x) = b \o (c \o (e \o x))
    BY <1>1, <1>3, Associative
  <2> QED
    BY <2>1, <2>2
<1>6. b \o c \in Seq(Byte)
  BY <1>1
<1>7. IsPart(b \o c)
  BY <1>2, <1>3, <1>4, <1>5, <1>6, PartOf
<1> QED
  BY <1>7 DEF c

=============================================================================
