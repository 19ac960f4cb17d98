-------------------------- MODULE MsgReadingProofs --------------------------
(***************************************************************************)
(* What was written to a message is read from it (ReadBackAsWritten), for  *)
(* every size of buffer and every set of inputs.  The parts of the module: *)
(* the places that bits go to; what a write leaves in the buffer; where    *)
(* the entries of a log lie and what disturbs them; what each read gives   *)
(* of an entry that lies at its position; what a read past the end gives;  *)
(* how many bits were written; and the invariant with its steps.           *)
(***************************************************************************)
EXTENDS MsgBufferProofs
LOCAL INSTANCE FiniteSetsExt

----------------------------------------------------------------------------
(* The places of bits.  Free(b) are those that are left in the byte that   *)
(* bit b points into: the next bits go there, and nothing else does.       *)

Free(b) == b .. b + Rest(b) - 1

\* A free place is a bit of the byte that bit b points into.
LEMMA FreeIs ==
  ASSUME NEW b \in Nat, NEW c \in Nat, b <= 8 * c, NEW e \in Free(b)
  PROVE  e \in Nat /\ b <= e /\ e < 8 * c /\ e < b + Rest(b) /\ Rest(b) # 0
<1>1. Rest(b) \in 0 .. 7 /\ b + Rest(b) <= 8 * c
  BY RestIs
<1> QED BY <1>1 DEF Free

\* Where bits go: to free places, then to new bytes, each to its own.
LEMMA PlaceIs ==
  ASSUME NEW b \in Nat, NEW c \in Nat, b <= 8 * c, NEW n \in Nat, NEW i \in 0 .. n - 1
  PROVE  /\ Place(b, i, c) \in Nat /\ Place(b, i, c) < 8 * (c + NewBytes(b, n))
         /\ b <= Place(b, i, c) /\ Place(b, i, c) < BitAfter(b, n, c)
         /\ Place(b, i, c) \in Free(b) \/ Place(b, i, c) >= 8 * c
<1>1. Rest(b) \in 0 .. 7 /\ b + Rest(b) <= 8 * c
  BY RestIs
<1>2. /\ NewBytes(b, n) \in Nat /\ n - Rest(b) <= 8 * NewBytes(b, n)
  BY <1>1, NewBytesAre
<1>3. BitAfter(b, n, c) = IF n <= Rest(b) THEN b + n ELSE 8 * c + (n - Rest(b))
  BY BitAfterIs
<1> DEFINE q == Rest(b)
           k == NewBytes(b, n)
           p == Place(b, i, c)
<1>4. p = IF i < q THEN b + i ELSE 8 * c + (i - q)
  BY DEF Place
<1>5. Free(b) = b .. b + q - 1
  BY DEF Free
<1>6. BitAfter(b, n, c) = IF n <= q THEN b + n ELSE 8 * c + (n - q)
  BY <1>3
<1> HIDE DEF q, k, p
<1>7. q \in 0 .. 7 /\ b + q <= 8 * c /\ k \in Nat /\ n - q <= 8 * k
  BY <1>1, <1>2 DEF q, k
<1>8. p \in Nat /\ p < 8 * (c + k) /\ b <= p
  BY <1>4, <1>7
<1>9. p < BitAfter(b, n, c)
  BY <1>4, <1>6, <1>7
<1>10. p \in Free(b) \/ p >= 8 * c
  BY <1>4, <1>5, <1>7
<1> QED BY <1>8, <1>9, <1>10 DEF p, k

\* Two bits of one number go to two places.
LEMMA PlacesDiffer ==
  ASSUME NEW b \in Nat, NEW c \in Nat, b <= 8 * c, NEW i \in Nat, NEW j \in Nat,
         Place(b, i, c) = Place(b, j, c)
  PROVE  i = j
<1>1. Rest(b) \in 0 .. 7 /\ b + Rest(b) <= 8 * c
  BY RestIs
<1> DEFINE q == Rest(b)
           x == Place(b, i, c)
           y == Place(b, j, c)
<1>2. /\ x = IF i < q THEN b + i ELSE 8 * c + (i - q)
      /\ y = IF j < q THEN b + j ELSE 8 * c + (j - q)
  BY DEF Place
<1>3. q \in 0 .. 7 /\ b + q <= 8 * c /\ x = y
  BY <1>1
<1> HIDE DEF q, x, y
<1> QED BY <1>2, <1>3

\* What is free after bits have been written was free before or is new.
LEMMA FreeAfter ==
  ASSUME NEW b \in Nat, NEW c \in Nat, b <= 8 * c, NEW n \in Nat,
         NEW e \in Free(BitAfter(b, n, c))
  PROVE  /\ e \in Nat /\ BitAfter(b, n, c) <= e /\ e < 8 * (c + NewBytes(b, n))
         /\ e \in Free(b) \/ e >= 8 * c
<1> DEFINE a == BitAfter(b, n, c)
           k == NewBytes(b, n)
           q == Rest(b)
<1>1. /\ q \in 0 .. 7 /\ b + q <= 8 * c /\ (b + q) % 8 = 0
  BY RestIs
<1>2. k \in Nat
  BY <1>1, NewBytesAre
<1>3. a \in 0 .. 8 * (c + k) /\ a = IF n <= q THEN b + n ELSE 8 * c + (n - q)
  BY BitAfterIs
<1>4. e \in Free(a)
  OBVIOUS
<1>5. Free(b) = b .. b + q - 1
  BY DEF Free
<1> HIDE DEF a, k, q
<1>6. e \in Nat /\ a <= e /\ e < 8 * (c + k)
  <2>1. a \in Nat /\ c + k \in Nat /\ a <= 8 * (c + k)
    BY <1>2, <1>3
  <2> QED BY <1>4, <2>1, FreeIs
<1>7. ASSUME n <= q PROVE e \in Free(b)
  <2> DEFINE h == (b + q) \div 8
  <2>1. h \in Nat /\ b + q = 8 * h
    BY <1>1
  <2> HIDE DEF h
  <2>2. a \in Nat /\ a <= 8 * h
    BY <1>1, <1>3, <1>7, <2>1
  <2>3. e < 8 * h
    BY <1>4, <2>1, <2>2, FreeIs
  <2>4. e \in Free(b)
    BY <1>1, <1>3, <1>5, <1>6, <1>7, <2>1, <2>3
  <2> QED BY <2>4
<1>8. ASSUME ~(n <= q) PROVE e >= 8 * c
  <2>1. a >= 8 * c
    BY <1>1, <1>3, <1>8
  <2> QED BY <1>2, <1>3, <1>6, <2>1
<1>9. e \in Free(b) \/ e >= 8 * c
  BY <1>7, <1>8
<1> QED BY <1>6, <1>9 DEF a, k

----------------------------------------------------------------------------
(* The bits of a sequence of bytes, numbered from 0.                       *)

BitOf(d, e) == Bit(d[e \div 8 + 1], e % 8)

\* Bit 8 * (j - 1) + k of a message is bit k of its byte j.
LEMMA BitOfByte ==
  ASSUME NEW d, NEW j \in Nat \ {0}, NEW k \in 0 .. 7
  PROVE  BitOf(d, 8 * (j - 1) + k) = Bit(d[j], k)
<1>1. (8 * (j - 1) + k) \div 8 + 1 = j /\ (8 * (j - 1) + k) % 8 = k
  OBVIOUS
<1> QED BY <1>1 DEF BitOf

\* A place is one of the eight of a byte.
LEMMA PlaceInByte ==
  ASSUME NEW e \in Nat, NEW c \in Nat
  PROVE  \E j \in Nat \ {0}, k \in 0 .. 7 :
            e = 8 * (j - 1) + k /\ (e < 8 * c <=> j <= c)
<1> DEFINE j == e \div 8 + 1
           k == e % 8
<1>1. j \in Nat \ {0} /\ k \in 0 .. 7 /\ e = 8 * (j - 1) + k
  OBVIOUS
<1> HIDE DEF j, k
<1>2. e < 8 * c <=> j <= c
  BY <1>1
<1> QED BY <1>1, <1>2

\* A bit of a message is 0 or 1.
LEMMA BitOfIsBit ==
  ASSUME NEW d, Whole(d), NEW e \in Nat, e < 8 * Len(d)
  PROVE  BitOf(d, e) \in {0, 1}
<1>1. Len(d) \in Nat
  BY DEF Whole
<1>2. PICK j \in Nat \ {0}, k \in 0 .. 7 : e = 8 * (j - 1) + k /\ j <= Len(d)
  BY <1>1, PlaceInByte
<1>3. d[j] \in Byte
  BY <1>1, <1>2 DEF Whole
<1>4. \A x \in Byte : x \in Nat
  BY DEF Byte
<1>5. k \in 0 .. 32
  OBVIOUS
<1>6. Bit(d[j], k) \in {0, 1}
  BY <1>3, <1>4, <1>5, BitIs
<1> QED BY <1>2, <1>6, BitOfByte

\* Bytes with the same bits are the same.
LEMMA SameBitsSameByte ==
  ASSUME NEW x \in Byte, NEW y \in Byte, \A k \in 0 .. 7 : Bit(x, k) = Bit(y, k)
  PROVE  x = y
<1>1. {k \in 0 .. 7 : Bit(x, k) = 1} = {k \in 0 .. 7 : Bit(y, k) = 1}
  OBVIOUS
<1> QED BY <1>1, BitsMakeByte

\* Everything of d stays in e, but for the free places.
Keeps(d, e, b) ==
  /\ Whole(d) /\ Whole(e) /\ Len(d) <= Len(e)
  /\ \A x \in 0 .. 8 * Len(d) - 1 : x \notin Free(b) => BitOf(e, x) = BitOf(d, x)

\* Nothing is in the free places.
Blank(d, b) == \A x \in Free(b) : BitOf(d, x) = 0

\* The bit x of what bits have been written to.
LEMMA BitsWithBits ==
  ASSUME NEW m, Writable(m), NEW bits, NEW n \in Nat, NEW e \in Nat,
         e < 8 * (m.cursize + NewBytes(m.bit, n))
  PROVE  BitOf(WithBits(m, bits, n).data, e) =
           IF \/ e < 8 * m.cursize /\ BitOf(m.data, e) = 1
              \/ \E i \in 0 .. n - 1 : Bit(bits, i) = 1 /\ Place(m.bit, i, m.cursize) = e
           THEN 1 ELSE 0
<1> DEFINE size == m.cursize + NewBytes(m.bit, n)
           w == WithBits(m, bits, n)
           Old(j) == IF j <= Len(m.data) THEN m.data[j] ELSE 0
           New(x) == \E i \in 0 .. n - 1 : Bit(bits, i) = 1 /\ Place(m.bit, i, m.cursize) = x
           Set(j, k) == Bit(Old(j), k) = 1 \/ New(8 * (j - 1) + k)
<1>1. /\ m.cursize \in Nat /\ m.bit \in Nat /\ m.bit <= 8 * m.cursize /\ DOMAIN m = Parts
      /\ Len(m.data) = m.cursize
  BY DEF Writable, Good, Fits
<1>2. size \in Nat
  <2>1. NewBytes(m.bit, n) \in Nat
    BY <1>1, RestIs, NewBytesAre
  <2> QED BY <1>1, <2>1
<1>3. w.data = [j \in 1 .. size |-> OfBits({k \in 0 .. 7 : Set(j, k)})]
  BY <1>1 DEF WithBits, Parts
<1> HIDE DEF w, Set
<1>4. PICK j \in Nat \ {0}, k \in 0 .. 7 : e = 8 * (j - 1) + k /\ j <= size
  BY <1>2, PlaceInByte
<1>5. e < 8 * m.cursize <=> j <= m.cursize
  BY <1>1, <1>4
<1>6. BitOf(w.data, e) = Bit(OfBits({l \in 0 .. 7 : Set(j, l)}), k)
  <2>1. w.data[j] = OfBits({l \in 0 .. 7 : Set(j, l)})
    BY <1>2, <1>3, <1>4
  <2> QED BY <1>4, <2>1, BitOfByte
<1>7. BitOf(w.data, e) = IF Set(j, k) THEN 1 ELSE 0
  <2>1. k \in 0 .. 31 /\ (k \in {l \in 0 .. 7 : Set(j, l)} <=> Set(j, k))
    OBVIOUS
  <2>2. Bit(OfBits({l \in 0 .. 7 : Set(j, l)}), k) =
          IF k \in {l \in 0 .. 7 : Set(j, l)} THEN 1 ELSE 0
    BY <2>1, BitsOfBits
  <2> QED BY <1>6, <2>1, <2>2
<1>8. Set(j, k) <=> Bit(Old(j), k) = 1 \/ New(e)
  BY <1>4 DEF Set
<1>9. Bit(Old(j), k) = 1 <=> e < 8 * m.cursize /\ BitOf(m.data, e) = 1
  <2>1. CASE j <= m.cursize
    <3>1. Old(j) = m.data[j]
      BY <1>1, <2>1
    <3>2. BitOf(m.data, e) = Bit(m.data[j], k)
      BY <1>4, BitOfByte
    <3> HIDE DEF Old
    <3> QED BY <1>5, <2>1, <3>1, <3>2
  <2>2. CASE ~(j <= m.cursize)
    <3>1. Old(j) = 0
      BY <1>1, <2>2
    <3>2. Bit(0, k) = 0
      BY NoBitsOfZero
    <3> HIDE DEF Old
    <3> QED BY <1>5, <2>2, <3>1, <3>2
  <2> QED BY <2>1, <2>2
<1> HIDE DEF New, Old
<1>10. BitOf(w.data, e) = IF (e < 8 * m.cursize /\ BitOf(m.data, e) = 1) \/ New(e) THEN 1 ELSE 0
  BY <1>7, <1>8, <1>9
<1> QED BY <1>10 DEF w, New

\* Bits are written to their places, nothing else changes, and the places that are
\* left are blank.
LEMMA BitsWrite ==
  ASSUME NEW m, Writable(m), NEW x \in Nat, NEW n \in 0 .. 32, NewBytes(m.bit, n) <= Room(m),
         Blank(m.data, m.bit)
  PROVE  /\ Keeps(m.data, WithBits(m, x, n).data, m.bit)
         /\ \A i \in 0 .. n - 1 :
              BitOf(WithBits(m, x, n).data, Place(m.bit, i, m.cursize)) = Bit(x, i)
         /\ Blank(WithBits(m, x, n).data, BitAfter(m.bit, n, m.cursize))
<1> DEFINE b == m.bit
           c == m.cursize
           d == m.data
           size == c + NewBytes(b, n)
           w == WithBits(m, x, n)
           New(e) == \E i \in 0 .. n - 1 : Bit(x, i) = 1 /\ Place(b, i, c) = e
<1>1. c \in Nat /\ b \in Nat /\ b <= 8 * c /\ DOMAIN m = Parts /\ Whole(d) /\ Len(d) = c /\ n \in Nat
  <2>1. n \in Nat
    OBVIOUS
  <2>2. c \in Nat /\ b \in Nat /\ b <= 8 * c /\ DOMAIN m = Parts /\ Whole(d) /\ Len(d) = c
    BY DEF Writable, Good, Fits
  <2> QED BY <2>1, <2>2
<1>2. Writable(w)
  BY <1>1, BitsFit
<1>3. Whole(w.data) /\ Len(w.data) = size
  <2>1. w.cursize = size
    BY <1>1 DEF WithBits, Parts
  <2> QED BY <1>2, <2>1 DEF Writable, Good
<1>4. NewBytes(b, n) \in Nat
  BY <1>1, RestIs, NewBytesAre
<1>5. \A e \in Nat : e < 8 * size =>
        BitOf(w.data, e) = IF (e < 8 * c /\ BitOf(d, e) = 1) \/ New(e) THEN 1 ELSE 0
  BY <1>1, BitsWithBits
<1>6. \A i \in 0 .. n - 1 :
        /\ Place(b, i, c) \in Nat /\ Place(b, i, c) < 8 * size /\ Place(b, i, c) < BitAfter(b, n, c)
        /\ Place(b, i, c) \in Free(b) \/ Place(b, i, c) >= 8 * c
  BY <1>1, PlaceIs
<1>7. \A e \in Nat : e < 8 * c => BitOf(d, e) \in {0, 1}
  BY <1>1, BitOfIsBit
<1>8. Keeps(d, w.data, b)
  <2> SUFFICES ASSUME NEW e \in 0 .. 8 * c - 1, e \notin Free(b) PROVE BitOf(w.data, e) = BitOf(d, e)
    BY <1>1, <1>3, <1>4 DEF Keeps
  <2>1. e \in Nat /\ e < 8 * c /\ e < 8 * size
    BY <1>1, <1>4
  <2>2. ~New(e)
    <3> SUFFICES ASSUME NEW i \in 0 .. n - 1, Place(b, i, c) = e PROVE FALSE
      OBVIOUS
    <3> DEFINE p == Place(b, i, c)
    <3>1. p \in Free(b) \/ p >= 8 * c
      BY <1>6
    <3>2. p = e
      OBVIOUS
    <3> HIDE DEF p
    <3> QED BY <1>1, <2>1, <3>1, <3>2
  <2> HIDE DEF New, w, d, b, c, size
  <2>3. BitOf(w.data, e) = IF BitOf(d, e) = 1 THEN 1 ELSE 0
    BY <1>5, <2>1, <2>2
  <2> QED BY <1>7, <2>1, <2>3
<1>9. ASSUME NEW i \in 0 .. n - 1 PROVE BitOf(w.data, Place(b, i, c)) = Bit(x, i)
  <2> DEFINE p == Place(b, i, c)
  <2>1. p \in Nat /\ p < 8 * size /\ (p \in Free(b) \/ p >= 8 * c)
    BY <1>6
  <2>2. New(p) <=> Bit(x, i) = 1
    <3>1. ASSUME NEW j \in 0 .. n - 1, Place(b, j, c) = p PROVE j = i
      <4>1. i \in Nat /\ j \in Nat
        OBVIOUS
      <4> QED BY <1>1, <3>1, <4>1, PlacesDiffer
    <3> QED BY <3>1
  <2>3. p < 8 * c => BitOf(d, p) = 0
    <3>1. p < 8 * c => p \in Free(b)
      BY <1>1, <2>1
    <3> QED BY <3>1 DEF Blank
  <2>4. Bit(x, i) \in {0, 1}
    <3>1. i \in 0 .. 32
      OBVIOUS
    <3> QED BY <3>1, BitIs
  <2> HIDE DEF p, w, New, size, d, b, c
  <2>5. BitOf(w.data, p) = IF (p < 8 * c /\ BitOf(d, p) = 1) \/ New(p) THEN 1 ELSE 0
    BY <1>5, <2>1
  <2>6. BitOf(w.data, p) = Bit(x, i)
    BY <2>2, <2>3, <2>4, <2>5
  <2> QED BY <2>6 DEF p
<1>10. Blank(w.data, BitAfter(b, n, c))
  <2> SUFFICES ASSUME NEW e \in Free(BitAfter(b, n, c)) PROVE BitOf(w.data, e) = 0
    BY DEF Blank
  <2>1. e \in Nat /\ BitAfter(b, n, c) <= e /\ e < 8 * size /\ (e \in Free(b) \/ e >= 8 * c)
    BY <1>1, FreeAfter
  <2>2. ~New(e)
    <3> SUFFICES ASSUME NEW i \in 0 .. n - 1, Place(b, i, c) = e PROVE FALSE
      OBVIOUS
    <3> DEFINE p == Place(b, i, c)
               a == BitAfter(b, n, c)
    <3>1. p \in Nat /\ p < a
      BY <1>6
    <3>2. a \in Nat
      <4>1. a \in 0 .. 8 * (c + NewBytes(b, n))
        BY <1>1, BitAfterIs
      <4> QED BY <1>1, <1>4, <4>1
    <3>3. p = e /\ a <= e
      BY <2>1
    <3> HIDE DEF p, a
    <3> QED BY <3>1, <3>2, <3>3
  <2>3. e < 8 * c => BitOf(d, e) = 0
    <3>1. e < 8 * c => e \in Free(b)
      BY <1>1, <2>1
    <3> QED BY <3>1 DEF Blank
  <2> HIDE DEF New, w, d, b, c, size
  <2> QED BY <1>5, <2>1, <2>2, <2>3
<1> HIDE DEF w
<1> QED BY <1>8, <1>9, <1>10 DEF w

\* The same for bytes that are added.
LEMMA BytesWrite ==
  ASSUME NEW d, NEW e, Whole(d), Whole(e), NEW b \in Nat, b <= 8 * Len(d), Blank(d, b)
  PROVE  /\ Keeps(d, d \o e, b) /\ Blank(d \o e, b)
         /\ \A j \in 1 .. Len(e) : (d \o e)[Len(d) + j] = e[j]
<1>1. /\ d \in Seq(Byte) /\ e \in Seq(Byte) /\ Len(d) \in Nat /\ Len(e) \in Nat
      /\ Whole(d \o e) /\ Len(d \o e) = Len(d) + Len(e)
  BY WholeJoined DEF Whole
<1>2. \A j \in 1 .. Len(d) : (d \o e)[j] = d[j]
  BY <1>1
<1>3. \A j \in 1 .. Len(e) : (d \o e)[Len(d) + j] = e[j]
  BY <1>1
<1>4. \A x \in Nat : x < 8 * Len(d) => BitOf(d \o e, x) = BitOf(d, x)
  <2> SUFFICES ASSUME NEW x \in Nat, x < 8 * Len(d) PROVE BitOf(d \o e, x) = BitOf(d, x)
    OBVIOUS
  <2>1. PICK j \in Nat \ {0}, k \in 0 .. 7 : x = 8 * (j - 1) + k /\ j <= Len(d)
    BY <1>1, PlaceInByte
  <2>2. (d \o e)[j] = d[j]
    BY <1>1, <1>2, <2>1
  <2>3. BitOf(d, x) = Bit(d[j], k)
    BY <2>1, BitOfByte
  <2> DEFINE q == d \o e
  <2> HIDE DEF q
  <2>4. BitOf(q, x) = Bit(q[j], k)
    BY <2>1, BitOfByte
  <2> QED BY <2>2, <2>3, <2>4 DEF q
<1>5. \A x \in 0 .. 8 * Len(d) - 1 : x \in Nat /\ x < 8 * Len(d)
  BY <1>1
<1>6. \A x \in Free(b) : x \in Nat /\ x < 8 * Len(d)
  BY <1>1, FreeIs
<1>7. Len(d) <= Len(d \o e)
  BY <1>1
<1> QED BY <1>1, <1>3, <1>4, <1>5, <1>6, <1>7 DEF Keeps, Blank

----------------------------------------------------------------------------
(* An entry of the log: the bytes that stand for it, or its bits, and where *)
(* they are.  A place is the number of bytes and the bit that come next.    *)

At(v, i)    == IF i <= Len(v) THEN v[i] ELSE 0
Group(v, b) == <<At(v, 3 * b + 1), At(v, 3 * b + 2), At(v, 3 * b + 3)>>
Char(v, c)  == Sextet(Group(v, (c - 1) \div 4), ((c - 1) % 4) + 1)
Equals(n)   == (3 - (n % 3)) % 3
Characters(v) ==
  LET size == 4 * Ceil(Len(v), 3)
  IN  [c \in 1 .. size |-> IF c > size - Equals(Len(v)) THEN 64 ELSE Char(v, c)]

Code(in) ==
  CASE in.op = "string" -> Append(in.v, 0)
    [] in.op = "line"   -> Append(in.v, Newline)
    [] in.op = "base64" -> Characters(in.v)
    [] OTHER            -> in.v

After(p, in) ==
  IF IsBits(in) THEN <<p[1] + NewBytes(p[2], BitsIn(in)), BitAfter(p[2], BitsIn(in), p[1])>>
                ELSE <<p[1] + Len(Code(in)), p[2]>>

Holds(d, p, in) ==
  IF IsBits(in) THEN \A i \in 0 .. BitsIn(in) - 1 : BitOf(d, Place(p[2], i, p[1])) = Bit(in.v[1], i)
                ELSE \A j \in 1 .. Len(Code(in)) : d[p[1] + j] = Code(in)[j]

\* None of it is in a free place.
Apart(p, in, b) ==
  IF IsBits(in) THEN \A i \in 0 .. BitsIn(in) - 1 : Place(p[2], i, p[1]) \notin Free(b)
                ELSE \A j \in 1 .. Len(Code(in)), k \in 0 .. 7 : 8 * ((p[1] + j) - 1) + k \notin Free(b)

\* A copy that has room for all of it is all of it.
LEMMA CutAll ==
  ASSUME NEW d, Whole(d), NEW n \in Nat, Len(d) <= n
  PROVE  Cut(d, n) = d
<1>1. d \in Seq(Byte) /\ Len(d) \in Nat /\ Less(Len(d), n) = Len(d)
  BY DEF Whole, Less
<1>2. SubSeq(d, 1, Len(d)) = d
  BY <1>1
<1> QED BY <1>1, <1>2 DEF Cut

\* A group of three bytes holds those of the text, and zeros past its end.
LEMMA GroupIs ==
  ASSUME NEW v, Whole(v), NEW b \in Nat
  PROVE  \A i \in 1 .. 3 : Group(v, b)[i] = At(v, 3 * b + i) /\ Group(v, b)[i] \in Byte
<1>1. v \in Seq(Byte) /\ Len(v) \in Nat /\ 0 \in Byte
  BY DEF Whole, Byte
<1>2. \A i \in Nat \ {0} : At(v, i) \in Byte
  BY <1>1 DEF At
<1>3. At(v, 3 * b + 1) \in Byte /\ At(v, 3 * b + 2) \in Byte /\ At(v, 3 * b + 3) \in Byte
  BY <1>2
<1>4. \A i \in 1 .. 3 : i = 1 \/ i = 2 \/ i = 3
  OBVIOUS
<1> QED BY <1>3, <1>4 DEF Group

\* A base64 character stands for six bits.
LEMMA CharIs ==
  ASSUME NEW v, Whole(v), NEW c \in Nat \ {0}
  PROVE  Char(v, c) \in 0 .. 63
<1> DEFINE b == (c - 1) \div 4
           k == ((c - 1) % 4) + 1
<1>1. b \in Nat /\ k \in 1 .. 4
  OBVIOUS
<1>2. Char(v, c) = Sextet(Group(v, b), k)
  BY DEF Char
<1> HIDE DEF b, k
<1>3. \A i \in 1 .. 3 : Group(v, b)[i] = At(v, 3 * b + i) /\ Group(v, b)[i] \in Byte
  BY <1>1, GroupIs
<1>4. At(v, 3 * b + 1) \in Byte /\ At(v, 3 * b + 2) \in Byte /\ At(v, 3 * b + 3) \in Byte
  BY <1>3
<1> QED BY <1>1, <1>2, <1>4, SextetIs DEF Group

\* How many base64 characters a text has.
LEMMA CharactersAre ==
  ASSUME NEW v, Whole(v)
  PROVE  Whole(Characters(v)) /\ Len(Characters(v)) = 4 * Ceil(Len(v), 3) /\ Ceil(Len(v), 3) \in Nat
<1> DEFINE size == 4 * Ceil(Len(v), 3)
           c == Characters(v)
<1>1. Ceil(Len(v), 3) \in Nat /\ size \in Nat
  BY DEF Whole, Ceil
<1>2. c = [i \in 1 .. size |-> IF i > size - Equals(Len(v)) THEN 64 ELSE Char(v, i)]
  BY DEF Characters
<1> HIDE DEF c, size
<1>3. \A i \in 1 .. size : c[i] \in Byte
  <2> SUFFICES ASSUME NEW i \in 1 .. size PROVE c[i] \in Byte
    OBVIOUS
  <2>1. Char(v, i) \in 0 .. 63
    <3>1. i \in Nat \ {0}
      BY <1>1
    <3> QED BY <3>1, CharIs
  <2>2. c[i] \in 0 .. 64
    BY <1>2, <2>1
  <2>3. \A x \in 0 .. 64 : x \in Byte
    BY DEF Byte
  <2> QED BY <2>2, <2>3
<1>4. c = [i \in 1 .. size |-> c[i]]
  BY <1>2
<1>5. Whole(c) /\ Len(c) = size
  BY <1>1, <1>3, <1>4, WholeNumbered
<1> QED BY <1>1, <1>5 DEF c, size

\* The bytes an input is written as are bytes.
LEMMA CodeIs ==
  ASSUME NEW in \in Inputs, ~IsBits(in)
  PROVE  Whole(Code(in)) /\ Len(Code(in)) \in Nat /\ Whole(in.v) /\ Len(in.v) \in Nat
<1>1. in.op # "bits" /\ Whole(in.v) /\ Len(in.v) \in Nat
  BY InputsAssumption DEF IsBits, Whole
<1>2. Whole(Append(in.v, 0)) /\ Whole(Append(in.v, Newline))
  <2>1. 0 \in Byte /\ Newline \in Byte
    BY DEF Byte, Newline
  <2> QED BY <1>1, <2>1 DEF Whole
<1>3. Whole(Code(in))
  BY <1>1, <1>2, CharactersAre DEF Code
<1> QED BY <1>1, <1>3 DEF Whole

\* A legible number of bits is one number that fits in its width.
LEMMA BitInputIs ==
  ASSUME NEW in \in Inputs, IsBits(in), Legible(in)
  PROVE  /\ BitsIn(in) \in 0 .. 32 /\ in.v[1] \in Nat /\ in.v = <<in.v[1]>>
         /\ Shifted(in.v[1])[BitsIn(in)] = 0
<1>1. CASE in.op = "bits"
  <2>1. in.n \in 0 .. 32 /\ in.v \in [1 .. 1 -> Nat] /\ BitsIn(in) = in.n
    BY <1>1, InputsAssumption DEF BitsIn
  <2>2. in.v[1] \in Nat /\ in.v = <<in.v[1]>>
    BY <2>1
  <2>3. Shifted(in.v[1])[in.n] = 0
    BY <1>1 DEF Legible, Width
  <2> QED BY <2>1, <2>2, <2>3
<1>2. CASE in.op = "bit"
  <2>1. BitsIn(in) = 1 /\ in.v \in {<<0>>, <<1>>}
    BY <1>2 DEF BitsIn, Legible, Width
  <2>2. in.v[1] \in {0, 1} /\ in.v = <<in.v[1]>>
    BY <2>1
  <2>3. Shifted(in.v[1])[1] = 0
    <3> DEFINE x == in.v[1]
    <3>1. x \in Nat /\ x \div 2 = 0
      BY <2>2
    <3> HIDE DEF x
    <3>2. Shifted(x)[0] = x /\ \A k \in 1 .. 32 : Shifted(x)[k] = Shifted(x)[k - 1] \div 2
      BY <3>1, ShiftedIs
    <3>3. 1 \in 1 .. 32 /\ 1 - 1 = 0
      OBVIOUS
    <3>4. Shifted(x)[1] = Shifted(x)[0] \div 2
      BY <3>2, <3>3
    <3> QED BY <3>1, <3>2, <3>4 DEF x
  <2> QED BY <2>1, <2>2, <2>3
<1> QED BY <1>1, <1>2 DEF IsBits

\* What is written without an overflow is its code after what is there, or bits.
LEMMA WholeWritten ==
  ASSUME NEW m, Writable(m), NEW bytes, Whole(bytes), ~m.overflowed,
         NEW w, w = Number(m, bytes) \/ w = MSG_WriteData(m, bytes), ~w.overflowed
  PROVE  w.data = m.data \o bytes /\ w.cursize = m.cursize + Len(bytes) /\ w.bit = m.bit
<1>1. Room(m) \in Nat /\ Len(bytes) \in Nat /\ DOMAIN m = Parts
  BY DEF Room, Whole, Writable, Good, Fits
<1>2. \A r : DOMAIN r = Parts => Overflow(r).overflowed
  BY DEF Overflow, Parts
<1>3. \A d : DOMAIN WithBytes(m, d) = Parts
  BY <1>1 DEF WithBytes
<1>4. CASE Room(m) < Len(bytes)
  BY <1>1, <1>2, <1>3, <1>4 DEF Number, MSG_WriteData
<1>5. CASE ~(Room(m) < Len(bytes))
  <2>1. Cut(bytes, Room(m)) = bytes
    BY <1>1, <1>5, CutAll
  <2>2. w = WithBytes(m, bytes)
    BY <1>5, <2>1 DEF Number, MSG_WriteData
  <2> QED BY <1>1, <2>2 DEF WithBytes, Parts
<1> QED BY <1>4, <1>5

\* Base64 text that fits is appended as its characters.
LEMMA Base64Written ==
  ASSUME NEW m, Writable(m), NEW v, Whole(v), v # << >>, ~m.overflowed,
         NEW w, w = MSG_WriteBase64(m, v), ~w.overflowed
  PROVE  w.data = m.data \o Characters(v) /\ w.cursize = m.cursize + Len(Characters(v)) /\ w.bit = m.bit
<1> DEFINE len    == Len(v)
           full   == Ceil(len, 3)
           groups == Less(full, Room(m) \div 4)
           chars  == [c \in 1 .. 4 * groups |-> Char(v, c)]
           size   == m.cursize + 4 * groups
           equals == IF len = 0 THEN 3 ELSE Equals(len)
           marked == [j \in 1 .. size |-> IF j > size - equals THEN 64 ELSE (m.data \o chars)[j]]
           d      == m.data
           n      == m.cursize
           g      == 4 * full
           c      == Characters(v)
<1>1. /\ DOMAIN m = Parts /\ n \in Nat /\ Whole(d) /\ Len(d) = n /\ Room(m) \in Nat
  BY DEF Writable, Good, Fits, Room
<1>2. /\ w.data = IF size < 3 THEN m.data \o chars ELSE marked
      /\ w.cursize = size /\ w.bit = m.bit /\ w.overflowed = (m.overflowed \/ groups < full)
  BY <1>1 DEF MSG_WriteBase64, Parts, Char, Group, At, Equals
<1>3. len \in Nat \ {0} /\ full \in Nat \ {0} /\ g \in Nat /\ g >= 4
  <2>1. len \in Nat \ {0}
    BY DEF Whole
  <2> QED BY <2>1 DEF Ceil
<1>4. groups = full
  <2> HIDE DEF full
  <2>1. Room(m) \div 4 \in Nat
    BY <1>1
  <2>2. groups \in Nat /\ groups <= full
    BY <1>3, <2>1 DEF Less
  <2> HIDE DEF groups
  <2>3. ~(groups < full)
    BY <1>2
  <2> QED BY <1>3, <2>2, <2>3
<1>5. equals \in 0 .. 2 /\ equals = Equals(len)
  BY <1>3 DEF Equals
<1>6. c = [i \in 1 .. g |-> IF i > g - Equals(len) THEN 64 ELSE Char(v, i)]
  BY DEF Characters
<1>7. Whole(c) /\ Len(c) = g
  BY CharactersAre
<1>8. chars = [i \in 1 .. g |-> Char(v, i)] /\ size = n + g
  BY <1>4
<1>9. Whole(chars) /\ Len(chars) = g
  <2> HIDE DEF chars, g
  <2>1. \A x \in 0 .. 63 : x \in Byte
    BY DEF Byte
  <2>2. \A i \in 1 .. g : i \in Nat \ {0}
    BY <1>3
  <2>3. \A i \in 1 .. g : Char(v, i) \in Byte
    BY <2>1, <2>2, CharIs
  <2>4. chars = [i \in 1 .. g |-> chars[i]] /\ \A i \in 1 .. g : chars[i] \in Byte
    BY <1>8, <2>3
  <2> QED BY <1>3, <2>4, WholeNumbered
<1>10. marked = [j \in 1 .. size |-> IF j > size - equals THEN 64 ELSE (d \o chars)[j]]
  OBVIOUS
<1> HIDE DEF c, equals, full, groups, chars, size, marked, n, g, d, len
<1>11. marked = d \o c
  <2>0. size = n + g /\ size \in Nat
    BY <1>1, <1>3, <1>8
  <2>1. Whole(d \o c) /\ Len(d \o c) = size /\ Whole(d \o chars) /\ Len(d \o chars) = size
    BY <2>0, <1>1, <1>7, <1>9, WholeJoined
  <2>2. d \in Seq(Byte) /\ c \in Seq(Byte) /\ chars \in Seq(Byte)
    BY <1>1, <1>7, <1>9 DEF Whole
  <2>3. \A j \in 1 .. n : (d \o c)[j] = d[j] /\ (d \o chars)[j] = d[j]
    BY <2>2, <1>1
  <2>4. \A i \in 1 .. g : (d \o c)[n + i] = c[i] /\ (d \o chars)[n + i] = chars[i]
    BY <2>2, <1>1, <1>7, <1>9
  <2>5. ASSUME NEW j \in 1 .. size PROVE marked[j] = (d \o c)[j]
    <3>1. marked[j] = IF j > size - equals THEN 64 ELSE (d \o chars)[j]
      BY <1>10
    <3>2. CASE j <= n
      <4>1. j \in 1 .. n /\ ~(j > size - equals)
        BY <2>0, <1>1, <1>3, <1>5, <3>2
      <4> QED BY <2>3, <3>1, <4>1
    <3>3. CASE ~(j <= n)
      <4> DEFINE i == j - n
      <4>1. i \in 1 .. g /\ j = n + i /\ (j > size - equals <=> i > g - equals)
        BY <2>0, <1>1, <1>3, <1>5, <3>3
      <4> HIDE DEF i
      <4>2. (d \o c)[j] = c[i] /\ (d \o chars)[j] = chars[i]
        BY <2>4, <4>1
      <4>3. c[i] = IF i > g - equals THEN 64 ELSE chars[i]
        BY <1>5, <1>6, <1>8, <4>1
      <4> QED BY <3>1, <4>1, <4>2, <4>3
    <3> QED BY <3>2, <3>3
  <2>6. d \o c = [j \in 1 .. size |-> (d \o c)[j]]
    <3> DEFINE q == d \o c
               k == size
    <3>1. k \in Nat /\ q \in Seq(Byte) /\ Len(q) = k
      BY <2>0, <2>1 DEF Whole
    <3> HIDE DEF q, k
    <3>2. q = [j \in 1 .. k |-> q[j]]
      BY <3>1
    <3> QED BY <3>2 DEF q, k
  <2>7. marked = [j \in 1 .. size |-> marked[j]]
    BY <1>10
  <2> QED BY <2>5, <2>6, <2>7
<1>12. size >= 4
  BY <1>1, <1>3, <1>8
<1>13. w.data = marked
  BY <1>1, <1>2, <1>3, <1>8, <1>12
<1> QED BY <1>2, <1>7, <1>8, <1>11, <1>13 DEF c, d, n

\* A write that does not overflow puts the entry at the place that comes next.
LEMMA EntryWritten ==
  ASSUME NEW m, Writable(m), ~m.overflowed, Blank(m.data, m.bit),
         NEW in \in Inputs, Legible(in), NEW w, w = Written(m, in), ~w.overflowed
  PROVE  /\ After(<<m.cursize, m.bit>>, in) = <<w.cursize, w.bit>>
         /\ Holds(w.data, <<m.cursize, m.bit>>, in)
         /\ Apart(<<m.cursize, m.bit>>, in, w.bit)
         /\ Keeps(m.data, w.data, m.bit) /\ Blank(w.data, w.bit)
         /\ \A x \in Free(w.bit) : x \in Free(m.bit) \/ x >= 8 * m.cursize
<1> DEFINE p == <<m.cursize, m.bit>>
<1>1. /\ DOMAIN m = Parts /\ m.cursize \in Nat /\ m.bit \in Nat /\ m.bit <= 8 * m.cursize
      /\ Whole(m.data) /\ Len(m.data) = m.cursize
  BY DEF Writable, Good, Fits
<1>2. CASE IsBits(in)
  <2> DEFINE n == BitsIn(in)
             x == in.v[1]
             v == WithBits(m, x, n)
  <2>1. n \in 0 .. 32 /\ n \in Nat /\ x \in Nat /\ in.v = <<x>>
    <3>1. n \in 0 .. 32 /\ x \in Nat /\ in.v = <<x>>
      BY <1>2, BitInputIs
    <3> QED BY <3>1
  <2>2. w = v /\ NewBytes(m.bit, n) <= Room(m)
    <3>1. Overflow(m).overflowed
      BY <1>1 DEF Overflow, Parts
    <3>2. Rest(m.bit) \in 0 .. 7 /\ (Rest(m.bit) = 0 <=> m.bit % 8 = 0) /\ Room(m) \in Nat
      BY <1>1, RestIs DEF Room, Writable, Good, Fits
    <3>3. CASE in.op = "bits"
      <4>1. w = MSG_WriteBits(m, x, n)
        BY <3>3 DEF Written, BitsIn
      <4>2. w = v /\ ~(Room(m) < 4)
        BY <3>1, <4>1 DEF MSG_WriteBits
      <4>3. NewBytes(m.bit, n) <= 4
        BY <2>1, <3>2, NewBytesAre
      <4>4. NewBytes(m.bit, n) \in Nat
        BY <2>1, <3>2, NewBytesAre
      <4> QED BY <3>2, <4>2, <4>3, <4>4
    <3>4. CASE in.op = "bit"
      <4>1. n = 1 /\ in.v \in {<<0>>, <<1>>}
        BY <3>4 DEF BitsIn, Legible, Width
      <4>2. w = WriteBit(m, x)
        <5>1. CASE in.v = <<0>>
          BY <3>4, <5>1 DEF Written, MSG_WriteBit0
        <5>2. CASE in.v = <<1>>
          BY <3>4, <5>2 DEF Written, MSG_WriteBit1
        <5> QED BY <4>1, <5>1, <5>2
      <4>3. w = WithBits(m, x, 1) /\ ~(m.bit % 8 = 0 /\ Room(m) <= 0)
        BY <3>1, <4>2 DEF WriteBit
      <4>4. NewBytes(m.bit, 1) = IF Rest(m.bit) = 0 THEN 1 ELSE 0
        BY <3>2 DEF NewBytes, Ceil
      <4> QED BY <3>2, <4>1, <4>3, <4>4
    <3> QED BY <1>2, <3>3, <3>4 DEF IsBits
  <2>3. w.cursize = m.cursize + NewBytes(m.bit, n) /\ w.bit = BitAfter(m.bit, n, m.cursize)
    BY <1>1, <2>2 DEF WithBits, Parts
  <2>4. /\ Keeps(m.data, w.data, m.bit)
        /\ \A i \in 0 .. n - 1 : BitOf(w.data, Place(m.bit, i, m.cursize)) = Bit(x, i)
        /\ Blank(w.data, w.bit)
    <3>1. /\ Keeps(m.data, v.data, m.bit)
          /\ \A i \in 0 .. n - 1 : BitOf(v.data, Place(m.bit, i, m.cursize)) = Bit(x, i)
          /\ Blank(v.data, BitAfter(m.bit, n, m.cursize))
      BY <2>1, <2>2, BitsWrite
    <3> HIDE DEF v, n, x
    <3> QED BY <2>2, <2>3, <3>1
  <2>5. \A i \in 0 .. n - 1 : Place(m.bit, i, m.cursize) \notin Free(w.bit)
    <3> SUFFICES ASSUME NEW i \in 0 .. n - 1, Place(m.bit, i, m.cursize) \in Free(w.bit) PROVE FALSE
      OBVIOUS
    <3> DEFINE q == Place(m.bit, i, m.cursize)
               a == BitAfter(m.bit, n, m.cursize)
    <3>1. q \in Nat /\ q < a
      BY <1>1, <2>1, PlaceIs
    <3>2. a <= q
      BY <1>1, <2>1, <2>3, FreeAfter
    <3>3. a \in Nat
      <4>1. NewBytes(m.bit, n) \in Nat
        BY <1>1, <2>1, RestIs, NewBytesAre
      <4>2. a \in 0 .. 8 * (m.cursize + NewBytes(m.bit, n))
        BY <1>1, <2>1, BitAfterIs
      <4> QED BY <1>1, <4>1, <4>2
    <3> HIDE DEF q, a
    <3> QED BY <3>1, <3>2, <3>3
  <2>6. \A y \in Free(w.bit) : y \in Free(m.bit) \/ y >= 8 * m.cursize
    BY <1>1, <2>1, <2>3, FreeAfter
  <2> HIDE DEF n, x, v
  <2>7. After(p, in) = <<w.cursize, w.bit>>
    BY <1>2, <2>3 DEF After, n
  <2>8. Holds(w.data, p, in)
    BY <1>2, <2>4 DEF Holds, n, x
  <2>9. Apart(p, in, w.bit)
    BY <1>2, <2>5 DEF Apart, n
  <2> QED BY <2>4, <2>6, <2>7, <2>8, <2>9
<1>3. CASE ~IsBits(in)
  <2> DEFINE c == Code(in)
             u == in.v
  <2>1. Whole(c) /\ Len(c) \in Nat /\ Whole(u) /\ Len(u) \in Nat
    BY <1>3, CodeIs
  <2>2. in.op \in {"byte", "short", "long", "int64", "data", "string", "line", "base64"}
    BY <1>3, InputsAssumption DEF IsBits
  <2>3. w.data = m.data \o c /\ w.cursize = m.cursize + Len(c) /\ w.bit = m.bit
    <3>1. CASE in.op \in {"byte", "short", "long", "int64"}
      <4>1. w = Number(m, u) /\ c = u
        BY <3>1 DEF Written, Code, MSG_WriteByte, MSG_WriteShort, MSG_WriteLong, MSG_WriteInt64
      <4> HIDE DEF c, u
      <4> QED BY <2>1, <4>1, WholeWritten
    <3>2. CASE in.op = "data"
      <4>1. w = MSG_WriteData(m, u) /\ c = u
        BY <3>2 DEF Written, Code
      <4> HIDE DEF c, u
      <4>2. w = Number(m, c) \/ w = MSG_WriteData(m, c)
        BY <4>1
      <4> QED BY <2>1, <4>2, WholeWritten
    <3>3. CASE in.op = "string"
      <4>1. w = MSG_WriteString(m, u) /\ c = Append(u, 0)
        BY <3>3 DEF Written, Code
      <4>2. Len(u) < MaxString
        BY <3>3 DEF Legible, Width
      <4> HIDE DEF c, u
      <4>3. w = MSG_WriteData(m, c)
        BY <2>1, <4>1, <4>2, SizesAssumption DEF MSG_WriteString
      <4> QED BY <2>1, <4>3, WholeWritten
    <3>4. CASE in.op = "line"
      <4>1. w = MSG_WriteData(m, c)
        BY <3>4 DEF Written, Code
      <4> HIDE DEF c, u
      <4> QED BY <2>1, <4>1, WholeWritten
    <3>5. CASE in.op = "base64"
      <4>1. w = MSG_WriteBase64(m, u) /\ c = Characters(u)
        BY <3>5 DEF Written, Code
      <4>2. u # << >>
        BY <3>5 DEF Legible, Width
      <4> HIDE DEF c, u
      <4>3. w.data = m.data \o Characters(u) /\ w.cursize = m.cursize + Len(Characters(u)) /\ w.bit = m.bit
        BY <2>1, <4>1, <4>2, Base64Written, SMTT(30)
      <4> QED BY <4>1, <4>3
    <3> QED BY <2>2, <3>1, <3>2, <3>3, <3>4, <3>5
  <2> HIDE DEF c
  <2>4. /\ Keeps(m.data, w.data, m.bit) /\ Blank(w.data, w.bit)
        /\ \A j \in 1 .. Len(c) : w.data[m.cursize + j] = c[j]
    <3> DEFINE d == m.data
               b == m.bit
    <3>1. Whole(d) /\ b \in Nat /\ b <= 8 * Len(d) /\ Blank(d, b) /\ Len(d) = m.cursize
      BY <1>1
    <3>2. w.data = d \o c /\ w.bit = b
      BY <2>3
    <3> HIDE DEF d, b
    <3>3. /\ Keeps(d, d \o c, b) /\ Blank(d \o c, b)
          /\ \A j \in 1 .. Len(c) : (d \o c)[Len(d) + j] = c[j]
      BY <2>1, <3>1, BytesWrite
    <3>4. Keeps(d, w.data, b) /\ Blank(w.data, w.bit)
      BY <3>2, <3>3
    <3>5. \A j \in 1 .. Len(c) : w.data[m.cursize + j] = c[j]
      BY <3>1, <3>2, <3>3
    <3> QED BY <3>4, <3>5 DEF d, b
  <2>5. \A x \in Free(w.bit) : x \in Nat /\ x < 8 * m.cursize
    BY <1>1, <2>3, FreeIs
  <2>6. \A j \in 1 .. Len(c), k \in 0 .. 7 : 8 * ((m.cursize + j) - 1) + k \notin Free(w.bit)
    <3> SUFFICES ASSUME NEW j \in 1 .. Len(c), NEW k \in 0 .. 7
                 PROVE  8 * ((m.cursize + j) - 1) + k \notin Free(w.bit)
      OBVIOUS
    <3>1. m.cursize \in Nat /\ j \in Nat \ {0} /\ k \in Nat
      BY <1>1, <2>1
    <3>2. ~(8 * ((m.cursize + j) - 1) + k < 8 * m.cursize)
      BY <3>1
    <3> QED BY <2>5, <3>2
  <2>7. After(p, in) = <<w.cursize, w.bit>>
    BY <1>3, <2>3 DEF After, c
  <2>8. Holds(w.data, p, in)
    BY <1>3, <2>4 DEF Holds, c
  <2>9. Apart(p, in, w.bit)
    BY <1>3, <2>6 DEF Apart, c
  <2>10. \A x \in Free(w.bit) : x \in Free(m.bit)
    BY <2>3
  <2> QED BY <2>4, <2>7, <2>8, <2>9, <2>10
<1> QED BY <1>2, <1>3

\* A place in a message.
IsPlace(p) == p \in Nat \X Nat /\ p[2] <= 8 * p[1]

\* The place after an entry is a place, and no earlier one.
LEMMA AfterIsPlace ==
  ASSUME NEW p, IsPlace(p), NEW in \in Inputs, Legible(in)
  PROVE  IsPlace(After(p, in)) /\ p[1] <= After(p, in)[1]
<1>1. p[1] \in Nat /\ p[2] \in Nat /\ p[2] <= 8 * p[1]
  BY DEF IsPlace
<1>2. CASE IsBits(in)
  <2> DEFINE n == BitsIn(in)
             k == NewBytes(p[2], n)
             a == BitAfter(p[2], n, p[1])
  <2>1. n \in 0 .. 32
    BY <1>2, BitInputIs
  <2>2. n \in Nat
    BY <2>1
  <2>3. k \in Nat
    BY <1>1, <2>2, RestIs, NewBytesAre
  <2>4. a \in 0 .. 8 * (p[1] + k)
    BY <1>1, <2>2, BitAfterIs
  <2>5. After(p, in) = <<p[1] + k, a>>
    BY <1>2 DEF After
  <2> HIDE DEF k, a, n
  <2>6. p[1] + k \in Nat /\ a \in Nat /\ a <= 8 * (p[1] + k) /\ p[1] <= p[1] + k
    BY <1>1, <2>3, <2>4
  <2> QED BY <2>5, <2>6 DEF IsPlace
<1>3. CASE ~IsBits(in)
  <2> DEFINE k == Len(Code(in))
  <2>1. k \in Nat
    BY <1>3, CodeIs
  <2>2. After(p, in) = <<p[1] + k, p[2]>>
    BY <1>3 DEF After
  <2> HIDE DEF k
  <2>3. p[1] + k \in Nat /\ p[2] <= 8 * (p[1] + k) /\ p[1] <= p[1] + k
    BY <1>1, <2>1
  <2> QED BY <1>1, <2>2, <2>3 DEF IsPlace
<1> QED BY <1>2, <1>3

\* Where the bits and the bytes of an entry are: before the place after it.
LEMMA PlacesOfEntry ==
  ASSUME NEW p, IsPlace(p), NEW in \in Inputs, Legible(in), NEW c \in Nat, After(p, in)[1] <= c
  PROVE  /\ IsBits(in) => \A i \in 0 .. BitsIn(in) - 1 :
                            Place(p[2], i, p[1]) \in Nat /\ Place(p[2], i, p[1]) < 8 * c
         /\ ~IsBits(in) => \A j \in 1 .. Len(Code(in)) : p[1] + j \in Nat \ {0} /\ p[1] + j <= c
<1>1. p[1] \in Nat /\ p[2] \in Nat /\ p[2] <= 8 * p[1]
  BY DEF IsPlace
<1>2. ASSUME IsBits(in), NEW i \in 0 .. BitsIn(in) - 1
      PROVE  Place(p[2], i, p[1]) \in Nat /\ Place(p[2], i, p[1]) < 8 * c
  <2> DEFINE n == BitsIn(in)
             k == NewBytes(p[2], n)
             q == Place(p[2], i, p[1])
  <2>1. n \in 0 .. 32
    BY <1>2, BitInputIs
  <2>2. n \in Nat
    BY <2>1
  <2>3. k \in Nat
    BY <1>1, <2>2, RestIs, NewBytesAre
  <2>4. q \in Nat /\ q < 8 * (p[1] + k)
    BY <1>1, <2>2, PlaceIs
  <2>5. p[1] + k <= c
    BY <1>2 DEF After
  <2> HIDE DEF k, q, n
  <2>6. q < 8 * c
    BY <1>1, <2>3, <2>4, <2>5
  <2> QED BY <2>4, <2>6 DEF q
<1>3. ASSUME ~IsBits(in), NEW j \in 1 .. Len(Code(in)) PROVE p[1] + j \in Nat \ {0} /\ p[1] + j <= c
  <2>1. Len(Code(in)) \in Nat /\ p[1] + Len(Code(in)) <= c
    BY <1>3, CodeIs DEF After
  <2> QED BY <1>1, <2>1
<1> QED BY <1>2, <1>3

\* What was written stays what it is when more is written, and out of the way of it.
LEMMA EntryStays ==
  ASSUME NEW d, NEW e, NEW b, Keeps(d, e, b), NEW p, IsPlace(p), NEW in \in Inputs, Legible(in),
         After(p, in)[1] <= Len(d), Holds(d, p, in), Apart(p, in, b)
  PROVE  Holds(e, p, in)
<1>1. /\ Whole(d) /\ Whole(e) /\ Len(d) \in Nat /\ Len(e) \in Nat /\ Len(d) <= Len(e)
      /\ \A x \in 0 .. 8 * Len(d) - 1 : x \notin Free(b) => BitOf(e, x) = BitOf(d, x)
  BY DEF Keeps, Whole
<1>2. ASSUME NEW x \in Nat, x < 8 * Len(d), x \notin Free(b) PROVE BitOf(e, x) = BitOf(d, x)
  <2>1. x \in 0 .. 8 * Len(d) - 1
    BY <1>1, <1>2
  <2> QED BY <1>1, <1>2, <2>1
<1>3. CASE IsBits(in)
  <2> SUFFICES ASSUME NEW i \in 0 .. BitsIn(in) - 1
               PROVE  BitOf(e, Place(p[2], i, p[1])) = Bit(in.v[1], i)
    BY <1>3 DEF Holds
  <2> DEFINE x == Place(p[2], i, p[1])
  <2>1. x \in Nat /\ x < 8 * Len(d)
    BY <1>1, <1>3, PlacesOfEntry
  <2>2. x \notin Free(b) /\ BitOf(d, x) = Bit(in.v[1], i)
    BY <1>3 DEF Apart, Holds
  <2> HIDE DEF x
  <2>3. BitOf(e, x) = Bit(in.v[1], i)
    BY <1>2, <2>1, <2>2
  <2> QED BY <2>3 DEF x
<1>4. CASE ~IsBits(in)
  <2> SUFFICES ASSUME NEW j \in 1 .. Len(Code(in)) PROVE e[p[1] + j] = Code(in)[j]
    BY <1>4 DEF Holds
  <2> DEFINE y == p[1] + j
  <2>1. y \in Nat \ {0} /\ y <= Len(d)
    BY <1>1, <1>4, PlacesOfEntry
  <2>2. d[y] = Code(in)[j] /\ \A k \in 0 .. 7 : 8 * (y - 1) + k \notin Free(b)
    <3>1. d[p[1] + j] = Code(in)[j]
      BY <1>4 DEF Holds
    <3>2. \A k \in 0 .. 7 : 8 * ((p[1] + j) - 1) + k \notin Free(b)
      BY <1>4 DEF Apart
    <3> QED BY <3>1, <3>2
  <2> HIDE DEF y
  <2>3. d[y] \in Byte /\ e[y] \in Byte
    BY <1>1, <2>1 DEF Whole
  <2>4. ASSUME NEW k \in 0 .. 7 PROVE Bit(e[y], k) = Bit(d[y], k)
    <3>1. 8 * (y - 1) + k \in Nat /\ 8 * (y - 1) + k < 8 * Len(d)
      BY <1>1, <2>1
    <3>2. BitOf(e, 8 * (y - 1) + k) = BitOf(d, 8 * (y - 1) + k)
      BY <1>2, <2>2, <3>1
    <3>3. BitOf(e, 8 * (y - 1) + k) = Bit(e[y], k)
      BY <2>1, BitOfByte
    <3>4. BitOf(d, 8 * (y - 1) + k) = Bit(d[y], k)
      BY <2>1, BitOfByte
    <3> QED BY <3>2, <3>3, <3>4
  <2>5. e[y] = d[y]
    BY <2>3, <2>4, SameBitsSameByte
  <2> QED BY <2>2, <2>5 DEF y
<1> QED BY <1>3, <1>4

\* No place becomes free that was taken.
StaysTaken(b, a, c) == \A x \in Free(a) : x \in Free(b) \/ x >= 8 * c

\* An entry clear of the free bits stays clear of them: a write only takes free bits.
LEMMA EntryStaysApart ==
  ASSUME NEW b, NEW a, NEW c \in Nat, StaysTaken(b, a, c),
         NEW p, IsPlace(p), NEW in \in Inputs, Legible(in), After(p, in)[1] <= c, Apart(p, in, b)
  PROVE  Apart(p, in, a)
<1>1. CASE IsBits(in)
  <2>1. \A i \in 0 .. BitsIn(in) - 1 : Place(p[2], i, p[1]) \in Nat /\ ~(Place(p[2], i, p[1]) >= 8 * c)
    <3> SUFFICES ASSUME NEW i \in 0 .. BitsIn(in) - 1
                 PROVE  Place(p[2], i, p[1]) \in Nat /\ ~(Place(p[2], i, p[1]) >= 8 * c)
      OBVIOUS
    <3> DEFINE x == Place(p[2], i, p[1])
    <3>1. x \in Nat /\ x < 8 * c
      BY <1>1, PlacesOfEntry
    <3> HIDE DEF x
    <3>2. ~(x >= 8 * c)
      BY <3>1
    <3> QED BY <3>1, <3>2 DEF x
  <2> QED BY <1>1, <2>1 DEF Apart, StaysTaken
<1>2. CASE ~IsBits(in)
  <2> SUFFICES ASSUME NEW j \in 1 .. Len(Code(in)), NEW k \in 0 .. 7
               PROVE  8 * ((p[1] + j) - 1) + k \notin Free(a)
    BY <1>2 DEF Apart
  <2>1. p[1] + j \in Nat \ {0} /\ p[1] + j <= c
    BY <1>2, PlacesOfEntry
  <2>2. ~(8 * ((p[1] + j) - 1) + k >= 8 * c)
    <3> DEFINE y == p[1] + j
    <3>1. y \in Nat /\ y <= c
      BY <2>1
    <3> HIDE DEF y
    <3>2. ~(8 * (y - 1) + k >= 8 * c)
      BY <3>1
    <3> QED BY <3>2 DEF y
  <2>3. 8 * ((p[1] + j) - 1) + k \notin Free(b)
    BY <1>2 DEF Apart
  <2> QED BY <2>2, <2>3 DEF StaysTaken
<1> QED BY <1>1, <1>2

----------------------------------------------------------------------------
(* Reading.  The bytes of a message that comes in two pieces are those of   *)
(* the one followed by those of the other.                                  *)

Full(m) == m.data \o m.splitdata

Pieces(m) == Len(m.data) = m.cursize /\ Len(m.splitdata) = m.splitsize

\* The bytes of both pieces, one after the other.
LEMMA FullIs ==
  ASSUME NEW m, Good(m), Pieces(m)
  PROVE  /\ Whole(Full(m)) /\ Len(Full(m)) = m.cursize + m.splitsize
         /\ m.splitdata = << >> => Full(m) = m.data
         /\ \A j \in 1 .. m.cursize : Full(m)[j] = m.data[j]
         /\ \A j \in 1 .. m.splitsize : Full(m)[m.cursize + j] = m.splitdata[j]
<1>1. /\ m.data \in Seq(Byte) /\ m.splitdata \in Seq(Byte)
      /\ Len(m.data) = m.cursize /\ Len(m.splitdata) = m.splitsize
  BY DEF Good, Whole, Pieces
<1>2. Whole(Full(m)) /\ Len(Full(m)) = m.cursize + m.splitsize
  BY <1>1, WholeJoined DEF Full, Whole
<1>3. m.splitdata = << >> => Full(m) = m.data
  BY <1>1 DEF Full
<1> DEFINE d == m.data
           e == m.splitdata
           c == m.cursize
           l == m.splitsize
<1>4. d \in Seq(Byte) /\ e \in Seq(Byte) /\ Len(d) = c /\ Len(e) = l
  BY <1>1
<1> HIDE DEF d, e, c, l
<1>5. \A j \in 1 .. c : (d \o e)[j] = d[j]
  BY <1>4
<1>6. \A j \in 1 .. l : (d \o e)[c + j] = e[j]
  BY <1>4
<1> QED BY <1>2, <1>3, <1>5, <1>6 DEF Full, d, e, c, l

\* The bit that is read, in whichever piece it lies, is the bit of the whole message.
LEMMA BitAtIs ==
  ASSUME NEW m, Good(m), Pieces(m), NEW x \in Nat, x < 8 * (m.cursize + m.splitsize)
  PROVE  BitAt(m, x) = BitOf(Full(m), x)
<1>1. m.cursize \in Nat /\ m.splitsize \in Nat
  BY DEF Good, Fits
<1> DEFINE j == x \div 8 + 1
<1>2. j \in Nat \ {0} /\ j <= m.cursize + m.splitsize
  BY <1>1
<1>3. /\ BitAt(m, x) = IF j <= m.cursize THEN Bit(m.data[j], x % 8)
                                         ELSE Bit(m.splitdata[j - m.cursize], x % 8)
      /\ BitOf(Full(m), x) = Bit(Full(m)[j], x % 8)
  BY DEF BitAt, BitOf
<1> HIDE DEF j
<1>4. CASE j <= m.cursize
  <2>1. Full(m)[j] = m.data[j]
    BY <1>1, <1>2, <1>4, FullIs
  <2> QED BY <1>3, <1>4, <2>1
<1>5. CASE ~(j <= m.cursize)
  <2> DEFINE i == j - m.cursize
  <2>1. i \in 1 .. m.splitsize /\ m.cursize + i = j
    BY <1>1, <1>2, <1>5
  <2> HIDE DEF i
  <2>2. Full(m)[m.cursize + i] = m.splitdata[i]
    BY <2>1, FullIs
  <2>3. Full(m)[j] = m.splitdata[i]
    BY <2>1, <2>2
  <2> QED BY <1>3, <1>5, <2>3 DEF i
<1> QED BY <1>4, <1>5

\* Bits are read from where they are.
LEMMA BitsReadBack ==
  ASSUME NEW m, Readable(m), Pieces(m), NEW in \in Inputs, IsBits(in), Legible(in),
         Holds(Full(m), <<m.readcount, m.bit>>, in),
         After(<<m.readcount, m.bit>>, in)[1] <= m.cursize + m.splitsize
  PROVE  /\ ReadAs(m, in).value = in.v
         /\ After(<<m.readcount, m.bit>>, in) = <<ReadAs(m, in).msg.readcount, ReadAs(m, in).msg.bit>>
<1> DEFINE n == BitsIn(in)
           x == in.v[1]
           k == NewBytes(m.bit, n)
           end == m.cursize + m.splitsize
           a == BitAfter(m.bit, n, m.readcount)
           bits == {i \in 0 .. n - 1 : BitAt(m, Place(m.bit, i, m.readcount)) = 1}
           r == MSG_ReadBits(m, n)
<1>1. n \in 0 .. 32 /\ x \in Nat /\ in.v = <<x>> /\ Shifted(x)[n] = 0
  BY BitInputIs
<1>2. /\ Good(m) /\ DOMAIN m = Parts /\ m.readcount \in Nat /\ m.bit \in Nat
      /\ m.bit <= 8 * m.readcount /\ end \in Nat
  BY DEF Readable, Good, Fits
<1>3. ReadAs(m, in) = r
  <2>1. CASE in.op = "bits"
    BY <2>1 DEF ReadAs, BitsIn
  <2>2. CASE in.op = "bit"
    BY <2>2 DEF ReadAs, BitsIn, MSG_ReadBit
  <2> QED BY <2>1, <2>2 DEF IsBits
<1>4. n \in Nat /\ k \in Nat
  <2>1. n \in Nat
    BY <1>1
  <2> QED BY <2>1, <1>2, RestIs, NewBytesAre
<1>5. After(<<m.readcount, m.bit>>, in) = <<m.readcount + k, a>> /\ m.readcount + k <= end
  BY DEF After
<1>6. r = [msg |-> [m EXCEPT !.readcount = m.readcount + k, !.bit = a], value |-> <<OfBits(bits)>>]
  <2> HIDE DEF k, n, a, bits, end
  <2>1. ~(m.readcount + k > end)
    BY <1>2, <1>4, <1>5
  <2> QED BY <2>1 DEF MSG_ReadBits, k, a, bits, end
<1>7. r.msg.readcount = m.readcount + k /\ r.msg.bit = a /\ r.value = <<OfBits(bits)>>
  <2> HIDE DEF k, n, a, bits, r
  <2> QED BY <1>2, <1>6 DEF Parts
<1>8. ASSUME NEW i \in 0 .. n - 1
      PROVE  BitAt(m, Place(m.bit, i, m.readcount)) = Bit(x, i)
  <2> DEFINE q == Place(m.bit, i, m.readcount)
  <2>1. q \in Nat /\ q < 8 * (m.readcount + k)
    BY <1>2, <1>4, PlaceIs
  <2>2. BitOf(Full(m), q) = Bit(x, i)
    BY DEF Holds
  <2> HIDE DEF q, k, n, x, end
  <2>3. q < 8 * end
    BY <1>2, <1>4, <1>5, <2>1
  <2>4. BitAt(m, q) = BitOf(Full(m), q)
    BY <1>2, <2>1, <2>3, BitAtIs DEF end
  <2> QED BY <2>2, <2>4 DEF q
<1>9. OfBits(bits) = x
  <2>1. \A i \in 0 .. 31 : i \in bits <=> i < n /\ Bit(x, i) = 1
    <3> HIDE DEF x
    <3>1. \A i \in 0 .. 31 : i \in 0 .. n - 1 <=> i < n
      BY <1>4
    <3> HIDE DEF n
    <3> QED BY <1>8, <3>1
  <2> HIDE DEF bits, x, n
  <2> QED BY <1>1, <2>1, BitsMakeNumber
<1> HIDE DEF r, a, k, x, bits
<1> QED BY <1>1, <1>3, <1>5, <1>7, <1>9

\* What is not yet read starts with v.
Starts(m, v) == Len(v) <= Len(Unread(m)) /\ \A j \in 1 .. Len(v) : Unread(m)[j] = v[j]

\* If an entry's bytes lie at the read position, the unread part starts with them.
LEMMA StartsIs ==
  ASSUME NEW m, Readable(m), Pieces(m), m.splitdata = << >>, NEW c, Whole(c),
         m.readcount + Len(c) <= m.cursize, \A j \in 1 .. Len(c) : Full(m)[m.readcount + j] = c[j]
  PROVE  Starts(m, c) /\ Whole(Unread(m)) /\ Len(Unread(m)) \in Nat
<1>1. m.readcount \in Nat /\ m.cursize \in Nat /\ Good(m) /\ Len(c) \in Nat
  BY DEF Readable, Good, Fits, Whole
<1>2. /\ Whole(Unread(m)) /\ Len(Unread(m)) \in Nat
      /\ Len(Unread(m)) = IF m.readcount < m.cursize THEN m.cursize - m.readcount ELSE 0
      /\ \A j \in 1 .. Len(Unread(m)) : Unread(m)[j] = m.data[m.readcount + j]
  BY <1>1, UnreadIs
<1>3. Full(m) = m.data
  BY <1>1, FullIs
<1> DEFINE u == Unread(m)
<1> HIDE DEF u
<1>4. Len(c) <= Len(u)
  BY <1>1, <1>2 DEF u
<1>5. \A j \in 1 .. Len(c) : u[j] = c[j]
  BY <1>1, <1>2, <1>3, <1>4 DEF u
<1> QED BY <1>2, <1>4, <1>5 DEF Starts, u

\* The first bytes of a sequence that starts with v are v.
LEMMA PrefixIs ==
  ASSUME NEW u, Whole(u), NEW v, Whole(v), Len(v) <= Len(u), \A j \in 1 .. Len(v) : u[j] = v[j]
  PROVE  SubSeq(u, 1, Len(v)) = v /\ Cut(u, Len(v)) = v
<1>1. u \in Seq(Byte) /\ v \in Seq(Byte) /\ Len(u) \in Nat /\ Len(v) \in Nat
  BY DEF Whole
<1> DEFINE n == Len(v)
           s == SubSeq(u, 1, n)
<1>2. s \in Seq(Byte) /\ Len(s) = n /\ \A j \in 1 .. n : s[j] = u[j]
  BY <1>1
<1>3. n \in Nat /\ Len(v) = n /\ \A j \in 1 .. n : s[j] = v[j]
  BY <1>1, <1>2
<1> HIDE DEF n, s
<1>4. s = v
  BY <1>1, <1>2, <1>3
<1>5. Cut(u, n) = s
  BY <1>1 DEF Cut, Less, s, n
<1> QED BY <1>4, <1>5 DEF n, s

\* A lower bound of a set of places that is one of them, or one past the end, is their minimum.
LEMMA MinIs ==
  ASSUME NEW S, NEW n \in Nat, S \subseteq 1 .. n, NEW z \in S \cup {n + 1},
         \A i \in S : z <= i
  PROVE  Min(S \cup {n + 1}) = z
<1>1. S \cup {n + 1} \subseteq Nat /\ z <= n + 1
  OBVIOUS
<1> DEFINE T == S \cup {n + 1}
           y == Min(T)
<1>2. z \in T /\ \A i \in T : z <= i
  BY <1>1
<1>3. y = CHOOSE x \in T : \A i \in T : x <= i
  BY DEF Min
<1> HIDE DEF T, y
<1>4. y \in T /\ \A i \in T : y <= i
  BY <1>2, <1>3
<1>5. y <= z /\ z <= y
  BY <1>2, <1>4
<1>6. y \in Nat /\ z \in Nat
  BY <1>1, <1>2, <1>4 DEF T
<1>7. y = z
  BY <1>5, <1>6
<1> QED BY <1>7 DEF y, T

\* The first byte of a kind is where it is if none before it is of the kind.
LEMMA FirstIs ==
  ASSUME NEW u, Len(u) \in Nat, NEW K, NEW z \in 1 .. Len(u), u[z] \in K,
         \A i \in 1 .. z - 1 : u[i] \notin K
  PROVE  Min({i \in 1 .. Len(u) : u[i] \in K} \cup {Len(u) + 1}) = z
<1> DEFINE S == {i \in 1 .. Len(u) : u[i] \in K}
           n == Len(u)
<1>1. S \subseteq 1 .. n /\ z \in S \cup {n + 1} /\ n \in Nat
  OBVIOUS
<1>2. \A i \in S : z <= i
  <2> SUFFICES ASSUME NEW i \in 1 .. n, u[i] \in K, ~(z <= i) PROVE FALSE
    OBVIOUS
  <2>1. i \in 1 .. z - 1
    OBVIOUS
  <2> QED BY <2>1
<1> HIDE DEF S, n
<1>3. Min(S \cup {n + 1}) = z
  BY <1>1, <1>2, MinIs
<1> QED BY <1>3 DEF S, n

\* Nothing is changed in a text without a percent sign.
LEMMA HarmlessIs ==
  ASSUME NEW v, Whole(v), \A i \in DOMAIN v : v[i] # Percent
  PROVE  Harmless(v) = v
<1>1. v = [i \in DOMAIN v |-> v[i]]
  BY DEF Whole
<1>2. Harmless(v) = [i \in DOMAIN v |-> v[i]]
  BY DEF Harmless
<1> QED BY <1>1, <1>2

\* What a read of the bytes of v gives.
Gives(m, r, v, n) ==
  r.value = v /\ r.msg.readcount = m.readcount + n /\ r.msg.bit = m.bit

\* Reading on moves the read position and leaves the bit position.
LEMMA AdvanceIs ==
  ASSUME NEW m, DOMAIN m = Parts, NEW k
  PROVE  Advance(m, k).readcount = m.readcount + k /\ Advance(m, k).bit = m.bit
BY DEF Advance, Parts

\* A number is read back (MSG_ReadByte, MSG_ReadShort, MSG_ReadLong).
LEMMA NumberReadBack ==
  ASSUME NEW m, Readable(m), NEW v, Whole(v), Starts(m, v), Whole(Unread(m)), NEW n \in Nat, n = Len(v),
         m.readcount + n <= m.cursize
  PROVE  Gives(m, ReadNumber(m, n), v, n)
<1>1. m.readcount \in Nat /\ m.cursize \in Nat /\ DOMAIN m = Parts
  BY DEF Readable, Good, Fits
<1>2. ~(m.readcount + n > m.cursize)
  BY <1>1
<1>3. ReadNumber(m, n) = [msg |-> Advance(m, n), value |-> Cut(Unread(m), n)]
  BY <1>2 DEF ReadNumber
<1>4. Cut(Unread(m), n) = v
  BY PrefixIs DEF Starts
<1> QED BY <1>1, <1>3, <1>4, AdvanceIs DEF Gives

\* Data is read back (MSG_ReadData).
LEMMA DataReadBack ==
  ASSUME NEW m, Readable(m), NEW v, Whole(v), Starts(m, v), Len(Unread(m)) \in Nat
  PROVE  Gives(m, MSG_ReadData(m, Len(v)), v, Len(v))
<1> DEFINE u == Unread(m)
           n == Len(v)
           x == [i \in 1 .. n |-> IF i <= n THEN u[i] ELSE 255]
<1>1. DOMAIN m = Parts /\ v \in Seq(Byte) /\ n \in Nat /\ n <= Len(u) /\ \A j \in 1 .. n : u[j] = v[j]
  BY DEF Readable, Good, Whole, Starts
<1>2. Less(n, Len(u)) = n
  BY <1>1 DEF Less
<1>3. MSG_ReadData(m, n) = [msg |-> Advance(m, n), value |-> x]
  BY <1>1, <1>2 DEF MSG_ReadData
<1>4. x = v
  <2>1. v = [i \in 1 .. n |-> v[i]]
    BY <1>1
  <2> HIDE DEF u, n
  <2>2. \A i \in 1 .. n : (IF i <= n THEN u[i] ELSE 255) = v[i]
    BY <1>1
  <2> QED BY <2>1, <2>2
<1> QED BY <1>1, <1>3, <1>4, AdvanceIs DEF Gives

\* A string is read back up to its terminator (MSG_ReadString).
LEMMA StringReadBack ==
  ASSUME NEW m, Readable(m), NEW v, Whole(v), Len(v) < MaxString,
         \A i \in DOMAIN v : v[i] \notin {0, Percent},
         Starts(m, Append(v, 0)), Whole(Unread(m))
  PROVE  Gives(m, MSG_ReadString(m, MaxString), v, Len(v) + 1)
<1> DEFINE u == Unread(m)
           L == Len(u)
           n == Len(v)
           z == Min({i \in 1 .. L : u[i] = 0} \cup {L + 1})
<1>1. DOMAIN m = Parts /\ v \in Seq(Byte) /\ n \in Nat /\ L \in Nat
  BY DEF Readable, Good, Whole
<1>2. n + 1 <= L /\ u[n + 1] = 0 /\ \A j \in 1 .. n : u[j] = v[j] /\ v[j] # 0
  <2>1. Len(Append(v, 0)) = n + 1 /\ Append(v, 0)[n + 1] = 0 /\ \A j \in 1 .. n : Append(v, 0)[j] = v[j]
    BY <1>1
  <2>2. n + 1 <= L /\ \A j \in 1 .. n + 1 : u[j] = Append(v, 0)[j]
    BY <2>1 DEF Starts
  <2>3. \A j \in 1 .. n : v[j] # 0
    BY <1>1
  <2> QED BY <1>1, <2>1, <2>2, <2>3
<1>3. z = n + 1
  <2>1. {i \in 1 .. L : u[i] = 0} = {i \in 1 .. L : u[i] \in {0}}
    OBVIOUS
  <2>2. n + 1 \in 1 .. L /\ u[n + 1] \in {0} /\ \A i \in 1 .. (n + 1) - 1 : u[i] \notin {0}
    BY <1>1, <1>2
  <2> HIDE DEF u, n
  <2>3. Min({i \in 1 .. L : u[i] \in {0}} \cup {L + 1}) = n + 1
    BY <1>1, <2>2, FirstIs
  <2> QED BY <2>1, <2>3
<1>4. MSG_ReadString(m, MaxString) =
        [msg |-> IF z > L THEN Overflow(Advance(m, Less(z, L))) ELSE Advance(m, Less(z, L)),
         value |-> Cut(Harmless(SubSeq(u, 1, z - 1)), MaxString - 1)]
  BY DEF MSG_ReadString, Upto
<1> HIDE DEF z
<1>5. ~(z > L) /\ Less(z, L) = n + 1 /\ z - 1 = n
  BY <1>1, <1>2, <1>3 DEF Less
<1>6. SubSeq(u, 1, n) = v
  <2>1. n <= Len(u) /\ \A j \in 1 .. n : u[j] = v[j]
    BY <1>1, <1>2
  <2> QED BY <2>1, PrefixIs
<1>7. Harmless(v) = v
  BY HarmlessIs
<1>8. Cut(v, MaxString - 1) = v
  <2>1. MaxString - 1 \in Nat /\ Len(v) <= MaxString - 1
    BY <1>1, SizesAssumption
  <2> QED BY <2>1, CutAll
<1> DEFINE r == MSG_ReadString(m, MaxString)
<1>9. r.msg = Advance(m, n + 1)
  BY <1>4, <1>5
<1>10. r.value = v
  <2> HIDE DEF r
  <2>1. r.value = Cut(Harmless(SubSeq(u, 1, z - 1)), MaxString - 1)
    BY <1>4 DEF r
  <2>2. SubSeq(u, 1, z - 1) = v
    BY <1>5, <1>6
  <2> HIDE DEF u, n
  <2>3. r.value = Cut(v, MaxString - 1)
    BY <2>1, <2>2, <1>7
  <2> QED BY <2>3, <1>5, <1>8
<1> HIDE DEF r
<1>11. Gives(m, r, v, n + 1)
  BY <1>1, <1>9, <1>10, AdvanceIs DEF Gives
<1> QED BY <1>11 DEF r

\* A line is read back up to its newline (MSG_ReadStringLine).
LEMMA LineReadBack ==
  ASSUME NEW m, Readable(m), NEW v, Whole(v),
         \A i \in DOMAIN v : v[i] \notin {0, Newline, Percent},
         Starts(m, Append(v, Newline)), Whole(Unread(m))
  PROVE  Gives(m, MSG_ReadStringLine(m, Len(v) + 2), v, Len(v) + 1)
<1> DEFINE u == Unread(m)
           L == Len(u)
           n == Len(v)
           K == {0, Newline}
           z == Min({i \in 1 .. L : u[i] \in K} \cup {L + 1})
           k == Less(z, Less((n + 2) - 1, L))
<1>1. DOMAIN m = Parts /\ v \in Seq(Byte) /\ n \in Nat /\ L \in Nat
  BY DEF Readable, Good, Whole
<1>2. n + 1 <= L /\ u[n + 1] \in K /\ \A j \in 1 .. n : u[j] = v[j] /\ v[j] \notin K
  <2>1. /\ Len(Append(v, Newline)) = n + 1 /\ Append(v, Newline)[n + 1] = Newline
        /\ \A j \in 1 .. n : Append(v, Newline)[j] = v[j]
    BY <1>1
  <2>2. n + 1 <= L /\ \A j \in 1 .. n + 1 : u[j] = Append(v, Newline)[j]
    BY <2>1 DEF Starts
  <2>3. \A j \in 1 .. n : v[j] \notin K
    BY <1>1
  <2> QED BY <1>1, <2>1, <2>2, <2>3
<1>3. z = n + 1
  <2>1. n + 1 \in 1 .. L /\ \A i \in 1 .. (n + 1) - 1 : u[i] \notin K
    BY <1>1, <1>2
  <2> HIDE DEF u, n, K
  <2> QED BY <1>1, <1>2, <2>1, FirstIs
<1>4. MSG_ReadStringLine(m, n + 2) =
        [msg |-> IF z > L /\ L < (n + 2) - 1 THEN Overflow(Advance(m, k)) ELSE Advance(m, k),
         value |-> Cut(Harmless(SubSeq(u, 1, z - 1)), (n + 2) - 1)]
  BY DEF MSG_ReadStringLine, Upto
<1>5. ~(z > L) /\ k = n + 1 /\ z - 1 = n /\ (n + 2) - 1 = n + 1
  <2> HIDE DEF z
  <2> QED BY <1>1, <1>2, <1>3 DEF Less
<1> HIDE DEF z, k
<1>6. SubSeq(u, 1, n) = v
  <2>1. n <= Len(u) /\ \A j \in 1 .. n : u[j] = v[j]
    BY <1>1, <1>2
  <2> QED BY <2>1, PrefixIs
<1>7. Harmless(v) = v
  BY HarmlessIs
<1>8. Cut(v, n + 1) = v
  <2>1. n + 1 \in Nat /\ Len(v) <= n + 1
    BY <1>1
  <2> QED BY <2>1, CutAll
<1> DEFINE r == MSG_ReadStringLine(m, n + 2)
<1>9. r.msg = Advance(m, n + 1)
  BY <1>4, <1>5
<1>10. r.value = v
  <2> HIDE DEF r
  <2>1. r.value = Cut(Harmless(SubSeq(u, 1, z - 1)), (n + 2) - 1)
    BY <1>4 DEF r
  <2>2. SubSeq(u, 1, z - 1) = v
    BY <1>5, <1>6
  <2> HIDE DEF u, n
  <2>3. r.value = Cut(v, (n + 2) - 1)
    BY <2>1, <2>2, <1>7
  <2> QED BY <2>3, <1>5, <1>8
<1> HIDE DEF r
<1>11. Gives(m, r, v, n + 1)
  BY <1>1, <1>9, <1>10, AdvanceIs DEF Gives
<1> QED BY <1>11 DEF r

\* Shifting by six bits, and by six bits again.
LEMMA DivTwice ==
  ASSUME NEW n \in Nat
  PROVE  (n \div 64) \div 64 = n \div 4096 /\ (n \div 4096) \div 64 = n \div 262144
<1>1. \A x \in Nat : x \div 64 \in Nat /\ x % 64 \in 0 .. 63 /\ x = 64 * (x \div 64) + (x % 64)
  OBVIOUS
<1>2. \A q \in Nat, t \in 0 .. 4095 : (4096 * q + t) \div 4096 = q
  OBVIOUS
<1>4. ASSUME NEW x \in Nat PROVE (x \div 64) \div 64 = x \div 4096
  <2> DEFINE a == x \div 64
             q == a \div 64
             ra == x % 64
             rq == a % 64
  <2>1. a \in Nat /\ ra \in 0 .. 63 /\ x = 64 * a + ra
    BY <1>1
  <2>2. q \in Nat /\ rq \in 0 .. 63 /\ a = 64 * q + rq
    BY <1>1, <2>1
  <2> HIDE DEF a, q, ra, rq
  <2> DEFINE t == 64 * rq + ra
  <2>3. x = 4096 * q + t /\ t \in 0 .. 4095
    BY <2>1, <2>2
  <2> HIDE DEF t
  <2>4. x \div 4096 = q
    BY <1>2, <2>2, <2>3
  <2> QED BY <2>4 DEF q, a
<1>5. (n \div 4096) \div 64 = n \div 262144
  <2> DEFINE a == n \div 4096
             q == a \div 64
             ra == n % 4096
             rq == a % 64
  <2>1. a \in Nat /\ ra \in 0 .. 4095 /\ n = 4096 * a + ra
    OBVIOUS
  <2>2. q \in Nat /\ rq \in 0 .. 63 /\ a = 64 * q + rq
    BY <1>1, <2>1
  <2> HIDE DEF a, q, ra, rq
  <2> DEFINE t == 4096 * rq + ra
  <2>3. n = 262144 * q + t /\ t >= 0 /\ t < 262144 /\ t \in Int
    BY <2>1, <2>2, SMT
  <2> DEFINE c == n \div 262144
             r == n % 262144
  <2>4. c \in Nat /\ r \in Int /\ r >= 0 /\ r < 262144 /\ n = 262144 * c + r
    BY SMT
  <2> HIDE DEF t, c, r
  <2>5. c = q
    BY <2>2, <2>3, <2>4, SMT
  <2> QED BY <2>5 DEF q, a, c
<1> QED BY <1>4, <1>5

\* The 24 bits of four characters, of three bytes, and a byte of them.
OfFour(a, b, c, d) == a * 262144 + b * 4096 + c * 64 + d
OfThree(x, y, z)   == x * 65536 + y * 256 + z
ByteNumber(n, j)   == (n \div <<65536, 256, 1>>[j]) % 256

\* Four characters hold three bytes.
LEMMA SextetsMakeNumber ==
  ASSUME NEW x \in Byte, NEW y \in Byte, NEW z \in Byte, NEW s \in [1 .. 4 -> Nat],
         \A k \in 1 .. 4 : s[k] = Sextet(<<x, y, z>>, k)
  PROVE  /\ OfFour(s[1], s[2], s[3], s[4]) = OfThree(x, y, z)
         /\ z = 0 => s[4] = 0
<1> DEFINE n == x * 65536 + y * 256 + z
           a == n \div 64
           b == n \div 4096
           c == n \div 262144
<1>0. x \in 0 .. 255 /\ y \in 0 .. 255 /\ z \in 0 .. 255
  BY DEF Byte
<1>1. n \in Nat /\ n < 16777216
  BY <1>0, SMT
<1>2. /\ s[1] = c % 64 /\ s[2] = b % 64 /\ s[3] = a % 64 /\ s[4] = (n \div 1) % 64
  BY <1>0, SMT DEF Sextet
<1>3. z = 0 => n = 64 * (1024 * x + 4 * y)
  BY <1>0, SMT
<1> HIDE DEF n
<1>4. b = a \div 64 /\ c = b \div 64
  BY <1>1, DivTwice
<1>5. \A i \in Nat : i \div 64 \in Nat /\ i % 64 \in 0 .. 63 /\ i = 64 * (i \div 64) + (i % 64)
  OBVIOUS
<1>6. n \div 1 = n /\ a \in Nat /\ n = 64 * a + (n % 64)
  BY <1>1, <1>5, SMT
<1>7. c \in Nat /\ c < 64
  BY <1>1, SMT
<1>8. c % 64 = c
  <2> HIDE DEF c
  <2> QED BY <1>7, SMT
<1> HIDE DEF a, b, c
<1>9. a = 64 * b + (a % 64) /\ b \in Nat
  BY <1>4, <1>5, <1>6
<1>10. b = 64 * c + (b % 64)
  BY <1>4, <1>5, <1>9
<1>11. s[1] = c /\ s[2] = b - 64 * c /\ s[3] = a - 64 * b /\ s[4] = n - 64 * a
  <2>1. s[1] = c
    BY <1>2, <1>8
  <2>2. s[2] = b - 64 * c
    <3> DEFINE r == b % 64
    <3>1. s[2] = r /\ b = 64 * c + r /\ r \in Int
      BY <1>2, <1>5, <1>9, <1>10
    <3> HIDE DEF r
    <3> QED BY <3>1, <1>7, <1>9, SMT
  <2>3. s[3] = a - 64 * b
    <3> DEFINE r == a % 64
    <3>1. s[3] = r /\ a = 64 * b + r /\ r \in Int
      BY <1>2, <1>5, <1>6, <1>9
    <3> HIDE DEF r
    <3> QED BY <3>1, <1>6, <1>9, SMT
  <2>4. s[4] = n - 64 * a
    <3> DEFINE r == n % 64
    <3>1. s[4] = r /\ n = 64 * a + r /\ r \in Int
      BY <1>1, <1>2, <1>5, <1>6
    <3> HIDE DEF r
    <3> QED BY <3>1, <1>1, <1>6, SMT
  <2> QED BY <2>1, <2>2, <2>3, <2>4
<1>12. s[1] * 262144 + s[2] * 4096 + s[3] * 64 + s[4] = n
  BY <1>1, <1>6, <1>7, <1>9, <1>11, SMT
<1>13. z = 0 => s[4] = 0
  <2> DEFINE w == 1024 * x + 4 * y
  <2>1. w \in Nat
    BY <1>0
  <2> SUFFICES ASSUME z = 0 PROVE s[4] = 0
    OBVIOUS
  <2>2. n = 64 * w
    BY <1>3
  <2> HIDE DEF w
  <2>3. a = w
    BY <2>1, <2>2 DEF a
  <2> QED BY <1>11, <2>1, <2>2, <2>3
<1>14. OfThree(x, y, z) = n
  BY <1>0, SMT DEF OfThree, n
<1>15. OfFour(s[1], s[2], s[3], s[4]) = n
  BY <1>12, SMT DEF OfFour
<1> QED BY <1>13, <1>14, <1>15

\* Each of the three is got back.
LEMMA BytesOfNumber ==
  ASSUME NEW x \in Byte, NEW y \in Byte, NEW z \in Byte,
         NEW n, n = OfThree(x, y, z)
  PROVE  ByteNumber(n, 1) = x /\ ByteNumber(n, 2) = y /\ ByteNumber(n, 3) = z
<1>0. x \in 0 .. 255 /\ y \in 0 .. 255 /\ z \in 0 .. 255
  BY DEF Byte
<1>1. \A q \in Nat, t \in 0 .. 255 : (256 * q + t) % 256 = t
  OBVIOUS
<1> DEFINE a == n \div 65536
           b == n \div 256
           c == n \div 1
           q == 256 * x + y
<1>2. a = x /\ b = q /\ c = 256 * q + z
  BY <1>0, SMT DEF OfThree
<1>3. ByteNumber(n, 1) = a % 256 /\ ByteNumber(n, 2) = b % 256 /\ ByteNumber(n, 3) = c % 256
  BY <1>0, SMT DEF ByteNumber
<1>4. q \in Nat /\ 0 \in Nat /\ x \in Nat
  BY <1>0
<1> HIDE DEF a, b, c
<1>5. a % 256 = x
  BY <1>0, <1>2
<1>6. b % 256 = y
  BY <1>0, <1>1, <1>2, <1>4
<1> HIDE DEF q
<1>7. c % 256 = z
  BY <1>0, <1>1, <1>2, <1>4
<1> QED BY <1>5, <1>6, <1>7, <1>3

\* The four characters of a group are its 24 bits.
LEMMA GroupIsNumber ==
  ASSUME NEW v, Whole(v), NEW g \in Nat
  PROVE  /\ OfFour(Char(v, 4*g + 1), Char(v, 4*g + 2), Char(v, 4*g + 3), Char(v, 4*g + 4))
              = OfThree(At(v, 3*g + 1), At(v, 3*g + 2), At(v, 3*g + 3))
         /\ At(v, 3*g + 3) = 0 => Char(v, 4*g + 4) = 0
         /\ \A i \in 1 .. 3 : At(v, 3*g + i) \in Byte
<1> DEFINE x == At(v, 3*g + 1)
           y == At(v, 3*g + 2)
           z == At(v, 3*g + 3)
           s == [k \in 1 .. 4 |-> Char(v, 4*g + k)]
<1>1. \A i \in 1 .. 3 : At(v, 3*g + i) \in Byte
  <2>1. \A i \in 1 .. 3 : Group(v, g)[i] = At(v, 3 * g + i) /\ Group(v, g)[i] \in Byte
    BY GroupIs
  <2> QED BY <2>1
<1>2. x \in Byte /\ y \in Byte /\ z \in Byte
  BY <1>1
<1>3. Group(v, g) = <<x, y, z>>
  BY DEF Group
<1>4. ASSUME NEW k \in 1 .. 4 PROVE Char(v, 4*g + k) = Sextet(<<x, y, z>>, k) /\ Char(v, 4*g + k) \in Nat
  <2> DEFINE c == 4*g + k
  <2>1. c \in Nat \ {0} /\ (c - 1) \div 4 = g /\ ((c - 1) % 4) + 1 = k
    OBVIOUS
  <2> HIDE DEF c
  <2>2. Char(v, c) = Sextet(Group(v, g), k)
    BY <2>1 DEF Char
  <2>3. Char(v, c) \in 0 .. 63
    BY <2>1, CharIs
  <2>4. Char(v, c) \in Nat
    BY <2>3
  <2> QED BY <1>3, <2>2, <2>4 DEF c
<1>5. s \in [1 .. 4 -> Nat] /\ \A k \in 1 .. 4 : s[k] = Sextet(<<x, y, z>>, k)
  <2> HIDE DEF x, y, z
  <2> QED BY <1>4
<1>6. /\ s[1] = Char(v, 4*g + 1) /\ s[2] = Char(v, 4*g + 2)
      /\ s[3] = Char(v, 4*g + 3) /\ s[4] = Char(v, 4*g + 4)
  OBVIOUS
<1> HIDE DEF x, y, z, s
<1>7. /\ OfFour(s[1], s[2], s[3], s[4]) = OfThree(x, y, z)
      /\ z = 0 => s[4] = 0
  BY <1>2, <1>5, SextetsMakeNumber
<1> QED BY <1>1, <1>6, <1>7 DEF x, y, z

\* The byte number i is in the group that it is read from.
LEMMA ByteOfGroup ==
  ASSUME NEW v, Whole(v), NEW i \in Nat \ {0}, NEW g, g = (i - 1) \div 3, NEW n,
         n = OfThree(At(v, 3*g + 1), At(v, 3*g + 2), At(v, 3*g + 3))
  PROVE  ByteNumber(n, ((i - 1) % 3) + 1) = At(v, i)
<1> DEFINE j == ((i - 1) % 3) + 1
           x == At(v, 3*g + 1)
           y == At(v, 3*g + 2)
           z == At(v, 3*g + 3)
<1>1. g \in Nat /\ j \in 1 .. 3 /\ i = 3 * g + j
  OBVIOUS
<1>2. x \in Byte /\ y \in Byte /\ z \in Byte
  <2>1. \A k \in 1 .. 3 : At(v, 3*g + k) \in Byte
    BY <1>1, GroupIsNumber
  <2> QED BY <2>1
<1>3. n = OfThree(x, y, z)
  OBVIOUS
<1> HIDE DEF j
<1>4. At(v, i) = At(v, 3*g + j)
  BY <1>1
<1>5. At(v, i) = IF j = 1 THEN x ELSE IF j = 2 THEN y ELSE z
  BY <1>1, <1>4
<1> HIDE DEF x, y, z
<1>6. ByteNumber(n, 1) = x /\ ByteNumber(n, 2) = y /\ ByteNumber(n, 3) = z
  BY <1>2, <1>3, BytesOfNumber
<1>7. CASE j = 1
  BY <1>5, <1>6, <1>7 DEF j
<1>8. CASE j = 2
  BY <1>5, <1>6, <1>8 DEF j
<1>9. CASE j = 3
  BY <1>5, <1>6, <1>9 DEF j
<1> QED BY <1>1, <1>7, <1>8, <1>9

\* The characters are read up to their end, or up to the '=' that is their end.
LEMMA Base64ReadBack ==
  ASSUME NEW m, Readable(m), NEW v, Whole(v), v # << >>, Len(v) % 3 # 1,
         Starts(m, Characters(v)), Whole(Unread(m)),
         NEW r, r = MSG_ReadBase64(m, Len(v) + 4)
  PROVE  /\ Cut(r.value, Len(v)) = v
         /\ r.msg.readcount = m.readcount + Len(Characters(v)) /\ r.msg.bit = m.bit
<1> DEFINE u == Unread(m)
           L == Len(u)
           n == Len(v)
           G == Ceil(n, 3)
           e == Equals(n)
           S == {i \in 1 .. L : u[i] \notin 0 .. 63}
           bad == Min(S \cup {L + 1})
           groups == IF n + 4 <= 7 THEN 1 ELSE Ceil((n + 4) - 4, 3)
           whole == bad > 4 * groups
           C(i) == IF i < bad THEN u[i] ELSE 0
           Bits(g) == OfFour(C(4*g + 1), C(4*g + 2), C(4*g + 3), C(4*g + 4))
           end == IF whole THEN 4 * groups ELSE bad
           count == IF whole THEN groups ELSE (bad - 1) \div 4 + 1
           a == Advance(m, Less(end, L))
           val == [i \in 1 .. 3 * count |-> ByteNumber(Bits((i - 1) \div 3), ((i - 1) % 3) + 1)]
<1>1. r = [msg |-> IF ~whole /\ bad > L THEN Overflow(a) ELSE a, value |-> val]
  BY DEF MSG_ReadBase64, Upto, OfFour, ByteNumber
<1>2. n \in Nat \ {0} /\ L \in Nat /\ DOMAIN m = Parts /\ n % 3 # 1
  BY DEF Whole, Readable, Good
<1>3. /\ G \in Nat \ {0} /\ groups = G /\ e \in {0, 1} /\ n <= 3 * G
      /\ e = 1 => 3 * G = n + 1
      /\ e = 0 => 3 * G = n
  <2> HIDE DEF n
  <2> QED BY <1>2 DEF Ceil, Equals
<1>4. /\ Len(Characters(v)) = 4 * G
      /\ \A i \in 1 .. 4 * G : Characters(v)[i] = IF i > 4 * G - e THEN 64 ELSE Char(v, i)
  <2>1. Len(Characters(v)) = 4 * G
    BY CharactersAre
  <2>2. Characters(v) = [i \in 1 .. 4 * G |-> IF i > 4 * G - e THEN 64 ELSE Char(v, i)]
    BY DEF Characters
  <2> HIDE DEF e, G
  <2> QED BY <2>1, <2>2
<1>5. 4 * G <= L /\ \A i \in 1 .. 4 * G : u[i] = IF i > 4 * G - e THEN 64 ELSE Char(v, i)
  BY <1>4 DEF Starts
<1>6. \A i \in Nat \ {0} : Char(v, i) \in 0 .. 63
  BY CharIs
<1> HIDE DEF u, L, n, G, e, groups
<1>7. bad \in S \cup {L + 1} /\ \A i \in S \cup {L + 1} : bad <= i
  BY <1>2, FirstOf
<1>8. \A i \in S : i \in 1 .. L /\ u[i] \notin 0 .. 63
  OBVIOUS
<1>9. \A i \in 1 .. L : u[i] \notin 0 .. 63 => i \in S
  OBVIOUS
<1> HIDE DEF S, bad
<1>10. bad \in Nat /\ bad > 4 * G - e /\ (e = 1 => bad = 4 * G)
  <2>1. bad \in 1 .. L + 1
    BY <1>2, <1>7, <1>8
  <2>2. bad > 4 * G - e
    <3> SUFFICES ASSUME bad <= 4 * G - e PROVE FALSE
      BY <1>3, <2>1
    <3>1. bad \in 1 .. 4 * G /\ ~(bad > 4 * G - e) /\ bad \in Nat \ {0} /\ bad # L + 1
      BY <1>2, <1>3, <1>5, <2>1
    <3>2. u[bad] = Char(v, bad)
      BY <1>5, <3>1
    <3>3. u[bad] \notin 0 .. 63
      BY <1>7, <1>8, <3>1
    <3> QED BY <1>6, <3>1, <3>2, <3>3
  <2>3. ASSUME e = 1 PROVE bad = 4 * G
    <3>1. 4 * G \in 1 .. 4 * G /\ 4 * G > 4 * G - e /\ 4 * G \in 1 .. L
      BY <1>2, <1>3, <1>5, <2>3
    <3>2. u[4 * G] = 64
      BY <1>5, <3>1
    <3>3. 64 \notin 0 .. 63
      OBVIOUS
    <3> DEFINE y == 4 * G
    <3> HIDE DEF y
    <3>4. y \in S
      BY <1>9, <3>1, <3>2, <3>3 DEF y
    <3>5. bad <= 4 * G
      BY <1>7, <3>4 DEF y
    <3>6. bad > 4 * G - 1 /\ bad \in Nat
      BY <2>1, <2>2, <2>3
    <3> QED BY <1>3, <3>5, <3>6
  <2> QED BY <2>1, <2>2, <2>3
<1>11. end = 4 * G /\ count = G /\ (whole \/ ~(bad > L))
  <2>1. CASE e = 1
    <3>1. bad = 4 * G /\ ~(bad > 4 * G) /\ (4 * G - 1) \div 4 + 1 = G /\ ~(4 * G > L)
      BY <1>2, <1>3, <1>5, <1>10, <2>1
    <3> QED BY <1>3, <3>1
  <2>2. CASE e = 0
    <3>1. bad > 4 * G
      BY <1>3, <1>10, <2>2
    <3> QED BY <1>3, <3>1
  <2> HIDE DEF end, count, whole
  <2> QED BY <1>3, <2>1, <2>2
<1>12. Less(end, L) = 4 * G
  <2> HIDE DEF end, count, whole
  <2>1. end = 4 * G /\ 4 * G <= L /\ L \in Nat /\ 4 * G \in Nat
    BY <1>2, <1>3, <1>5, <1>11
  <2> QED BY <2>1 DEF Less
<1> DEFINE d == r.value
<1>13. r.msg = Advance(m, 4 * G) /\ d = val
  <2> HIDE DEF val, end, count, whole
  <2> QED BY <1>1, <1>11, <1>12
<1>14. r.msg.readcount = m.readcount + 4 * G /\ r.msg.bit = m.bit
  BY <1>2, <1>13, AdvanceIs
<1>15. ASSUME NEW i \in 1 .. 4 * G PROVE C(i) = Char(v, i)
  <2>1. CASE i > 4 * G - e
    <3>1. e = 1 /\ i = 4 * G
      BY <1>3, <2>1
    <3>2. C(i) = 0
      BY <1>10, <3>1
    <3> DEFINE g == G - 1
    <3>3. g \in Nat /\ i = 4 * g + 4 /\ 3 * g + 3 = n + 1
      BY <1>3, <3>1
    <3>4. At(v, 3 * g + 3) = 0
      BY <1>2, <3>3 DEF At, n
    <3> HIDE DEF g, C
    <3>5. Char(v, 4 * g + 4) = 0
      BY <3>3, <3>4, GroupIsNumber
    <3> QED BY <3>2, <3>3, <3>5
  <2>2. CASE ~(i > 4 * G - e)
    <3>1. i < bad
      BY <1>3, <1>10, <2>2
    <3> QED BY <1>5, <2>2, <3>1
  <2> QED BY <2>1, <2>2
<1>16. ASSUME NEW i \in 1 .. 3 * G PROVE d[i] = At(v, i)
  <2> DEFINE g == (i - 1) \div 3
             f == ((i - 1) % 3) + 1
  <2>1. g \in Nat /\ g <= G - 1 /\ i \in Nat \ {0}
    BY <1>3
  <2>2. d[i] = ByteNumber(Bits(g), f)
    <3> HIDE DEF count, Bits, d
    <3> QED BY <1>11, <1>13
  <2> HIDE DEF g
  <2>3. 4*g + 1 \in 1 .. 4*G /\ 4*g + 2 \in 1 .. 4*G /\ 4*g + 3 \in 1 .. 4*G /\ 4*g + 4 \in 1 .. 4*G
    BY <1>3, <2>1
  <2> HIDE DEF C
  <2>4. Bits(g) = OfFour(Char(v, 4*g + 1), Char(v, 4*g + 2), Char(v, 4*g + 3), Char(v, 4*g + 4))
    BY <1>15, <2>3
  <2> HIDE DEF Bits, f
  <2>5. Bits(g) = OfThree(At(v, 3*g + 1), At(v, 3*g + 2), At(v, 3*g + 3))
    BY <2>1, <2>4, GroupIsNumber
  <2>6. ByteNumber(Bits(g), f) = At(v, i)
    BY <2>1, <2>5, ByteOfGroup DEF g, f
  <2> QED BY <2>2, <2>6
<1>17. /\ Whole(d) /\ Len(d) = 3 * G
       /\ \A j \in 1 .. n : d[j] = v[j]
  <2>1. 3 * G \in Nat
    BY <1>3
  <2>2. d = [i \in 1 .. 3 * G |-> d[i]]
    <3> DEFINE B(i) == ByteNumber(Bits((i - 1) \div 3), ((i - 1) % 3) + 1)
    <3>1. d = [i \in 1 .. 3 * G |-> B(i)]
      BY <1>11, <1>13
    <3> HIDE DEF B, d
    <3> QED BY <3>1
  <2>3. \A i \in Nat \ {0} : At(v, i) \in Byte
    <3>1. v \in Seq(Byte) /\ Len(v) \in Nat /\ 0 \in Byte
      BY DEF Whole, Byte
    <3> QED BY <3>1 DEF At
  <2>4. \A i \in 1 .. 3 * G : i \in Nat \ {0}
    BY <2>1
  <2> HIDE DEF d
  <2>5. \A i \in 1 .. 3 * G : d[i] \in Byte
    BY <1>16, <2>3, <2>4
  <2>6. Whole(d) /\ Len(d) = 3 * G
    BY <2>1, <2>2, <2>5, WholeNumbered
  <2>7. ASSUME NEW j \in 1 .. n PROVE d[j] = v[j]
    <3>1. j \in 1 .. 3 * G /\ j <= n
      BY <1>2, <1>3
    <3> QED BY <1>16, <3>1 DEF At, n
  <2> QED BY <2>6, <2>7
<1> HIDE DEF d
<1>18. Cut(d, Len(v)) = v
  <2>1. Len(v) <= Len(d) /\ \A j \in 1 .. Len(v) : d[j] = v[j]
    BY <1>3, <1>17 DEF n
  <2> QED BY <1>17, <2>1, PrefixIs
<1> QED BY <1>4, <1>14, <1>18 DEF d

----------------------------------------------------------------------------
(* Any entry is read back from where it is.                                *)

\* How much of what is read is compared with what was written.
Same(in, value) ==
  IF in.op = "base64" THEN Cut(value, Len(in.v)) = in.v ELSE value = in.v

\* Any entry that is written as bytes is read back.
LEMMA BytesReadBack ==
  ASSUME NEW m, Readable(m), Pieces(m), m.splitdata = << >>,
         NEW in \in Inputs, ~IsBits(in), Legible(in),
         Holds(Full(m), <<m.readcount, m.bit>>, in),
         After(<<m.readcount, m.bit>>, in)[1] <= m.cursize
  PROVE  /\ Same(in, ReadAs(m, in).value)
         /\ After(<<m.readcount, m.bit>>, in) = <<ReadAs(m, in).msg.readcount, ReadAs(m, in).msg.bit>>
<1> DEFINE c == Code(in)
           u == in.v
           r == ReadAs(m, in)
<1>1. Whole(c) /\ Len(c) \in Nat /\ Whole(u) /\ Len(u) \in Nat
  BY CodeIs
<1>2. After(<<m.readcount, m.bit>>, in) = <<m.readcount + Len(c), m.bit>>
  BY DEF After
<1>3. m.readcount + Len(c) <= m.cursize /\ \A j \in 1 .. Len(c) : Full(m)[m.readcount + j] = c[j]
  BY <1>2 DEF Holds
<1>4. in.op \in {"byte", "short", "long", "int64", "data", "string", "line", "base64"}
  BY InputsAssumption DEF IsBits
<1> HIDE DEF c
<1>5. Starts(m, c) /\ Whole(Unread(m)) /\ Len(Unread(m)) \in Nat
  BY <1>1, <1>3, StartsIs
<1> SUFFICES Same(in, r.value) /\ r.msg.readcount = m.readcount + Len(c) /\ r.msg.bit = m.bit
  BY <1>2
<1>6. ASSUME in.op # "base64", Gives(m, r, u, Len(c))
      PROVE  Same(in, r.value) /\ r.msg.readcount = m.readcount + Len(c) /\ r.msg.bit = m.bit
  BY <1>6 DEF Gives, Same
<1>7. CASE in.op \in {"byte", "short", "long", "int64"}
  <2> DEFINE n == Len(u)
  <2>1. c = u /\ n = Width[in.op]
    BY <1>7 DEF c, Code, Legible, Width
  <2>2. r = ReadNumber(m, n)
    BY <1>7, <2>1 DEF ReadAs, Width, MSG_ReadByte, MSG_ReadShort, MSG_ReadLong, MSG_ReadInt64
  <2>3. Starts(m, u) /\ m.readcount + n <= m.cursize
    BY <1>3, <1>5, <2>1
  <2> HIDE DEF u, r
  <2>4. Gives(m, ReadNumber(m, n), u, n)
    <3>1. n \in Nat /\ n = Len(u)
      BY <1>1
    <3> HIDE DEF n
    <3> QED BY <1>1, <1>5, <2>3, <3>1, NumberReadBack
  <2>5. Gives(m, r, u, Len(c))
    BY <2>1, <2>2, <2>4
  <2> QED BY <1>6, <1>7, <2>5
<1>8. CASE in.op = "data"
  <2>1. c = u /\ r = MSG_ReadData(m, Len(u))
    BY <1>8 DEF c, Code, ReadAs
  <2> HIDE DEF u, r
  <2>2. Gives(m, MSG_ReadData(m, Len(u)), u, Len(u))
    BY <1>1, <1>5, <2>1, DataReadBack
  <2> QED BY <1>6, <1>8, <2>1, <2>2
<1>9. CASE in.op = "string"
  <2>1. c = Append(u, 0) /\ r = MSG_ReadString(m, MaxString)
    BY <1>9 DEF c, Code, ReadAs
  <2>2. Len(u) < MaxString /\ \A i \in DOMAIN u : u[i] \notin {0, Percent}
    BY <1>9 DEF Legible, Width
  <2> HIDE DEF u, r
  <2>3. Gives(m, MSG_ReadString(m, MaxString), u, Len(u) + 1)
    BY <1>1, <1>5, <2>1, <2>2, StringReadBack
  <2>4. Len(c) = Len(u) + 1
    BY <1>1, <2>1 DEF Whole
  <2> QED BY <1>6, <1>9, <2>1, <2>3, <2>4
<1>10. CASE in.op = "line"
  <2>1. c = Append(u, Newline) /\ r = MSG_ReadStringLine(m, Len(u) + 2)
    BY <1>10 DEF c, Code, ReadAs
  <2>2. \A i \in DOMAIN u : u[i] \notin {0, Newline, Percent}
    BY <1>10 DEF Legible, Width
  <2> HIDE DEF u, r
  <2>3. Gives(m, MSG_ReadStringLine(m, Len(u) + 2), u, Len(u) + 1)
    BY <1>1, <1>5, <2>1, <2>2, LineReadBack
  <2>4. Len(c) = Len(u) + 1
    BY <1>1, <2>1 DEF Whole
  <2> QED BY <1>6, <1>10, <2>1, <2>3, <2>4
<1>11. CASE in.op = "base64"
  <2>1. c = Characters(u) /\ r = MSG_ReadBase64(m, Len(u) + 4)
    BY <1>11 DEF c, Code, ReadAs
  <2>2. u # << >> /\ Len(u) % 3 # 1
    BY <1>11 DEF Legible, Width
  <2> HIDE DEF u, r
  <2>3. /\ Cut(r.value, Len(u)) = u
        /\ r.msg.readcount = m.readcount + Len(c) /\ r.msg.bit = m.bit
    BY <1>1, <1>5, <2>1, <2>2, Base64ReadBack
  <2> QED BY <1>11, <2>3 DEF Same, u
<1> QED BY <1>4, <1>7, <1>8, <1>9, <1>10, <1>11

\* Any entry is read back, and the read comes to the place after it.
LEMMA EntryReadBack ==
  ASSUME NEW m, Readable(m), Pieces(m), NEW in \in Inputs, Legible(in),
         ~IsBits(in) => m.splitdata = << >>,
         Holds(Full(m), <<m.readcount, m.bit>>, in),
         After(<<m.readcount, m.bit>>, in)[1] <= Len(Full(m))
  PROVE  /\ Same(in, ReadAs(m, in).value)
         /\ After(<<m.readcount, m.bit>>, in) = <<ReadAs(m, in).msg.readcount, ReadAs(m, in).msg.bit>>
<1>1. Len(Full(m)) = m.cursize + m.splitsize
  BY FullIs DEF Readable
<1>2. CASE IsBits(in)
  <2>1. After(<<m.readcount, m.bit>>, in)[1] <= m.cursize + m.splitsize
    BY <1>1
  <2>2. in.op # "base64"
    BY <1>2 DEF IsBits
  <2> QED BY <1>2, <2>1, <2>2, BitsReadBack DEF Same
<1>3. CASE ~IsBits(in)
  <2>1. m.splitdata = << >> /\ m.splitsize = 0
    BY <1>3 DEF Pieces
  <2>2. m.cursize + m.splitsize = m.cursize
    BY <2>1 DEF Readable, Good, Fits
  <2>3. After(<<m.readcount, m.bit>>, in)[1] <= m.cursize
    BY <1>1, <2>2
  <2> QED BY <1>3, <2>1, <2>3, BytesReadBack
<1> QED BY <1>2, <1>3

----------------------------------------------------------------------------
(* Past the end there is -1, which no bytes and no number are.             *)

\* A sequence of bytes is not the answer of a read past the end.
LEMMA BytesAreNotNone ==
  ASSUME NEW d, Whole(d)
  PROVE  d # None
<1> SUFFICES ASSUME d = None PROVE FALSE
  OBVIOUS
<1>1. d[1] = -1 /\ 1 \in 1 .. Len(d)
  BY DEF None
<1>2. d[1] \in Byte
  BY <1>1 DEF Whole
<1> QED BY <1>1, <1>2 DEF Byte

\* The percent signs of a text are replaced by a byte.
LEMMA HarmlessBytes ==
  ASSUME NEW d, Whole(d)
  PROVE  Whole(Harmless(d))
<1> DEFINE h == Harmless(d)
<1>1. d \in Seq(Byte) /\ Len(d) \in Nat /\ DOMAIN d = 1 .. Len(d)
  BY DEF Whole
<1>2. h = [i \in 1 .. Len(d) |-> IF d[i] = Percent THEN 46 ELSE d[i]]
  BY <1>1 DEF Harmless
<1>3. 46 \in Byte
  BY DEF Byte
<1> HIDE DEF h
<1>4. \A i \in 1 .. Len(d) : h[i] \in Byte
  BY <1>1, <1>2, <1>3
<1>5. h = [i \in 1 .. Len(d) |-> h[i]]
  BY <1>2
<1> QED BY <1>1, <1>4, <1>5, WholeNumbered DEF h

\* What is read of a text is bytes.
LEMMA TextsAreBytes ==
  ASSUME NEW u, Whole(u), NEW z \in 1 .. Len(u) + 1, NEW n \in Nat
  PROVE  Whole(Cut(Harmless(SubSeq(u, 1, z - 1)), n))
<1> DEFINE s == SubSeq(u, 1, z - 1)
<1>1. u \in Seq(Byte) /\ Len(u) \in Nat
  BY DEF Whole
<1>2. Whole(s)
  BY <1>1 DEF Whole
<1> HIDE DEF s
<1>3. Whole(Harmless(s))
  BY <1>2, HarmlessBytes
<1>4. Whole(Cut(Harmless(s), n))
  BY <1>3, WholeCut
<1> QED BY <1>4 DEF s

\* Of each way to read.
LEMMA NoneOfBytes ==
  ASSUME NEW m, Readable(m), NEW n \in Nat
  PROVE  /\ ReadNumber(m, n).value = None => ReadNumber(m, n).msg.overflowed
         /\ MSG_ReadData(m, n).value # None
<1>1. Whole(Unread(m)) /\ Len(Unread(m)) \in Nat /\ DOMAIN m = Parts
  BY UnreadIs DEF Readable, Good
<1>2. ReadNumber(m, n).value = None => ReadNumber(m, n).msg.overflowed
  <2>1. CASE m.readcount + n > m.cursize
    <3>1. ReadNumber(m, n).msg = Overflow(m)
      BY <2>1 DEF ReadNumber
    <3> QED BY <1>1, <3>1 DEF Overflow, Parts
  <2>2. CASE ~(m.readcount + n > m.cursize)
    <3>1. ReadNumber(m, n).value = Cut(Unread(m), n)
      BY <2>2 DEF ReadNumber
    <3>2. Whole(Cut(Unread(m), n))
      BY <1>1, WholeCut
    <3> QED BY <3>1, <3>2, BytesAreNotNone
  <2> QED BY <2>1, <2>2
<1>3. MSG_ReadData(m, n).value # None
  <2> DEFINE u == Unread(m)
             k == Less(n, Len(u))
             d == [i \in 1 .. n |-> IF i <= k THEN u[i] ELSE 255]
  <2>1. MSG_ReadData(m, n).value = d
    BY DEF MSG_ReadData
  <2>2. u \in Seq(Byte) /\ k \in Nat /\ k <= Len(u) /\ Len(u) \in Nat
    BY <1>1 DEF Whole, Less
  <2>3. 255 \in Byte
    BY DEF Byte
  <2> HIDE DEF u, k
  <2>4. \A i \in 1 .. n : d[i] \in Byte
    BY <2>2, <2>3
  <2>5. d = [i \in 1 .. n |-> d[i]]
    OBVIOUS
  <2> HIDE DEF d
  <2>6. Whole(d)
    BY <2>4, <2>5, WholeNumbered
  <2> QED BY <2>1, <2>6, BytesAreNotNone
<1> QED BY <1>2, <1>3

\* A text is read even past the end: what there is of it.
LEMMA NoneOfTexts ==
  ASSUME NEW m, Readable(m), NEW n \in Nat \ {0}
  PROVE  MSG_ReadString(m, n).value # None /\ MSG_ReadStringLine(m, n).value # None
<1> DEFINE u == Unread(m)
           L == Len(u)
           y == Min({i \in 1 .. L : u[i] = 0} \cup {L + 1})
           z == Min({i \in 1 .. L : u[i] \in {0, Newline}} \cup {L + 1})
<1>1. Whole(u) /\ L \in Nat
  BY UnreadIs DEF Readable
<1>2. /\ MSG_ReadString(m, n).value = Cut(Harmless(SubSeq(u, 1, y - 1)), n - 1)
      /\ MSG_ReadStringLine(m, n).value = Cut(Harmless(SubSeq(u, 1, z - 1)), n - 1)
  BY DEF MSG_ReadString, MSG_ReadStringLine, Upto
<1>3. y \in 1 .. L + 1 /\ z \in 1 .. L + 1
  <2> HIDE DEF L
  <2> QED BY <1>1, SmallestIs
<1> HIDE DEF y, z
<1>4. n - 1 \in Nat
  OBVIOUS
<1>5. Whole(Cut(Harmless(SubSeq(u, 1, y - 1)), n - 1)) /\ Whole(Cut(Harmless(SubSeq(u, 1, z - 1)), n - 1))
  <2> HIDE DEF u
  <2> QED BY <1>1, <1>3, <1>4, TextsAreBytes
<1> QED BY <1>2, <1>5, BytesAreNotNone

\* So is base64.
LEMMA NoneOfBase64 ==
  ASSUME NEW m, Readable(m), NEW n
  PROVE  MSG_ReadBase64(m, n).value # None
<1> DEFINE u == Unread(m)
           L == Len(u)
           S == {i \in 1 .. L : u[i] \notin 0 .. 63}
           bad == Min(S \cup {L + 1})
           groups == IF n <= 7 THEN 1 ELSE Ceil(n - 4, 3)
           count == IF bad > 4 * groups THEN groups ELSE (bad - 1) \div 4 + 1
           C(i) == IF i < bad THEN u[i] ELSE 0
           Bits(g) == OfFour(C(4*g + 1), C(4*g + 2), C(4*g + 3), C(4*g + 4))
           d == MSG_ReadBase64(m, n).value
<1>1. d = [i \in 1 .. 3 * count |-> ByteNumber(Bits((i - 1) \div 3), ((i - 1) % 3) + 1)]
  BY DEF MSG_ReadBase64, Upto, OfFour, ByteNumber
<1>2. Whole(u) /\ L \in Nat
  BY UnreadIs DEF Readable
<1>3. bad \in 1 .. L + 1
  <2>1. S \subseteq 1 .. L
    OBVIOUS
  <2> HIDE DEF L, S
  <2> QED BY <1>2, <2>1, SmallestIs
<1> HIDE DEF bad, count, d
<1> SUFFICES ASSUME d = None PROVE FALSE
  BY DEF d
<1>4. d[1] = -1 /\ 1 \in DOMAIN d
  BY DEF None
<1>5. d[1] = ByteNumber(Bits(0), 1)
  <2>1. (1 - 1) \div 3 = 0 /\ ((1 - 1) % 3) + 1 = 1
    OBVIOUS
  <2> DEFINE B(i) == ByteNumber(Bits((i - 1) \div 3), ((i - 1) % 3) + 1)
  <2>2. d = [i \in 1 .. 3 * count |-> B(i)]
    BY <1>1
  <2>3. B(1) = ByteNumber(Bits(0), 1)
    <3> HIDE DEF Bits
    <3> QED BY <2>1
  <2> HIDE DEF B
  <2>4. d[1] = B(1)
    BY <1>4, <2>2
  <2> QED BY <2>3, <2>4
<1>6. \A i \in 1 .. 4 : C(i) \in Nat
  <2>1. \A x \in Byte : x \in Nat
    BY DEF Byte
  <2>2. u \in Seq(Byte)
    BY <1>2 DEF Whole
  <2> SUFFICES ASSUME NEW i \in 1 .. 4 PROVE C(i) \in Nat
    OBVIOUS
  <2> HIDE DEF u
  <2>3. i < bad => i \in 1 .. Len(u)
    BY <1>2, <1>3
  <2>4. i < bad => u[i] \in Nat
    BY <2>1, <2>2, <2>3
  <2> QED BY <2>4
<1> HIDE DEF C
<1>7. Bits(0) \in Nat
  <2>1. 4*0 + 1 = 1 /\ 4*0 + 2 = 2 /\ 4*0 + 3 = 3 /\ 4*0 + 4 = 4
    OBVIOUS
  <2>2. C(1) \in Nat /\ C(2) \in Nat /\ C(3) \in Nat /\ C(4) \in Nat
    BY <1>6
  <2>3. Bits(0) = OfFour(C(1), C(2), C(3), C(4))
    BY <2>1
  <2> HIDE DEF Bits
  <2> QED BY <2>2, <2>3, SMT DEF OfFour
<1> HIDE DEF Bits
<1>8. ByteNumber(Bits(0), 1) \in Nat
  <2> DEFINE b == Bits(0)
  <2>1. b \in Nat
    BY <1>7
  <2> HIDE DEF b
  <2>2. ByteNumber(b, 1) \in Nat
    BY <2>1, SMT DEF ByteNumber
  <2> QED BY <2>2 DEF b
<1> QED BY <1>4, <1>5, <1>8

\* Bits past the end are reported as an overflow.
LEMMA NoneOfBits ==
  ASSUME NEW m, Readable(m), NEW n
  PROVE  MSG_ReadBits(m, n).value = None => MSG_ReadBits(m, n).msg.overflowed
<1> DEFINE end == m.cursize + m.splitsize
           bits == {i \in 0 .. n - 1 : BitAt(m, Place(m.bit, i, m.readcount)) = 1}
<1>1. DOMAIN m = Parts
  BY DEF Readable, Good
<1>2. CASE m.readcount + NewBytes(m.bit, n) > end
  <2>1. PICK b : MSG_ReadBits(m, n).msg = [Overflow(m) EXCEPT !.readcount = end, !.bit = b]
    BY <1>2 DEF MSG_ReadBits
  <2> QED BY <1>1, <2>1 DEF Overflow, Parts
<1>3. CASE ~(m.readcount + NewBytes(m.bit, n) > end)
  <2>1. MSG_ReadBits(m, n).value = <<OfBits(bits)>>
    BY <1>3 DEF MSG_ReadBits
  <2>2. OfBits(bits) \in Nat
    <3>1. 0 \in 0 .. 31
      OBVIOUS
    <3> QED BY <3>1, BitsOfBits
  <2>3. <<OfBits(bits)>> # None
    <3> HIDE DEF bits
    <3> QED BY <2>2 DEF None
  <2> QED BY <2>1, <2>3
<1> QED BY <1>2, <1>3

\* Whatever is read past the end is reported as an overflow.
LEMMA PastTheEnd ==
  ASSUME NEW m, Readable(m), NEW in \in Inputs, ReadAs(m, in).value = None
  PROVE  ReadAs(m, in).msg.overflowed
<1>1. /\ in.op \in {"byte", "short", "long", "int64", "data", "string", "line", "base64", "bits", "bit"}
      /\ in.op # "bits" => Len(in.v) \in Nat
  BY InputsAssumption
<1>2. CASE in.op \in {"byte", "short", "long", "int64"}
  BY <1>2, NoneOfBytes DEF ReadAs, MSG_ReadByte, MSG_ReadShort, MSG_ReadLong, MSG_ReadInt64
<1>3. CASE in.op = "data"
  BY <1>1, <1>3, NoneOfBytes DEF ReadAs
<1>4. CASE in.op = "string"
  BY <1>4, NoneOfTexts, SizesAssumption DEF ReadAs
<1>5. CASE in.op = "line"
  <2>1. Len(in.v) + 2 \in Nat \ {0}
    BY <1>1, <1>5
  <2> QED BY <1>5, <2>1, NoneOfTexts DEF ReadAs
<1>6. CASE in.op = "base64"
  BY <1>6, NoneOfBase64 DEF ReadAs
<1>7. CASE in.op \in {"bits", "bit"}
  BY <1>7, NoneOfBits DEF ReadAs, MSG_ReadBit
<1> QED BY <1>1, <1>2, <1>3, <1>4, <1>5, <1>6, <1>7

----------------------------------------------------------------------------
(* Where no byte is left.                                                  *)

\* No bits make no number.
LEMMA NoBitsMakeZero == OfBits({}) = 0
<1>1. \A i \in 0 .. 31 : i \in {} <=> i < 0 /\ Bit(0, i) = 1
  OBVIOUS
<1>2. Shifted(0)[0] = 0
  BY ShiftedIs
<1> QED BY <1>1, <1>2, BitsMakeNumber

\* Nothing of nothing.
LEMMA CutOfNothing ==
  ASSUME NEW n \in Nat
  PROVE  Cut(Harmless(<< >>), n) = << >> /\ SubSeq(<< >>, 1, 0) = << >>
<1>1. Harmless(<< >>) = << >>
  BY DEF Harmless
<1>2. Len(<< >>) = 0 /\ Less(0, n) = 0
  BY DEF Less
<1>3. SubSeq(<< >>, 1, 0) = << >>
  OBVIOUS
<1> QED BY <1>1, <1>2, <1>3 DEF Cut

\* Where nothing is found, the place after the end is the first.
LEMMA EndAtOnce == Min({} \cup {0 + 1}) = 1
<1>1. Min({} \cup {0 + 1}) \in {} \cup {0 + 1}
  BY FirstOf
<1> QED BY <1>1

\* A number or data that is read there.
LEMMA NothingOfBytes ==
  ASSUME NEW m, Readable(m), Unread(m) = << >>, m.readcount >= m.cursize, NEW n \in Nat
  PROVE  /\ n # 0 => ReadNumber(m, n).value = None /\ ReadNumber(m, n).msg.overflowed
         /\ MSG_ReadData(m, n).value = [i \in 1 .. n |-> 255]
         /\ n # 0 => MSG_ReadData(m, n).msg.overflowed
<1>1. DOMAIN m = Parts /\ m.readcount \in Nat /\ m.cursize \in Nat /\ Len(Unread(m)) = 0
  BY DEF Readable, Good, Fits
<1>2. Overflow(m).overflowed /\ Overflow(Advance(m, 0)).overflowed
  BY <1>1 DEF Overflow, Advance, Parts
<1>3. ASSUME n # 0 PROVE ReadNumber(m, n).value = None /\ ReadNumber(m, n).msg.overflowed
  <2>1. m.readcount + n > m.cursize
    BY <1>1, <1>3
  <2> QED BY <1>2, <2>1 DEF ReadNumber
<1>4. Less(n, Len(Unread(m))) = 0
  BY <1>1 DEF Less
<1>5. /\ MSG_ReadData(m, n).value = [i \in 1 .. n |-> IF i <= 0 THEN Unread(m)[i] ELSE 255]
      /\ MSG_ReadData(m, n).msg = IF 0 < n THEN Overflow(Advance(m, 0)) ELSE Advance(m, 0)
  BY <1>4 DEF MSG_ReadData
<1>6. \A i \in 1 .. n : ~(i <= 0)
  OBVIOUS
<1>7. [i \in 1 .. n |-> IF i <= 0 THEN Unread(m)[i] ELSE 255] = [i \in 1 .. n |-> 255]
  BY <1>6
<1>8. n # 0 => 0 < n
  OBVIOUS
<1> QED BY <1>2, <1>3, <1>5, <1>7, <1>8

\* A text that is read there.
LEMMA NothingOfTexts ==
  ASSUME NEW m, Readable(m), Unread(m) = << >>, NEW n \in Nat, n > 1
  PROVE  /\ MSG_ReadString(m, n).value = << >> /\ MSG_ReadString(m, n).msg.overflowed
         /\ MSG_ReadStringLine(m, n).value = << >> /\ MSG_ReadStringLine(m, n).msg.overflowed
<1>1. DOMAIN m = Parts /\ Len(Unread(m)) = 0
  BY DEF Readable, Good
<1>2. \A k : Overflow(Advance(m, k)).overflowed
  BY <1>1 DEF Overflow, Advance, Parts
<1> DEFINE u == Unread(m)
           y == Min({i \in 1 .. Len(u) : u[i] = 0} \cup {Len(u) + 1})
           z == Min({i \in 1 .. Len(u) : u[i] \in {0, Newline}} \cup {Len(u) + 1})
<1>3. y = 1 /\ z = 1
  <2>1. \A i \in 1 .. Len(u) : FALSE
    BY <1>1
  <2>2. {i \in 1 .. Len(u) : u[i] = 0} = {} /\ {i \in 1 .. Len(u) : u[i] \in {0, Newline}} = {}
    BY <2>1
  <2>3. Min({} \cup {0 + 1}) = 1
    BY EndAtOnce
  <2>4. y = Min({} \cup {0 + 1}) /\ z = Min({} \cup {0 + 1})
    BY <1>1, <2>2
  <2> QED BY <2>3, <2>4
<1>4. /\ MSG_ReadString(m, n).value = Cut(Harmless(SubSeq(u, 1, y - 1)), n - 1)
      /\ MSG_ReadString(m, n).msg =
           IF y > Len(u) THEN Overflow(Advance(m, Less(y, Len(u)))) ELSE Advance(m, Less(y, Len(u)))
      /\ MSG_ReadStringLine(m, n).value = Cut(Harmless(SubSeq(u, 1, z - 1)), n - 1)
      /\ MSG_ReadStringLine(m, n).msg =
           IF z > Len(u) /\ Len(u) < n - 1 THEN Overflow(Advance(m, Less(z, Less(n - 1, Len(u)))))
                                           ELSE Advance(m, Less(z, Less(n - 1, Len(u))))
  BY DEF MSG_ReadString, MSG_ReadStringLine, Upto
<1> HIDE DEF y, z
<1>5. y - 1 = 0 /\ z - 1 = 0 /\ y > Len(u) /\ z > Len(u) /\ Len(u) < n - 1 /\ n - 1 \in Nat
  BY <1>1, <1>3
<1>6. Cut(Harmless(SubSeq(u, 1, 0)), n - 1) = << >>
  <2>1. SubSeq(u, 1, 0) = << >>
    BY <1>5, CutOfNothing
  <2> QED BY <1>5, <2>1, CutOfNothing
<1> QED BY <1>2, <1>4, <1>5, <1>6

\* Base64 that is read there.
LEMMA NothingOfBase64 ==
  ASSUME NEW m, Readable(m), Unread(m) = << >>, NEW n \in Nat
  PROVE  MSG_ReadBase64(m, n).value = <<0, 0, 0>> /\ MSG_ReadBase64(m, n).msg.overflowed
<1> DEFINE u == Unread(m)
           bad == Min({i \in 1 .. Len(u) : u[i] \notin 0 .. 63} \cup {Len(u) + 1})
           groups == IF n <= 7 THEN 1 ELSE Ceil(n - 4, 3)
           whole == bad > 4 * groups
           C(i) == IF i < bad THEN u[i] ELSE 0
           Bits(g) == OfFour(C(4*g + 1), C(4*g + 2), C(4*g + 3), C(4*g + 4))
           r == Advance(m, Less(IF whole THEN 4 * groups ELSE bad, Len(u)))
<1>1. DOMAIN m = Parts /\ Len(u) = 0
  BY DEF Readable, Good
<1>2. bad = 1
  <2>1. \A i \in 1 .. Len(u) : FALSE
    BY <1>1
  <2>2. {i \in 1 .. Len(u) : u[i] \notin 0 .. 63} = {}
    BY <2>1
  <2>3. Min({} \cup {0 + 1}) = 1
    BY EndAtOnce
  <2> QED BY <1>1, <2>2, <2>3
<1>3. groups \in Nat /\ groups >= 1
  BY DEF Ceil
<1>4. /\ MSG_ReadBase64(m, n).value =
           [i \in 1 .. 3 * (IF whole THEN groups ELSE (bad - 1) \div 4 + 1) |->
              ByteNumber(Bits((i - 1) \div 3), ((i - 1) % 3) + 1)]
      /\ MSG_ReadBase64(m, n).msg = IF ~whole /\ bad > Len(u) THEN Overflow(r) ELSE r
  BY DEF MSG_ReadBase64, Upto, OfFour, ByteNumber
<1> HIDE DEF bad, groups
<1>5. ~whole /\ bad > Len(u) /\ (bad - 1) \div 4 + 1 = 1
  <2>1. (1 - 1) \div 4 + 1 = 1
    OBVIOUS
  <2> QED BY <1>1, <1>2, <1>3, <2>1
<1>6. Overflow(r).overflowed
  BY <1>1 DEF Overflow, Advance, Parts
<1>7. Bits(0) = 0
  <2>1. C(1) = 0 /\ C(2) = 0 /\ C(3) = 0 /\ C(4) = 0
    BY <1>2
  <2>2. 4*0 + 1 = 1 /\ 4*0 + 2 = 2 /\ 4*0 + 3 = 3 /\ 4*0 + 4 = 4
    OBVIOUS
  <2> HIDE DEF C
  <2>3. Bits(0) = OfFour(C(1), C(2), C(3), C(4))
    BY <2>2
  <2> QED BY <2>1, <2>3, SMT DEF OfFour
<1>8. \A i \in 1 .. 3 : ByteNumber(0, i) = 0
  <2>1. \A i \in 1 .. 3 : i = 1 \/ i = 2 \/ i = 3
    OBVIOUS
  <2>2. ByteNumber(0, 1) = 0 /\ ByteNumber(0, 2) = 0 /\ ByteNumber(0, 3) = 0
    BY SMT DEF ByteNumber
  <2> QED BY <2>1, <2>2
<1>9. MSG_ReadBase64(m, n).value = <<0, 0, 0>>
  <2> DEFINE B(i) == ByteNumber(Bits((i - 1) \div 3), ((i - 1) % 3) + 1)
  <2>1. MSG_ReadBase64(m, n).value = [i \in 1 .. 3 |-> B(i)]
    <3>1. 3 * 1 = 3
      OBVIOUS
    <3> HIDE DEF whole, Bits
    <3> QED BY <1>4, <1>5, <3>1
  <2>2. ASSUME NEW i \in 1 .. 3 PROVE B(i) = 0
    <3>1. (i - 1) \div 3 = 0 /\ ((i - 1) % 3) + 1 = i
      OBVIOUS
    <3> HIDE DEF Bits
    <3> QED BY <1>7, <1>8, <3>1
  <2> HIDE DEF B
  <2>3. [i \in 1 .. 3 |-> B(i)] = [i \in 1 .. 3 |-> 0]
    BY <2>2
  <2>4. [i \in 1 .. 3 |-> 0] = <<0, 0, 0>>
    OBVIOUS
  <2> QED BY <2>1, <2>3, <2>4
<1> HIDE DEF whole, r
<1> QED BY <1>4, <1>5, <1>6, <1>9

\* Bits that are read there: those left of the last byte, which are blank.
LEMMA NothingOfBits ==
  ASSUME NEW m, Readable(m), m.readcount = m.cursize + m.splitsize, NEW n \in 0 .. 32
  PROVE  \/ MSG_ReadBits(m, n).value = None /\ MSG_ReadBits(m, n).msg.overflowed
         \/ /\ n < 8
            /\ Pieces(m) /\ Blank(Full(m), m.bit) => MSG_ReadBits(m, n).value = <<0>>
<1> DEFINE end == m.cursize + m.splitsize
           b == m.bit
           bits == {i \in 0 .. n - 1 : BitAt(m, Place(b, i, m.readcount)) = 1}
<1>1. /\ DOMAIN m = Parts /\ end \in Nat /\ b \in Nat /\ b <= 8 * end /\ m.readcount = end /\ Good(m)
      /\ n \in Nat
  BY DEF Readable, Good, Fits
<1>2. Rest(b) \in 0 .. 7 /\ b + Rest(b) <= 8 * end
  <2> HIDE DEF end, b
  <2> QED BY <1>1, RestIs
<1>3. CASE n <= Rest(b)
  <2>1. n < 8
    BY <1>1, <1>2, <1>3
  <2>2. MSG_ReadBits(m, n).value = <<OfBits(bits)>>
    <3>1. NewBytes(b, n) = 0
      BY <1>3 DEF NewBytes
    <3>2. ~(m.readcount + NewBytes(b, n) > end)
      BY <1>1, <3>1
    <3> QED BY <3>2 DEF MSG_ReadBits
  <2>3. ASSUME Pieces(m), Blank(Full(m), b) PROVE bits = {}
    <3> SUFFICES ASSUME NEW i \in 0 .. n - 1 PROVE BitAt(m, Place(b, i, m.readcount)) # 1
      OBVIOUS
    <3> DEFINE p == Place(b, i, m.readcount)
    <3>1. p = b + i
      BY <1>1, <1>2, <1>3 DEF Place
    <3>2. p \in Free(b)
      <4> HIDE DEF p, b
      <4> QED BY <1>1, <1>2, <1>3, <3>1 DEF Free
    <3> HIDE DEF p
    <3>3. p \in Nat /\ p < 8 * end
      <4> HIDE DEF b, end
      <4> QED BY <1>1, <3>2, FreeIs
    <3>4. BitAt(m, p) = BitOf(Full(m), p)
      BY <1>1, <2>3, <3>3, BitAtIs
    <3>5. BitOf(Full(m), p) = 0
      BY <2>3, <3>2 DEF Blank
    <3> QED BY <3>4, <3>5 DEF p
  <2> HIDE DEF bits
  <2> QED BY <2>1, <2>2, <2>3, NoBitsMakeZero
<1>4. CASE ~(n <= Rest(b))
  <2>1. NewBytes(b, n) \in Nat /\ NewBytes(b, n) > 0
    <3> HIDE DEF b
    <3> QED BY <1>1, <1>2, <1>4, NewBytesAre
  <2>2. m.readcount + NewBytes(b, n) > end
    <3> HIDE DEF end, b
    <3> QED BY <1>1, <2>1
  <2>3. PICK r : MSG_ReadBits(m, n) = [msg |-> r, value |-> None] /\ r.overflowed
    <3>1. PICK x : MSG_ReadBits(m, n) = [msg |-> [Overflow(m) EXCEPT !.readcount = end, !.bit = x], value |-> None]
      BY <2>2 DEF MSG_ReadBits
    <3>2. [Overflow(m) EXCEPT !.readcount = end, !.bit = x].overflowed
      BY <1>1 DEF Overflow, Parts
    <3> QED BY <3>1, <3>2
  <2> QED BY <2>3
<1> QED BY <1>2, <1>3, <1>4

\* Whatever is read where no byte is left finds nothing, or bits that are blank.
LEMMA NothingIsLeft ==
  ASSUME NEW m, Readable(m), m.readcount = m.cursize + m.splitsize, NEW in \in Inputs
  PROVE  \/ /\ ReadAs(m, in).value = Nothing(in)
            /\ ReadAs(m, in).msg.overflowed \/ (in.op = "data" /\ in.v = << >>)
         \/ /\ IsBits(in) /\ BitsIn(in) < 8
            /\ Pieces(m) /\ Blank(Full(m), m.bit) => ReadAs(m, in).value = <<0>>
<1>1. /\ in.op \in {"byte", "short", "long", "int64", "data", "string", "line", "base64", "bits", "bit"}
      /\ in.op # "bits" => in.v \in Seq(Byte) /\ Len(in.v) \in Nat /\ DOMAIN in.v = 1 .. Len(in.v)
      /\ in.op = "bits" => in.n \in 0 .. 32
  BY InputsAssumption
<1>2. /\ m.readcount >= m.cursize /\ Unread(m) = << >>
  <2>1. m.cursize \in Nat /\ m.splitsize \in Nat /\ Good(m)
    BY DEF Readable, Good, Fits
  <2>2. m.readcount >= m.cursize
    BY <2>1
  <2>3. Len(Unread(m)) = 0 /\ Unread(m) \in Seq(Byte)
    BY <2>1, <2>2, UnreadIs DEF Whole
  <2>4. \A s \in Seq(Byte) : Len(s) = 0 => s = << >>
    OBVIOUS
  <2> QED BY <2>2, <2>3, <2>4
<1>3. CASE in.op \in {"byte", "short", "long", "int64"}
  <2>1. Nothing(in) = None
    BY <1>3 DEF Nothing
  <2>2. \A n \in {1, 2, 4, 8} : ReadNumber(m, n).value = None /\ ReadNumber(m, n).msg.overflowed
    <3> SUFFICES ASSUME NEW n \in {1, 2, 4, 8}
                 PROVE  ReadNumber(m, n).value = None /\ ReadNumber(m, n).msg.overflowed
      OBVIOUS
    <3>1. n \in Nat /\ n # 0
      OBVIOUS
    <3> QED BY <1>2, <3>1, NothingOfBytes
  <2> QED BY <1>3, <2>1, <2>2 DEF ReadAs, MSG_ReadByte, MSG_ReadShort, MSG_ReadLong, MSG_ReadInt64
<1>4. CASE in.op = "data"
  <2> DEFINE n == Len(in.v)
  <2>1. Nothing(in) = [i \in 1 .. n |-> 255] /\ ReadAs(m, in) = MSG_ReadData(m, n) /\ n \in Nat
    BY <1>1, <1>4 DEF Nothing, ReadAs
  <2>2. n = 0 => in.v = << >>
    <3>1. \A s \in Seq(Byte) : Len(s) = 0 => s = << >>
      OBVIOUS
    <3> QED BY <1>1, <1>4, <3>1
  <2> HIDE DEF n
  <2>3. /\ MSG_ReadData(m, n).value = [i \in 1 .. n |-> 255]
        /\ n # 0 => MSG_ReadData(m, n).msg.overflowed
    BY <1>2, <2>1, NothingOfBytes
  <2> QED BY <1>4, <2>1, <2>2, <2>3
<1>5. CASE in.op = "string"
  <2>1. MaxString \in Nat /\ MaxString > 1
    BY SizesAssumption
  <2> QED BY <1>2, <1>5, <2>1, NothingOfTexts DEF ReadAs, Nothing
<1>6. CASE in.op = "line"
  <2>1. Len(in.v) + 2 \in Nat /\ Len(in.v) + 2 > 1
    BY <1>1, <1>6
  <2> QED BY <1>2, <1>6, <2>1, NothingOfTexts DEF ReadAs, Nothing
<1>7. CASE in.op = "base64"
  <2>1. Len(in.v) + 4 \in Nat
    BY <1>1, <1>7
  <2> QED BY <1>2, <1>7, <2>1, NothingOfBase64 DEF ReadAs, Nothing
<1>8. CASE in.op \in {"bits", "bit"}
  <2> DEFINE n == BitsIn(in)
  <2>1. Nothing(in) = None /\ ReadAs(m, in) = MSG_ReadBits(m, n) /\ IsBits(in)
    BY <1>8 DEF Nothing, ReadAs, MSG_ReadBit, BitsIn, IsBits
  <2>2. n \in 0 .. 32
    <3>1. CASE in.op = "bits"
      BY <1>1, <3>1 DEF BitsIn
    <3>2. CASE in.op = "bit"
      <4>1. n = 1
        BY <3>2 DEF BitsIn
      <4> QED BY <4>1
    <3> QED BY <1>8, <3>1, <3>2
  <2> HIDE DEF n
  <2>3. \/ MSG_ReadBits(m, n).value = None /\ MSG_ReadBits(m, n).msg.overflowed
        \/ /\ n < 8
           /\ Pieces(m) /\ Blank(Full(m), m.bit) => MSG_ReadBits(m, n).value = <<0>>
    BY <2>2, NothingOfBits
  <2> QED BY <2>1, <2>3 DEF n
<1> QED BY <1>1, <1>3, <1>4, <1>5, <1>6, <1>7, <1>8

----------------------------------------------------------------------------
(* The bits in use.                                                        *)

AllBits(l)  == \A i \in DOMAIN l : IsBits(l[i])
Counted(l)  == CHOOSE w : w = [i \in 0 .. Len(l) |-> IF i = 0 THEN 0 ELSE w[i - 1] + BitsIn(l[i])]

\* How many bits an input of bits has.
LEMMA BitsInIs ==
  ASSUME NEW in \in Inputs, IsBits(in)
  PROVE  BitsIn(in) \in Nat
<1>1. CASE in.op = "bits"
  <2>1. in.n \in 0 .. 32 /\ BitsIn(in) = in.n
    BY <1>1, InputsAssumption DEF BitsIn
  <2> QED BY <2>1
<1>2. CASE in.op = "bit"
  BY <1>2 DEF BitsIn
<1> QED BY <1>1, <1>2 DEF IsBits

\* The bits of the entries are added up.
LEMMA CountedIs ==
  ASSUME NEW l \in Seq(Inputs), AllBits(l)
  PROVE  /\ BitsWritten(l) = Counted(l)[Len(l)] /\ Counted(l)[0] = 0
         /\ \A i \in 1 .. Len(l) : Counted(l)[i] = Counted(l)[i - 1] + BitsIn(l[i])
         /\ \A i \in 0 .. Len(l) : Counted(l)[i] \in Nat
<1> DEFINE n == Len(l)
           g == [y \in (1 .. n) \X Nat |-> y[2] + BitsIn(l[y[1]])]
           w == Counted(l)
<1>1. n \in Nat /\ \A i \in 1 .. n : BitsIn(l[i]) \in Nat
  BY BitsInIs DEF AllBits
<1>2. g \in [(1 .. n) \X Nat -> Nat]
  <2>1. \A y \in (1 .. n) \X Nat : y[2] + BitsIn(l[y[1]]) \in Nat
    <3> SUFFICES ASSUME NEW y \in (1 .. n) \X Nat PROVE y[2] + BitsIn(l[y[1]]) \in Nat
      OBVIOUS
    <3>1. y[1] \in 1 .. n /\ y[2] \in Nat
      OBVIOUS
    <3>2. BitsIn(l[y[1]]) \in Nat
      BY <1>1, <3>1
    <3> QED BY <3>1, <3>2
  <2> QED BY <2>1
<1> HIDE DEF n
<1>3. PICK f \in [0 .. n -> Nat] : Steps(f, n, 0, g)
  <2>1. 0 \in Nat
    OBVIOUS
  <2> HIDE DEF g
  <2> QED BY <1>1, <1>2, <2>1, StepsExist
<1>4. \A i \in 0 .. n : i # 0 => g[<<i, f[i - 1]>>] = f[i - 1] + BitsIn(l[i])
  <2> SUFFICES ASSUME NEW i \in 0 .. n, i # 0 PROVE g[<<i, f[i - 1]>>] = f[i - 1] + BitsIn(l[i])
    OBVIOUS
  <2>1. i \in 1 .. n /\ i - 1 \in 0 .. n /\ f[i - 1] \in Nat
    BY <1>1
  <2>2. <<i, f[i - 1]>> \in (1 .. n) \X Nat
    BY <2>1
  <2> QED BY <2>2 DEF g
<1>5. f = [i \in 0 .. n |-> IF i = 0 THEN 0 ELSE f[i - 1] + BitsIn(l[i])]
  BY <1>3, <1>4 DEF Steps
<1>6. BitsWritten(l) = w[n]
  BY DEF BitsWritten, Counted, n
<1>7. w = [i \in 0 .. n |-> IF i = 0 THEN 0 ELSE w[i - 1] + BitsIn(l[i])]
  BY <1>5 DEF Counted, n
<1> HIDE DEF w, g
<1>8. \A i \in 1 .. n : w[i] = w[i - 1] + BitsIn(l[i])
  BY <1>1, <1>7
<1>9. w[0] = 0
  BY <1>1, <1>7
<1> DEFINE T == {k \in Nat : k <= n => w[k] \in Nat}
<1>10. 0 \in T
  BY <1>9
<1>11. ASSUME NEW k \in Nat, k \in T PROVE k + 1 \in T
  <2> SUFFICES ASSUME k + 1 <= n PROVE w[k + 1] \in Nat
    OBVIOUS
  <2>1. k + 1 \in 1 .. n /\ (k + 1) - 1 = k /\ w[k] \in Nat
    BY <1>1, <1>11
  <2>2. w[k + 1] = w[k] + BitsIn(l[k + 1]) /\ BitsIn(l[k + 1]) \in Nat
    BY <1>1, <1>8, <2>1
  <2> QED BY <2>1, <2>2
<1>12. \A k \in Nat : k \in T
  <2> HIDE DEF T
  <2> QED BY <1>10, <1>11, NumberInduction
<1>13. \A i \in 0 .. n : w[i] \in Nat
  BY <1>1, <1>12
<1> QED BY <1>6, <1>8, <1>9, <1>13 DEF w, n

\* No bits are written at first.
LEMMA NothingWritten == BitsWritten(<< >>) = 0
<1>1. << >> \in Seq(Inputs) /\ Len(<< >>) = 0 /\ AllBits(<< >>)
  BY DEF AllBits
<1> QED BY <1>1, CountedIs

\* One more entry adds its bits.
LEMMA MoreWritten ==
  ASSUME NEW l \in Seq(Inputs), AllBits(l), NEW in \in Inputs, IsBits(in)
  PROVE  /\ BitsWritten(Append(l, in)) = BitsWritten(l) + BitsIn(in)
         /\ BitsWritten(l) \in Nat
<1> DEFINE a == Append(l, in)
           n == Len(l)
           w == Counted(l)
           v == Counted(a)
<1>1. /\ a \in Seq(Inputs) /\ Len(a) = n + 1 /\ n \in Nat /\ a[n + 1] = in
      /\ \A i \in 1 .. n : a[i] = l[i]
  OBVIOUS
<1>2. AllBits(a)
  <2> SUFFICES ASSUME NEW i \in 1 .. n + 1 PROVE IsBits(a[i])
    BY <1>1 DEF AllBits
  <2>1. i \in 1 .. n \/ i = n + 1
    BY <1>1
  <2> QED BY <1>1, <2>1 DEF AllBits
<1>3. /\ BitsWritten(l) = w[n] /\ w[0] = 0
      /\ \A i \in 1 .. n : w[i] = w[i - 1] + BitsIn(l[i])
      /\ \A i \in 0 .. n : w[i] \in Nat
  BY CountedIs
<1> HIDE DEF a, w
<1>4. /\ BitsWritten(a) = v[Len(a)] /\ v[0] = 0
      /\ \A i \in 1 .. Len(a) : v[i] = v[i - 1] + BitsIn(a[i])
  BY <1>1, <1>2, CountedIs
<1> HIDE DEF v, n
<1> DEFINE T == {k \in Nat : k <= n => v[k] = w[k]}
<1>5. 0 \in T
  BY <1>3, <1>4
<1>6. ASSUME NEW k \in Nat, k \in T PROVE k + 1 \in T
  <2> SUFFICES ASSUME k + 1 <= n PROVE v[k + 1] = w[k + 1]
    OBVIOUS
  <2>1. k + 1 \in 1 .. n /\ k + 1 \in 1 .. n + 1 /\ (k + 1) - 1 = k /\ v[k] = w[k]
    BY <1>1, <1>6
  <2> QED BY <1>1, <1>3, <1>4, <2>1
<1>7. n \in T
  <2> HIDE DEF T
  <2> QED BY <1>1, <1>5, <1>6, NumberInduction
<1>8. v[n + 1] = v[n] + BitsIn(in)
  <2>1. n + 1 \in 1 .. n + 1 /\ (n + 1) - 1 = n
    BY <1>1
  <2> QED BY <1>1, <1>4, <2>1
<1> QED BY <1>1, <1>3, <1>4, <1>7, <1>8 DEF a

\* The byte that is not full is the last one.
LEMMA RestUpTo ==
  ASSUME NEW b \in Nat, NEW h \in Nat, b <= 8 * h, 8 * h < b + 8
  PROVE  b + Rest(b) = 8 * h
<1> DEFINE q == b \div 8
           r == b % 8
<1>1. q \in Nat /\ r \in 0 .. 7 /\ b = 8 * q + r
  OBVIOUS
<1>2. Rest(b) = (8 - r) % 8
  BY DEF Rest
<1> HIDE DEF q, r
<1>3. CASE r = 0
  BY <1>1, <1>2, <1>3
<1>4. CASE r # 0
  <2>1. Rest(b) = 8 - r
    BY <1>1, <1>2, <1>4
  <2>2. h = q + 1
    BY <1>1, <1>4
  <2> QED BY <1>1, <2>1, <2>2
<1> QED BY <1>3, <1>4

\* If nothing but bits has been written, the next ones follow on the last.
LEMMA BitsFollow ==
  ASSUME NEW b \in Nat, NEW c \in Nat, b + Rest(b) = 8 * c, NEW n \in Nat
  PROVE  /\ BitAfter(b, n, c) = b + n
         /\ (b + n) + Rest(b + n) = 8 * (c + NewBytes(b, n))
<1> DEFINE q == Rest(b)
           k == NewBytes(b, n)
           h == c + k
<1>1. q \in 0 .. 7 /\ b <= 8 * c
  <2>1. q \in 0 .. 7
    <3>1. b % 8 \in 0 .. 7
      OBVIOUS
    <3> QED BY <3>1 DEF Rest
  <2> HIDE DEF q
  <2>2. b + q = 8 * c
    BY DEF q
  <2> QED BY <2>1, <2>2
<1>2. BitAfter(b, n, c) = IF n <= q THEN b + n ELSE 8 * c + (n - q)
  BY <1>1, BitAfterIs
<1>3. k \in Nat /\ n - q <= 8 * k /\ (n > q => k > 0 /\ 8 * k < n - q + 8) /\ (n <= q => k = 0)
  BY <1>1, NewBytesAre DEF NewBytes
<1>4. b + q = 8 * c
  OBVIOUS
<1> HIDE DEF q, k
<1>5. BitAfter(b, n, c) = b + n
  BY <1>1, <1>2, <1>4
<1>6. h \in Nat /\ b + n \in Nat /\ b + n <= 8 * h /\ 8 * h < (b + n) + 8
  BY <1>1, <1>3, <1>4
<1> HIDE DEF h
<1>7. (b + n) + Rest(b + n) = 8 * h
  BY <1>6, RestUpTo
<1> QED BY <1>5, <1>7 DEF h, k

\* MSG_GetUsedBitCount is the bit position in a message that ends in the byte it points into.
LEMMA UsedBitsAre ==
  ASSUME NEW m, Writable(m), m.bit + Rest(m.bit) = 8 * m.cursize
  PROVE  MSG_GetUsedBitCount(m) = m.bit
<1> DEFINE b == m.bit
           q == b \div 8
           r == b % 8
<1>1. b \in Nat /\ m.cursize \in Nat /\ m.splitsize = 0
  BY DEF Writable, Good, Fits
<1>2. q \in Nat /\ r \in 0 .. 7 /\ b = 8 * q + r
  <2> HIDE DEF b
  <2> QED BY <1>1
<1>3. MSG_GetUsedBitCount(m) = 8 * m.cursize - ((8 - b) % 8)
  BY <1>1 DEF MSG_GetUsedBitCount
<1>4. Rest(b) = (8 - r) % 8 /\ b + Rest(b) = 8 * m.cursize
  BY DEF Rest
<1> HIDE DEF b, q, r
<1>5. (8 - b) % 8 = (8 - r) % 8
  <2>1. \A x \in Int, y \in 0 .. 7 : (8 * x + y) % 8 = y
    OBVIOUS
  <2>2. CASE r = 0
    <3>1. 8 - b = 8 * (1 - q) + 0 /\ 1 - q \in Int /\ 0 \in 0 .. 7
      BY <1>2, <2>2
    <3> QED BY <2>1, <2>2, <3>1
  <2>3. CASE r # 0
    <3>1. 8 - b = 8 * (-q) + (8 - r) /\ -q \in Int /\ 8 - r \in 0 .. 7
      BY <1>2, <2>3
    <3>2. (8 - r) % 8 = 8 - r
      BY <3>1
    <3> QED BY <2>1, <3>1, <3>2
  <2> QED BY <2>2, <2>3
<1>6. (8 - r) % 8 \in Nat
  BY <1>2
<1> QED BY <1>1, <1>3, <1>4, <1>5, <1>6 DEF b

----------------------------------------------------------------------------
(* The entries of a log, one after the other: pos[i] is the place after the *)
(* first i of them.                                                         *)

AllLegible(l) == \A i \in DOMAIN l : Legible(l[i])

Leads(pos, l, d) ==
  /\ pos[0] = <<0, 0>>
  /\ \A i \in 0 .. Len(l) : IsPlace(pos[i]) /\ pos[i][1] <= Len(d)
  /\ \A i \in 1 .. Len(l) : pos[i] = After(pos[i - 1], l[i]) /\ Holds(d, pos[i - 1], l[i])

\* A message that is written holds the entries up to its end, and nothing of them
\* is where the next bits go.
Laid(m, l) ==
  /\ Blank(m.data, m.bit)
  /\ \E pos : /\ Leads(pos, l, m.data)
              /\ pos[Len(l)] = <<m.cursize, m.bit>>
              /\ \A i \in 1 .. Len(l) : Apart(pos[i - 1], l[i], m.bit)

\* The entries are all there is in d, but for blank bits.
Held(pos, l, d) == Leads(pos, l, d) /\ pos[Len(l)][1] = Len(d) /\ Blank(d, pos[Len(l)][2])

\* One that is read has come to the entry n, or to the end, and is still there.
Found(m, l, n, there) ==
  /\ n \in 1 .. Len(l) + 1
  /\ \E pos : Held(pos, l, Full(m)) /\ (there => pos[n - 1] = <<m.readcount, m.bit>>)

\* An empty message holds an empty log.
LEMMA NothingLaid ==
  ASSUME NEW m, m.data = << >>, m.cursize = 0, m.bit = 0
  PROVE  Laid(m, << >>)
<1>1. Blank(m.data, m.bit)
  <2>1. Rest(0) = 0
    BY DEF Rest
  <2>2. Free(0) = {}
    BY <2>1 DEF Free
  <2> QED BY <2>2 DEF Blank
<1> DEFINE pos == [i \in 0 .. 0 |-> <<0, 0>>]
<1>2. pos[0] = <<0, 0>> /\ IsPlace(pos[0]) /\ pos[0][1] = 0
  BY DEF IsPlace
<1> HIDE DEF pos
<1>3. Len(<< >>) = 0 /\ \A i \in 0 .. 0 : i = 0
  OBVIOUS
<1>4. \A i \in 0 .. 0 : IsPlace(pos[i]) /\ pos[i][1] <= 0
  BY <1>2, <1>3
<1>5. Leads(pos, << >>, m.data)
  BY <1>2, <1>3, <1>4 DEF Leads
<1>6. pos[Len(<< >>)] = <<m.cursize, m.bit>> /\ \A i \in 1 .. Len(<< >>) : Apart(pos[i - 1], (<< >>)[i], m.bit)
  BY <1>2, <1>3
<1> QED BY <1>1, <1>5, <1>6 DEF Laid

\* A message that holds its log holds one more entry when that is written.
LEMMA MoreLaid ==
  ASSUME NEW m, Writable(m), ~m.overflowed, NEW l \in Seq(Inputs), AllLegible(l), Laid(m, l),
         NEW in \in Inputs, Legible(in), NEW w, w = Written(m, in), ~w.overflowed
  PROVE  Laid(w, Append(l, in))
<1> DEFINE n == Len(l)
           a == Append(l, in)
<1>1. PICK pos : /\ Leads(pos, l, m.data)
                 /\ pos[n] = <<m.cursize, m.bit>>
                 /\ \A i \in 1 .. n : Apart(pos[i - 1], l[i], m.bit)
  BY DEF Laid
<1>2. /\ After(pos[n], in) = <<w.cursize, w.bit>> /\ Holds(w.data, pos[n], in)
      /\ Apart(pos[n], in, w.bit)
      /\ Keeps(m.data, w.data, m.bit) /\ Blank(w.data, w.bit)
      /\ \A x \in Free(w.bit) : x \in Free(m.bit) \/ x >= 8 * m.cursize
  <2>1. Blank(m.data, m.bit)
    BY DEF Laid
  <2> QED BY <1>1, <2>1, EntryWritten
<1>3. Writable(w)
  BY WritesFit
<1>4. /\ Len(m.data) = m.cursize /\ m.cursize \in Nat /\ Len(w.data) = w.cursize /\ w.cursize \in Nat
      /\ m.cursize <= w.cursize
  <2>1. Len(m.data) <= Len(w.data)
    BY <1>2 DEF Keeps
  <2> QED BY <1>3, <2>1 DEF Writable, Good, Fits
<1>5. /\ n \in Nat /\ Len(a) = n + 1 /\ a[n + 1] = in /\ \A i \in 1 .. n : a[i] = l[i] /\ l[i] \in Inputs
  OBVIOUS
<1>6. \A i \in 1 .. n : Legible(l[i])
  BY DEF AllLegible
<1> DEFINE q == [i \in 0 .. n + 1 |-> IF i <= n THEN pos[i] ELSE <<w.cursize, w.bit>>]
<1>7. /\ \A i \in 0 .. n : q[i] = pos[i]
      /\ q[n + 1] = <<w.cursize, w.bit>>
  BY <1>5
<1> HIDE DEF q, a, n
<1>8. /\ pos[0] = <<0, 0>>
      /\ \A i \in 0 .. n : IsPlace(pos[i]) /\ pos[i][1] <= m.cursize
      /\ \A i \in 1 .. n : pos[i] = After(pos[i - 1], l[i]) /\ Holds(m.data, pos[i - 1], l[i])
  BY <1>1, <1>4 DEF Leads, n
<1>9. ASSUME NEW i \in 1 .. n
      PROVE  /\ q[i] = After(q[i - 1], a[i]) /\ Holds(w.data, q[i - 1], a[i])
             /\ Apart(q[i - 1], a[i], w.bit)
  <2> DEFINE p == pos[i - 1]
             e == l[i]
  <2>1. i \in 0 .. n /\ i - 1 \in 0 .. n
    BY <1>5
  <2>2. q[i - 1] = p /\ q[i] = pos[i] /\ a[i] = e /\ e \in Inputs /\ Legible(e)
    BY <1>5, <1>6, <1>7, <2>1
  <2>3. IsPlace(p) /\ pos[i] = After(p, e) /\ Holds(m.data, p, e) /\ Apart(p, e, m.bit)
    BY <1>1, <1>8, <2>1 DEF n
  <2>4. pos[i][1] <= m.cursize
    BY <1>8, <2>1
  <2> HIDE DEF p, e
  <2>5. After(p, e)[1] <= m.cursize /\ After(p, e)[1] <= Len(m.data)
    BY <1>4, <2>3, <2>4
  <2>6. Holds(w.data, p, e)
    <3> DEFINE d == m.data
               f == w.data
               b == m.bit
    <3>1. Keeps(d, f, b) /\ After(p, e)[1] <= Len(d) /\ Holds(d, p, e) /\ Apart(p, e, b)
      BY <1>2, <2>3, <2>5
    <3> HIDE DEF d, f, b
    <3>2. Holds(f, p, e)
      BY <2>2, <2>3, <3>1, EntryStays
    <3> QED BY <3>2 DEF f
  <2>7. Apart(p, e, w.bit)
    <3> DEFINE b == m.bit
               f == w.bit
               c == m.cursize
    <3>1. c \in Nat /\ After(p, e)[1] <= c /\ Apart(p, e, b) /\ StaysTaken(b, f, c)
      BY <1>2, <1>4, <2>3, <2>5 DEF StaysTaken
    <3> HIDE DEF b, f, c
    <3>2. Apart(p, e, f)
      BY <2>2, <2>3, <3>1, EntryStaysApart
    <3> QED BY <3>2 DEF f
  <2> QED BY <2>2, <2>3, <2>6, <2>7
<1>10. /\ q[n + 1] = After(q[n], a[n + 1]) /\ Holds(w.data, q[n], a[n + 1])
       /\ Apart(q[n], a[n + 1], w.bit)
  <2>1. n \in 0 .. n
    BY <1>5
  <2> QED BY <1>2, <1>5, <1>7, <2>1
<1>11. \A i \in 1 .. n + 1 : i \in 1 .. n \/ (i = n + 1 /\ i - 1 = n)
  BY <1>5
<1>12. \A i \in 1 .. n + 1 : /\ q[i] = After(q[i - 1], a[i]) /\ Holds(w.data, q[i - 1], a[i])
                             /\ Apart(q[i - 1], a[i], w.bit)
  BY <1>9, <1>10, <1>11
<1>13. \A i \in 0 .. n + 1 : IsPlace(q[i]) /\ q[i][1] <= w.cursize
  <2>1. ASSUME NEW i \in 0 .. n PROVE IsPlace(q[i]) /\ q[i][1] <= w.cursize
    <3>1. q[i] = pos[i] /\ IsPlace(pos[i]) /\ pos[i][1] <= m.cursize
      BY <1>7, <1>8
    <3>2. pos[i][1] \in Nat
      BY <3>1 DEF IsPlace
    <3> QED BY <1>4, <3>1, <3>2
  <2>2. IsPlace(q[n + 1]) /\ q[n + 1][1] <= w.cursize
    <3>1. n \in 0 .. n
      BY <1>5
    <3>2. IsPlace(After(pos[n], in))
      BY <1>8, <3>1, AfterIsPlace
    <3>3. q[n + 1] = After(pos[n], in)
      BY <1>2, <1>7
    <3>4. q[n + 1][1] = w.cursize
      BY <1>7
    <3> QED BY <1>4, <3>2, <3>3, <3>4
  <2>3. \A i \in 0 .. n + 1 : i \in 0 .. n \/ i = n + 1
    BY <1>5
  <2> QED BY <2>1, <2>2, <2>3
<1>14. q[0] = <<0, 0>>
  <2>1. 0 \in 0 .. n
    BY <1>5
  <2> QED BY <1>7, <1>8, <2>1
<1>15. Leads(q, a, w.data)
  BY <1>4, <1>5, <1>12, <1>13, <1>14 DEF Leads
<1>16. q[Len(a)] = <<w.cursize, w.bit>> /\ \A i \in 1 .. Len(a) : Apart(q[i - 1], a[i], w.bit)
  BY <1>5, <1>7, <1>12
<1> QED BY <1>2, <1>15, <1>16 DEF Laid, a

\* What was laid is found, from the start, however it is taken apart.
LEMMA FoundFromTheStart ==
  ASSUME NEW m, NEW l \in Seq(Inputs), NEW r, r.readcount = 0, r.bit = 0,
         \/ Laid(m, l) /\ Full(r) = m.data /\ Len(m.data) = m.cursize
         \/ (\E n, t : Found(m, l, n, t)) /\ Full(r) = Full(m)
  PROVE  Found(r, l, 1, TRUE)
<1>1. PICK pos : Held(pos, l, Full(r))
  <2>1. CASE Laid(m, l) /\ Full(r) = m.data /\ Len(m.data) = m.cursize
    <3>1. PICK pos : Leads(pos, l, m.data) /\ pos[Len(l)] = <<m.cursize, m.bit>>
      BY <2>1 DEF Laid
    <3>2. pos[Len(l)][1] = m.cursize /\ pos[Len(l)][2] = m.bit
      BY <3>1
    <3>3. Blank(m.data, m.bit)
      BY <2>1 DEF Laid
    <3> QED BY <2>1, <3>1, <3>2, <3>3 DEF Held
  <2>2. CASE (\E n, t : Found(m, l, n, t)) /\ Full(r) = Full(m)
    BY <2>2 DEF Found
  <2> QED BY <2>1, <2>2
<1>2. pos[0] = <<r.readcount, r.bit>> /\ 1 - 1 = 0
  BY <1>1 DEF Held, Leads
<1>3. pos[1 - 1] = <<r.readcount, r.bit>> /\ 1 \in 1 .. Len(l) + 1
  <2>1. Len(l) \in Nat
    OBVIOUS
  <2> QED BY <1>2, <2>1
<1> QED BY <1>1, <1>3 DEF Found

\* Each read gives the entry that it has come to, and comes to the next one.
LEMMA FoundNext ==
  ASSUME NEW m, Readable(m), Pieces(m), NEW l \in Seq(Inputs), AllLegible(l),
         m.splitdata # << >> => AllBits(l),
         NEW n \in 1 .. Len(l), Found(m, l, n, TRUE), NEW r, r = ReadAs(m, l[n])
  PROVE  Same(l[n], r.value) /\ Found(r.msg, l, n + 1, TRUE)
<1> DEFINE in == l[n]
           p == <<m.readcount, m.bit>>
<1>1. in \in Inputs /\ Legible(in) /\ (~IsBits(in) => m.splitdata = << >>)
  BY DEF AllLegible, AllBits
<1>2. PICK pos : Held(pos, l, Full(m)) /\ pos[n - 1] = p
  BY DEF Found
<1>3. n \in 0 .. Len(l) /\ n <= Len(l)
  OBVIOUS
<1>4. pos[n - 1] = p /\ pos[n] = After(p, in) /\ Holds(Full(m), p, in) /\ pos[n][1] <= Len(Full(m))
  BY <1>2, <1>3 DEF Held, Leads
<1> HIDE DEF in
<1>5. /\ Same(in, r.value)
      /\ After(p, in) = <<r.msg.readcount, r.msg.bit>>
  <2>1. r = ReadAs(m, in)
    BY DEF in
  <2>2. After(p, in)[1] <= Len(Full(m))
    BY <1>4
  <2> QED BY <1>1, <1>4, <2>1, <2>2, EntryReadBack
<1>6. Full(r.msg) = Full(m)
  <2>1. Kept(m, r.msg)
    BY <1>1, ReadsKeep DEF in
  <2> QED BY <2>1 DEF Kept, Full
<1>7. (n + 1) - 1 = n /\ n + 1 \in 1 .. Len(l) + 1
  <2>1. Len(l) \in Nat
    OBVIOUS
  <2> QED BY <2>1
<1>8. pos[(n + 1) - 1] = <<r.msg.readcount, r.msg.bit>>
  BY <1>4, <1>5, <1>7
<1>9. Found(r.msg, l, n + 1, TRUE)
  BY <1>2, <1>6, <1>7, <1>8 DEF Found
<1> QED BY <1>5, <1>9 DEF in

\* At the end, no byte is left, and of bits none but blank ones.
LEMMA FoundEnd ==
  ASSUME NEW m, Readable(m), Pieces(m), NEW l \in Seq(Inputs), NEW n \in Nat, ~(n <= Len(l)),
         Found(m, l, n, TRUE)
  PROVE  m.readcount = m.cursize + m.splitsize /\ Blank(Full(m), m.bit)
<1>1. Len(l) \in Nat /\ n \in 1 .. Len(l) + 1
  BY DEF Found
<1>2. n - 1 = Len(l)
  BY <1>1
<1>3. PICK pos : Held(pos, l, Full(m)) /\ pos[Len(l)] = <<m.readcount, m.bit>>
  BY <1>2 DEF Found
<1>4. m.readcount = Len(Full(m)) /\ Blank(Full(m), m.bit)
  BY <1>3 DEF Held
<1>5. Len(Full(m)) = m.cursize + m.splitsize
  BY FullIs DEF Readable
<1> QED BY <1>4, <1>5

----------------------------------------------------------------------------
(* The invariant.  That what is read is what was written is not inductive:  *)
(* a message that is written holds its log (LaidInv), with the bits that    *)
(* are left of a byte blank and no entry in them, so that the next write    *)
(* changes none of them; one that is read has come to the entry next        *)
(* (FoundInv), in the bytes of both its pieces, and in the end to where     *)
(* they end, as does one that is discarded; and if it has two pieces, the   *)
(* log is of bits alone (PiecesInv), as bytes are never read from the       *)
(* second.                                                                  *)

PiecesInv ==
  /\ ~msg.readonly \/ phase = "writing" => msg.splitdata = << >>
  /\ phase # "discarded" => Len(msg.splitdata) = msg.splitsize
  /\ phase = "reading" /\ msg.splitdata # << >> => AllBits(log)
  /\ phase = "writing" => next = 1 /\ result = NoResult

LaidInv  == phase = "writing" /\ ~msg.overflowed /\ AllLegible(log) => Laid(msg, log)

FoundInv ==
  /\ phase = "reading" /\ AllLegible(log) => Found(msg, log, next, next <= Len(log) \/ result.op # "past")
  /\ phase = "discarded" /\ result.op # "past" => msg.readcount = msg.cursize + msg.splitsize

UsedInv ==
  phase = "writing" /\ ~msg.overflowed /\ AllBits(log) =>
    msg.bit = BitsWritten(log) /\ msg.bit + Rest(msg.bit) = 8 * msg.cursize

ResultInv ==
  /\ AllLegible(log) =>
       /\ result.op \notin {"none", "past", "base64"} => result.got = result.want
       /\ result.op = "base64" => Cut(result.got, Len(result.want)) = result.want
  /\ result.op = "past" =>
       /\ phase = "discarded" \/ AllLegible(log) => FindsNothing(result.as, result.got)
       /\ result.got = None => msg.overflowed

ReadInv == MsgInv /\ PiecesInv /\ LaidInv /\ FoundInv /\ UsedInv /\ ResultInv

\* A log is legible, or of bits, when its entries are.
LEMMA AllOfAppend ==
  ASSUME NEW l \in Seq(Inputs), NEW in
  PROVE  /\ AllLegible(Append(l, in)) => AllLegible(l) /\ Legible(in)
         /\ AllBits(Append(l, in)) => AllBits(l) /\ IsBits(in)
<1> DEFINE a == Append(l, in)
           n == Len(l)
<1>1. /\ DOMAIN l = 1 .. n /\ DOMAIN a = 1 .. n + 1 /\ n \in Nat
      /\ a[n + 1] = in /\ \A i \in 1 .. n : a[i] = l[i]
  OBVIOUS
<1>2. n + 1 \in 1 .. n + 1 /\ \A i \in 1 .. n : i \in 1 .. n + 1
  BY <1>1
<1> HIDE DEF a, n
<1>3. (\A i \in DOMAIN a : Legible(a[i])) => (\A i \in DOMAIN l : Legible(l[i])) /\ Legible(in)
  BY <1>1, <1>2
<1>4. (\A i \in DOMAIN a : IsBits(a[i])) => (\A i \in DOMAIN l : IsBits(l[i])) /\ IsBits(in)
  BY <1>1, <1>2
<1> QED BY <1>3, <1>4 DEF AllLegible, AllBits, a

\* Before anything is read there is nothing to compare.
LEMMA NoResultInv ==
  ASSUME result' = NoResult
  PROVE  ResultInv'
BY DEF ResultInv, NoResult

\* An empty message has no bits and none left over.
LEMMA BlankStart ==
  ASSUME NEW m, m.data = << >>, m.cursize = 0, m.bit = 0
  PROVE  m.bit = BitsWritten(<< >>) /\ m.bit + Rest(m.bit) = 8 * m.cursize
<1>1. Rest(0) = 0
  BY DEF Rest
<1> QED BY <1>1, NothingWritten

\* The invariant holds at first, and each kind of step keeps it.
LEMMA InitReadInv == Init => ReadInv
<1> SUFFICES ASSUME Init PROVE ReadInv
  OBVIOUS
<1>1. MsgInv
  BY InitMsgInv
<1>2. /\ msg.data = << >> /\ msg.cursize = 0 /\ msg.bit = 0 /\ msg.splitdata = << >> /\ msg.splitsize = 0
      /\ log = << >> /\ phase = "writing" /\ next = 1 /\ result = NoResult
  BY DEF Init, MSG_Init
<1>3. PiecesInv
  BY <1>2 DEF PiecesInv
<1>4. LaidInv /\ FoundInv
  BY <1>2, NothingLaid DEF LaidInv, FoundInv
<1>5. UsedInv
  BY <1>2, BlankStart DEF UsedInv
<1>6. ResultInv
  BY <1>2 DEF ResultInv, NoResult
<1> QED BY <1>1, <1>3, <1>4, <1>5, <1>6 DEF ReadInv

\* No write touches the second piece.
LEMMA WritesKeepPieces ==
  ASSUME NEW m, Writable(m), NEW in \in Inputs
  PROVE  Written(m, in).splitdata = m.splitdata /\ Written(m, in).readonly = m.readonly
<1>1. DOMAIN m = Parts
  BY DEF Writable, Good
<1>2. in.op \in {"byte", "short", "long", "int64", "data", "string", "line", "base64", "bits", "bit"}
  BY InputsAssumption
<1> DEFINE Keep(w) == w.splitdata = m.splitdata /\ w.readonly = m.readonly
<1>3. Keep(Overflow(m))
  BY <1>1 DEF Overflow, Parts
<1>4. \A d : Keep(WithBytes(m, d)) /\ Keep(Overflow(WithBytes(m, d)))
  BY <1>1 DEF WithBytes, Overflow, Parts
<1>5. \A d : Keep(Number(m, d)) /\ Keep(MSG_WriteData(m, d))
  BY <1>3, <1>4 DEF Number, MSG_WriteData
<1>6. \A b, n : Keep(WithBits(m, b, n))
  BY <1>1 DEF WithBits, Parts
<1>7. \A b, n : Keep(MSG_WriteBits(m, b, n)) /\ Keep(WriteBit(m, b))
  BY <1>3, <1>6 DEF MSG_WriteBits, WriteBit
<1>8. \A d : Keep(MSG_WriteBase64(m, d))
  BY <1>1 DEF MSG_WriteBase64, Parts
<1> HIDE DEF Keep
<1>9. CASE in.op \in {"byte", "short", "long", "int64"}
  BY <1>5, <1>9 DEF Written, MSG_WriteByte, MSG_WriteShort, MSG_WriteLong, MSG_WriteInt64, Keep
<1>10. CASE in.op \in {"data", "string", "line"}
  BY <1>5, <1>10 DEF Written, MSG_WriteString, Keep
<1>11. CASE in.op = "base64"
  BY <1>8, <1>11 DEF Written, Keep
<1>12. CASE in.op \in {"bits", "bit"}
  BY <1>7, <1>12 DEF Written, MSG_WriteBit0, MSG_WriteBit1, Keep
<1> QED BY <1>2, <1>9, <1>10, <1>11, <1>12

\* The bits that are written without an overflow are all counted.
LEMMA BitsCount ==
  ASSUME NEW m, Writable(m), ~m.overflowed, NEW in \in Inputs, IsBits(in),
         NEW w, w = Written(m, in), ~w.overflowed, m.bit + Rest(m.bit) = 8 * m.cursize
  PROVE  w.bit = m.bit + BitsIn(in) /\ w.bit + Rest(w.bit) = 8 * w.cursize
<1> DEFINE n == BitsIn(in)
<1>1. DOMAIN m = Parts /\ m.bit \in Nat /\ m.cursize \in Nat
  BY DEF Writable, Good, Fits
<1>2. n \in Nat
  BY BitsInIs
<1>3. PICK x : w = WithBits(m, x, n)
  <2>1. Overflow(m).overflowed
    BY <1>1 DEF Overflow, Parts
  <2>2. CASE in.op = "bits"
    BY <2>1, <2>2 DEF Written, MSG_WriteBits, BitsIn
  <2>3. CASE in.op = "bit"
    BY <2>1, <2>3 DEF Written, MSG_WriteBit0, MSG_WriteBit1, WriteBit, BitsIn
  <2> QED BY <2>2, <2>3 DEF IsBits
<1> HIDE DEF n
<1>4. w.bit = BitAfter(m.bit, n, m.cursize) /\ w.cursize = m.cursize + NewBytes(m.bit, n)
  BY <1>1, <1>3 DEF WithBits, Parts
<1>5. BitAfter(m.bit, n, m.cursize) = m.bit + n
      /\ (m.bit + n) + Rest(m.bit + n) = 8 * (m.cursize + NewBytes(m.bit, n))
  BY <1>1, <1>2, BitsFollow
<1> QED BY <1>4, <1>5 DEF n

\* A write lays its entry after the others, or overflows.
LEMMA WriteReads ==
  ASSUME ReadInv, Write
  PROVE  ReadInv'
<1>1. /\ MsgInv /\ PiecesInv /\ LaidInv /\ UsedInv
      /\ phase = "writing" /\ phase' = "writing" /\ ~msg.overflowed
      /\ next' = next /\ result' = result /\ next = 1 /\ result = NoResult
      /\ log \in Seq(Inputs)
  BY DEF ReadInv, Write, PiecesInv, MsgInv
<1>2. PICK in \in Inputs : /\ msg' = Written(msg, in)
                           /\ log' = IF msg'.overflowed THEN log ELSE Append(log, in)
  BY DEF Write
<1>3. Writable(msg)
  BY <1>1 DEF MsgInv, Writable
<1>4. MsgInv'
  BY <1>1, WriteKeeps
<1>5. PiecesInv'
  <2>1. msg'.splitdata = << >>
    BY <1>1, <1>2, <1>3, WritesKeepPieces DEF PiecesInv
  <2>2. msg'.splitsize = 0
    BY <1>1, <1>4 DEF MsgInv
  <2> QED BY <1>1, <2>1, <2>2 DEF PiecesInv
<1>6. LaidInv'
  <2> SUFFICES ASSUME ~msg'.overflowed, AllLegible(log') PROVE Laid(msg', log')
    BY DEF LaidInv
  <2>1. log' = Append(log, in)
    BY <1>2
  <2>2. AllLegible(log) /\ Legible(in)
    BY <1>1, <2>1, AllOfAppend
  <2>3. Laid(msg, log)
    BY <1>1, <2>2 DEF LaidInv
  <2>4. Laid(msg', Append(log, in))
    BY <1>1, <1>2, <1>3, <2>2, <2>3, MoreLaid
  <2> QED BY <2>1, <2>4
<1>7. FoundInv'
  BY <1>1 DEF FoundInv
<1>8. UsedInv'
  <2> SUFFICES ASSUME ~msg'.overflowed, AllBits(log')
               PROVE  msg'.bit = BitsWritten(log') /\ msg'.bit + Rest(msg'.bit) = 8 * msg'.cursize
    BY DEF UsedInv
  <2>1. log' = Append(log, in)
    BY <1>2
  <2>2. AllBits(log) /\ IsBits(in)
    BY <1>1, <2>1, AllOfAppend
  <2>3. msg.bit = BitsWritten(log) /\ msg.bit + Rest(msg.bit) = 8 * msg.cursize
    BY <1>1, <2>2 DEF UsedInv
  <2>4. msg'.bit = msg.bit + BitsIn(in) /\ msg'.bit + Rest(msg'.bit) = 8 * msg'.cursize
    BY <1>1, <1>2, <1>3, <2>2, <2>3, BitsCount
  <2>5. BitsWritten(Append(log, in)) = BitsWritten(log) + BitsIn(in)
    BY <1>1, <2>2, MoreWritten
  <2> QED BY <2>1, <2>3, <2>4, <2>5
<1>9. ResultInv'
  BY <1>1, NoResultInv
<1> QED BY <1>4, <1>5, <1>6, <1>7, <1>8, <1>9 DEF ReadInv

\* An emptied message holds an empty log.
LEMMA ClearReads ==
  ASSUME ReadInv, Clear
  PROVE  ReadInv'
<1>1. MsgInv'
  BY ClearKeeps DEF ReadInv
<1>2. /\ msg'.data = << >> /\ msg'.cursize = 0 /\ msg'.bit = 0 /\ msg'.splitdata = << >>
      /\ log' = << >> /\ phase' = "writing" /\ next' = 1 /\ result' = NoResult
  <2>1. CASE msg.readonly
    BY <2>1 DEF Clear, MSG_Init
  <2>2. CASE ~msg.readonly
    <3>1. msg' = MSG_Clear(msg) /\ DOMAIN msg = Parts /\ msg.splitdata = << >>
      BY <2>2 DEF Clear, ReadInv, MsgInv, Good, PiecesInv
    <3> QED BY <3>1 DEF Clear, MSG_Clear, Parts
  <2> QED BY <2>1, <2>2
<1>3. msg'.splitsize = 0
  BY <1>1, <1>2 DEF MsgInv
<1>4. PiecesInv'
  BY <1>2, <1>3 DEF PiecesInv
<1>5. LaidInv' /\ FoundInv'
  BY <1>2, NothingLaid DEF LaidInv, FoundInv
<1>6. UsedInv'
  BY <1>2, BlankStart DEF UsedInv
<1>7. ResultInv'
  BY <1>2, NoResultInv
<1> QED BY <1>1, <1>4, <1>5, <1>6, <1>7 DEF ReadInv

\* Reading starts at the first entry.
LEMMA BeginReadingReads ==
  ASSUME ReadInv, BeginReading
  PROVE  ReadInv'
<1>1. MsgInv' /\ DOMAIN msg = Parts /\ phase # "discarded" /\ phase' = "reading"
  BY BeginReadingKeeps DEF ReadInv, MsgInv, Good, BeginReading
<1>2. /\ msg'.data = msg.data /\ msg'.bit = 0 /\ msg'.readcount = 0 /\ msg'.splitsize = msg.splitsize
      /\ msg'.readonly = msg.readonly /\ msg'.splitdata = msg.splitdata
      /\ log' = log /\ next' = 1 /\ result' = NoResult
  BY <1>1 DEF BeginReading, MSG_BeginReading, Parts
<1>3. PiecesInv
  BY DEF ReadInv
<1>4. PiecesInv'
  BY <1>1, <1>2, <1>3 DEF PiecesInv, BeginReading
<1>5. FoundInv'
  <2> SUFFICES ASSUME AllLegible(log) PROVE Found(msg', log, 1, TRUE)
    <3>1. result'.op # "past" /\ phase' # "discarded"
      BY <1>1, <1>2 DEF NoResult
    <3>2. (next' <= Len(log') \/ result'.op # "past") = TRUE
      BY <3>1
    <3> QED BY <1>2, <3>1, <3>2 DEF FoundInv
  <2>1. Full(msg') = Full(msg) /\ log \in Seq(Inputs)
    BY <1>2 DEF Full, ReadInv, MsgInv
  <2>2. CASE phase = "reading"
    <3>1. \E n, t : Found(msg, log, n, t)
      BY <2>2 DEF ReadInv, FoundInv
    <3> QED BY <1>2, <2>1, <3>1, FoundFromTheStart
  <2>3. CASE phase = "writing" /\ ~msg.overflowed
    <3>1. Laid(msg, log)
      BY <2>3 DEF ReadInv, LaidInv
    <3>2. msg.data \in Seq(Byte) /\ msg.splitdata = << >>
      BY <1>3, <2>3 DEF PiecesInv, ReadInv, MsgInv, Good, Whole
    <3>3. Full(msg') = msg.data
      BY <2>1, <3>2 DEF Full
    <3>4. Len(msg.data) = msg.cursize
      BY <2>3 DEF ReadInv, MsgInv
    <3> QED BY <1>2, <2>1, <3>1, <3>3, <3>4, FoundFromTheStart
  <2> QED BY <2>2, <2>3 DEF BeginReading
<1>6. LaidInv' /\ UsedInv'
  BY <1>1 DEF LaidInv, UsedInv
<1>7. ResultInv'
  BY <1>2, NoResultInv
<1> QED BY <1>1, <1>4, <1>5, <1>6, <1>7 DEF ReadInv

\* The receiver's message has the writer's bytes, in one piece or in two.
LEMMA ReceiveReads ==
  ASSUME ReadInv, Receive
  PROVE  ReadInv'
<1>1. /\ MsgInv' /\ phase = "writing" /\ ~msg.overflowed /\ phase' = "reading" /\ log' = log
      /\ next' = 1 /\ result' = NoResult
      /\ msg.data \in Seq(Byte) /\ Len(msg.data) = msg.cursize /\ msg.cursize \in Nat
  BY ReceiveKeeps DEF ReadInv, PiecesInv, Receive, MsgInv, Good, Whole, Fits
<1>2. /\ msg'.readcount = 0 /\ msg'.bit = 0 /\ Full(msg') = msg.data /\ msg'.readonly = TRUE
      /\ Len(msg'.splitdata) = msg'.splitsize
      /\ msg'.splitdata # << >> => AllBits(log)
  <2>1. CASE msg' = MSG_InitReadOnly(msg.data)
    <3>1. /\ msg'.data = msg.data /\ msg'.bit = 0 /\ msg'.readcount = 0 /\ msg'.splitsize = 0
          /\ msg'.readonly = TRUE /\ msg'.splitdata = << >>
      BY <2>1 DEF MSG_InitReadOnly, MSG_Init
    <3> QED BY <1>1, <3>1 DEF Full
  <2>2. ASSUME \A i \in DOMAIN log : log[i].op \in {"bit", "bits"}, NEW k \in 0 .. msg.cursize,
               msg' = MSG_InitReadOnlySplit(MSG_Init(0), SubSeq(msg.data, 1, k),
                                            SubSeq(msg.data, k + 1, msg.cursize))
        PROVE  /\ msg'.readcount = 0 /\ msg'.bit = 0 /\ Full(msg') = msg.data /\ msg'.readonly = TRUE
               /\ Len(msg'.splitdata) = msg'.splitsize
               /\ msg'.splitdata # << >> => AllBits(log)
    <3> DEFINE d == msg.data
               c == msg.cursize
               a == SubSeq(d, 1, k)
               b == SubSeq(d, k + 1, c)
    <3>1. /\ msg'.data = a /\ msg'.bit = 0 /\ msg'.readcount = 0 /\ msg'.splitsize = Len(b)
          /\ msg'.readonly = TRUE /\ msg'.splitdata = b
      <4> HIDE DEF a, b
      <4>1. msg' = MSG_InitReadOnlySplit(MSG_Init(0), a, b)
        BY <2>2 DEF a, b
      <4> QED BY <4>1 DEF MSG_InitReadOnlySplit, MSG_Init
    <3>2. d \in Seq(Byte) /\ Len(d) = c /\ c \in Nat /\ k \in 0 .. c
      BY <1>1
    <3> HIDE DEF d, c
    <3>3. a \o b = d
      BY <3>2
    <3>4. AllBits(log)
      BY <2>2 DEF AllBits, IsBits
    <3> QED BY <3>1, <3>3, <3>4 DEF Full, d
  <2> QED BY <2>1, <2>2 DEF Receive
<1>3. PiecesInv'
  BY <1>1, <1>2 DEF PiecesInv
<1>4. FoundInv'
  <2> SUFFICES ASSUME AllLegible(log) PROVE Found(msg', log, 1, TRUE)
    <3>1. result'.op # "past" /\ phase' # "discarded"
      BY <1>1 DEF NoResult
    <3>2. (next' <= Len(log') \/ result'.op # "past") = TRUE
      BY <3>1
    <3> QED BY <1>1, <3>1, <3>2 DEF FoundInv
  <2>1. Laid(msg, log) /\ log \in Seq(Inputs)
    BY <1>1 DEF ReadInv, LaidInv, MsgInv
  <2> QED BY <1>1, <1>2, <2>1, FoundFromTheStart
<1>5. LaidInv' /\ UsedInv'
  BY <1>1 DEF LaidInv, UsedInv
<1>6. ResultInv'
  BY <1>1, NoResultInv
<1> QED BY <1>1, <1>3, <1>4, <1>5, <1>6 DEF ReadInv

\* A read gives the next entry.
LEMMA ReadReads ==
  ASSUME ReadInv, Read
  PROVE  ReadInv'
<1> DEFINE in == log[next]
           r == ReadAs(msg, in)
<1>1. /\ MsgInv /\ PiecesInv /\ phase = "reading" /\ phase' = "reading" /\ log' = log /\ next' = next + 1
      /\ log \in Seq(Inputs) /\ next \in 1 .. Len(log)
      /\ msg' = r.msg /\ result' = [got |-> r.value, want |-> in.v, op |-> in.op]
  BY DEF ReadInv, Read, MsgInv
<1>2. in \in Inputs /\ in.op \notin {"none", "past"}
  BY <1>1, InputsAssumption
<1>3. Readable(msg) /\ Pieces(msg)
  BY <1>1 DEF MsgInv, Readable, PiecesInv, Pieces
<1>4. MsgInv'
  BY <1>1, ReadKeeps
<1>5. Kept(msg, msg')
  BY <1>1, <1>2, <1>3, ReadsKeep
<1>6. PiecesInv'
  BY <1>1, <1>5 DEF PiecesInv, Kept
<1>7. AllLegible(log) => Same(in, r.value) /\ Found(msg', log, next + 1, TRUE)
  <2> SUFFICES ASSUME AllLegible(log) PROVE Same(in, r.value) /\ Found(r.msg, log, next + 1, TRUE)
    BY <1>1
  <2>1. Found(msg, log, next, TRUE)
    <3>1. (next <= Len(log) \/ result.op # "past") = TRUE
      BY <1>1
    <3> QED BY <1>1, <3>1 DEF ReadInv, FoundInv
  <2>2. msg.splitdata # << >> => AllBits(log)
    BY <1>1 DEF PiecesInv
  <2> QED BY <1>1, <1>3, <2>1, <2>2, FoundNext
<1> HIDE DEF in, r
<1>8. FoundInv'
  <2>1. result'.op = in.op /\ phase' # "discarded"
    BY <1>1
  <2>2. (next' <= Len(log') \/ result'.op # "past") = TRUE
    BY <1>2, <2>1
  <2> QED BY <1>1, <1>7, <2>1, <2>2 DEF FoundInv
<1>9. ResultInv'
  <2>1. result'.got = r.value /\ result'.want = in.v /\ result'.op = in.op
    BY <1>1
  <2>2. AllLegible(log') => Same(in, r.value)
    BY <1>1, <1>7
  <2> QED BY <1>2, <2>1, <2>2 DEF ResultInv, Same
<1>10. LaidInv' /\ UsedInv'
  BY <1>1 DEF LaidInv, UsedInv
<1> QED BY <1>4, <1>6, <1>8, <1>9, <1>10 DEF ReadInv

\* A read past the last entry finds nothing, or bits that are blank.
LEMMA ReadOnReads ==
  ASSUME ReadInv, ReadOn
  PROVE  ReadInv'
<1>1. PICK in \in Inputs :
        /\ msg' = ReadAs(msg, in).msg
        /\ result' = [got |-> ReadAs(msg, in).value, as |-> in, op |-> "past"]
  BY DEF ReadOn
<1>2. /\ phase \in {"reading", "discarded"} /\ phase' = phase /\ log' = log /\ next' = next
      /\ phase = "reading" => ~(next <= Len(log))
      /\ result.op # "past"
      /\ log \in Seq(Inputs) /\ next \in Nat /\ Len(log) \in Nat
  <2>1. log \in Seq(Inputs) /\ next \in Nat /\ Len(log) \in Nat
    BY DEF ReadInv, MsgInv
  <2> QED BY <2>1 DEF ReadOn
<1>3. Readable(msg)
  BY <1>2 DEF ReadInv, MsgInv, Readable
<1>4. Kept(msg, msg')
  BY <1>1, <1>3, ReadsKeep
<1>5. MsgInv'
  BY ReadOnKeeps DEF ReadInv
<1>6. PiecesInv'
  BY <1>2, <1>4 DEF ReadInv, PiecesInv, Kept
<1>7. result'.op = "past" /\ result'.as = in /\ result'.got = ReadAs(msg, in).value
  BY <1>1
<1>8. FoundInv'
  <2> SUFFICES ASSUME phase = "reading", AllLegible(log) PROVE Found(msg', log, next, FALSE)
    <3>1. (next' <= Len(log') \/ result'.op # "past") = (next <= Len(log))
      BY <1>2, <1>7
    <3>2. phase = "reading" => (next <= Len(log)) = FALSE
      BY <1>2
    <3> QED BY <1>2, <1>7, <3>1, <3>2 DEF FoundInv
  <2>1. \E t : Found(msg, log, next, t)
    BY DEF ReadInv, FoundInv
  <2>2. Full(msg') = Full(msg)
    BY <1>4 DEF Kept, Full
  <2> QED BY <2>1, <2>2 DEF Found
<1>9. ASSUME phase = "discarded" \/ AllLegible(log) PROVE FindsNothing(result.as, result.got)'
  <2> DEFINE r == ReadAs(msg, in)
  <2>1. /\ msg.readcount = msg.cursize + msg.splitsize
        /\ phase = "reading" => Pieces(msg) /\ Blank(Full(msg), msg.bit)
    <3>1. CASE phase = "discarded"
      BY <1>2, <3>1 DEF ReadInv, FoundInv
    <3>2. CASE phase = "reading"
      <4>1. Pieces(msg)
        BY <3>2 DEF ReadInv, PiecesInv, MsgInv, Pieces
      <4>2. (next <= Len(log) \/ result.op # "past") = TRUE
        BY <1>2
      <4>3. Found(msg, log, next, TRUE)
        BY <1>9, <3>2, <4>2 DEF ReadInv, FoundInv
      <4> QED BY <1>2, <1>3, <3>2, <4>1, <4>3, FoundEnd
    <3> QED BY <1>2, <3>1, <3>2
  <2>2. \/ r.value = Nothing(in) /\ (r.msg.overflowed \/ (in.op = "data" /\ in.v = << >>))
        \/ /\ IsBits(in) /\ BitsIn(in) < 8
           /\ Pieces(msg) /\ Blank(Full(msg), msg.bit) => r.value = <<0>>
    BY <1>3, <2>1, NothingIsLeft
  <2> HIDE DEF r
  <2>3. msg' = r.msg /\ result'.as = in /\ result'.got = r.value /\ phase' = phase
    BY <1>1, <1>2, <1>7 DEF r
  <2> QED BY <2>1, <2>2, <2>3 DEF FindsNothing
<1>10. ResultInv'
  <2>1. result'.got = None => msg'.overflowed
    BY <1>1, <1>3, PastTheEnd
  <2> QED BY <1>2, <1>7, <1>9, <2>1 DEF ResultInv
<1>11. LaidInv' /\ UsedInv'
  BY <1>2 DEF LaidInv, UsedInv
<1> QED BY <1>5, <1>6, <1>8, <1>10, <1>11 DEF ReadInv

\* A discarded message ends where it was read to.
LEMMA DiscardReads ==
  ASSUME ReadInv, Discard
  PROVE  ReadInv'
<1>1. MsgInv' /\ phase' = "discarded" /\ result' = NoResult /\ DOMAIN msg = Parts
  BY DiscardKeeps DEF ReadInv, Discard, MsgInv, Good
<1>2. /\ msg'.splitdata = msg.splitdata /\ msg'.readonly = msg.readonly
      /\ msg'.cursize = msg.readcount /\ msg'.readcount = msg.readcount /\ msg'.splitsize = 0
      /\ msg.readcount \in Nat
  BY <1>1 DEF Discard, MSG_Discard, Parts, ReadInv, MsgInv, Good, Fits
<1>3. PiecesInv'
  BY <1>1, <1>2 DEF ReadInv, PiecesInv
<1>4. LaidInv' /\ FoundInv' /\ UsedInv'
  BY <1>1, <1>2 DEF LaidInv, FoundInv, UsedInv
<1>5. ResultInv'
  BY <1>1, NoResultInv
<1> QED BY <1>1, <1>3, <1>4, <1>5 DEF ReadInv

\* Every step keeps the invariant.
LEMMA NextReadInv == ReadInv /\ [Next]_vars => ReadInv'
<1> SUFFICES ASSUME ReadInv, [Next]_vars PROVE ReadInv'
  OBVIOUS
<1>1. CASE Write
  BY <1>1, WriteReads
<1>2. CASE Clear
  BY <1>2, ClearReads
<1>3. CASE BeginReading
  BY <1>3, BeginReadingReads
<1>4. CASE Receive
  BY <1>4, ReceiveReads
<1>5. CASE Read
  BY <1>5, ReadReads
<1>6. CASE ReadOn
  BY <1>6, ReadOnReads
<1>7. CASE Discard
  BY <1>7, DiscardReads
<1>8. CASE UNCHANGED vars
  <2>1. msg' = msg /\ log' = log /\ phase' = phase /\ next' = next /\ result' = result
    BY <1>8 DEF vars
  <2>2. MsgInv'
    BY <1>8, NextMsgInv DEF ReadInv
  <2>3. PiecesInv' /\ LaidInv' /\ FoundInv' /\ UsedInv'
    BY <2>1 DEF ReadInv, PiecesInv, LaidInv, FoundInv, UsedInv
  <2>4. ResultInv'
    BY <2>1 DEF ReadInv, ResultInv, FindsNothing
  <2> QED BY <2>2, <2>3, <2>4 DEF ReadInv
<1> QED BY <1>1, <1>2, <1>3, <1>4, <1>5, <1>6, <1>7, <1>8 DEF Next

\* The invariant says what is to be shown.
LEMMA ReadInvReads == ReadInv => ReadsWhatWasWritten
<1> SUFFICES ASSUME ReadInv PROVE ReadsWhatWasWritten
  OBVIOUS
<1>1. ASSUME phase = "writing", ~msg.overflowed, AllBits(log)
      PROVE  MSG_GetUsedBitCount(msg) = BitsWritten(log)
  <2>1. msg.bit = BitsWritten(log) /\ msg.bit + Rest(msg.bit) = 8 * msg.cursize
    BY <1>1 DEF ReadInv, UsedInv
  <2>2. Writable(msg)
    BY <1>1 DEF ReadInv, MsgInv, Writable
  <2> QED BY <2>1, <2>2, UsedBitsAre
<1>2. ResultInv
  BY DEF ReadInv
<1> QED BY <1>1, <1>2 DEF ReadsWhatWasWritten, ResultInv, AllLegible, AllBits

\* Each writer of src/msg.c and its reader agree: what is written to a message is
\* read from it, in the order of the writes, for all sizes of the buffer and all
\* inputs, also when bits share a byte with others around bytes, and when the
\* message is received in two pieces.  A read after all of that, or after a
\* discard, finds nothing and overflows, but for the bits that are left of a begun
\* byte; and the bits in use are those that were written.
THEOREM ReadBackAsWritten == Spec => []ReadsWhatWasWritten
BY InitReadInv, NextReadInv, ReadInvReads, PTL DEF Spec
=============================================================================
