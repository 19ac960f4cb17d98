-------------------------- MODULE MsgBufferProofs --------------------------
(***************************************************************************)
(* A message never leaves its buffer, for all sizes of the buffer and all  *)
(* sequences of writes and reads.                                          *)
(*                                                                         *)
(* What fits is not inductive: a message that is written is in one part,   *)
(* and once it is read, bit stays within the bytes that were read, where   *)
(* MSG_Discard ends the message.                                           *)
(***************************************************************************)
EXTENDS MsgBuffer, SetInduction
LOCAL INSTANCE FiniteSetsExt

Parts == {"data", "maxsize", "cursize", "overflowed", "readonly", "splitdata", "splitsize", "readcount", "bit"}

Whole(d) == d \in Seq(Byte)

Good(m) ==
  DOMAIN m = Parts /\ Whole(m.data) /\ Whole(m.splitdata) /\ Fits(m) /\ m.cursize <= Len(m.data)

Writable(m) == Good(m) /\ m.splitsize = 0 /\ Len(m.data) = m.cursize

Readable(m) == Good(m) /\ m.bit <= 8 * m.readcount
----------------------------------------------------------------------------
(* Bits.                                                                   *)

\* What is shifted is halved at each step.
LEMMA ShiftedIs ==
  ASSUME NEW x \in Nat
  PROVE  /\ Shifted(x) \in [0 .. 32 -> Nat]
         /\ Shifted(x)[0] = x
         /\ \A k \in 1 .. 32 : Shifted(x)[k] = Shifted(x)[k - 1] \div 2
<1> DEFINE g == [y \in (1 .. 32) \X Nat |-> y[2] \div 2]
<1>1. \A y \in (1 .. 32) \X Nat : y[2] \in Nat /\ y[2] \div 2 \in Nat
  OBVIOUS
<1>2. g \in [(1 .. 32) \X Nat -> Nat]
  BY <1>1
<1> HIDE DEF g
<1>3. PICK f \in [0 .. 32 -> Nat] : Steps(f, 32, x, g)
  <2>1. 32 \in Nat /\ x \in Nat
    OBVIOUS
  <2> QED BY <1>2, <2>1, StepsExist
<1>4. \A k \in 0 .. 32 : k # 0 => g[<<k, f[k - 1]>>] = f[k - 1] \div 2
  <2> SUFFICES ASSUME NEW k \in 0 .. 32, k # 0 PROVE g[<<k, f[k - 1]>>] = f[k - 1] \div 2
    OBVIOUS
  <2>1. k \in 1 .. 32 /\ k - 1 \in 0 .. 32 /\ f[k - 1] \in Nat
    OBVIOUS
  <2> QED BY <2>1 DEF g
<1>5. f = [k \in 0 .. 32 |-> IF k = 0 THEN x ELSE f[k - 1] \div 2]
  BY <1>3, <1>4 DEF Steps
<1> DEFINE s == CHOOSE s : s = [k \in 0 .. 32 |-> IF k = 0 THEN x ELSE s[k - 1] \div 2]
<1>6. Shifted(x) = s
  BY DEF Shifted
<1>7. s = [k \in 0 .. 32 |-> IF k = 0 THEN x ELSE s[k - 1] \div 2]
  BY <1>5
<1> HIDE DEF s
<1>8. \A k \in 1 .. 32 : s[k] = s[k - 1] \div 2
  BY <1>7
<1>9. s[0] = x
  BY <1>7
<1> DEFINE T == {k \in Nat : k <= 32 => s[k] \in Nat}
<1>10. 0 \in T
  BY <1>9
<1>11. ASSUME NEW k \in Nat, k \in T PROVE k + 1 \in T
  <2> SUFFICES ASSUME k + 1 <= 32 PROVE s[k + 1] \in Nat
    OBVIOUS
  <2>1. k + 1 \in 1 .. 32 /\ (k + 1) - 1 = k /\ s[k] \in Nat
    BY <1>11
  <2> QED BY <1>8, <2>1
<1>12. \A k \in Nat : k \in T
  <2> HIDE DEF T
  <2> QED BY <1>10, <1>11, NumberInduction
<1>13. s \in [0 .. 32 -> Nat]
  <2>1. \A k \in 0 .. 32 : s[k] \in Nat
    BY <1>12
  <2>2. s = [k \in 0 .. 32 |-> s[k]]
    BY <1>7
  <2> QED BY <2>1, <2>2
<1> QED BY <1>6, <1>8, <1>9, <1>13

LEMMA BitIs ==
  ASSUME NEW x \in Nat, NEW k \in 0 .. 32
  PROVE  /\ Shifted(x)[k] \in Nat /\ Bit(x, k) \in {0, 1}
         /\ k < 32 => Shifted(x)[k] = 2 * Shifted(x)[k + 1] + Bit(x, k)
<1>1. Shifted(x)[k] \in Nat
  BY ShiftedIs
<1>2. k < 32 => Shifted(x)[k + 1] = Shifted(x)[k] \div 2
  <2> SUFFICES ASSUME k < 32 PROVE Shifted(x)[k + 1] = Shifted(x)[k] \div 2
    OBVIOUS
  <2> DEFINE j == k + 1
  <2>1. j \in 1 .. 32 /\ j - 1 = k
    OBVIOUS
  <2> HIDE DEF j
  <2>2. Shifted(x)[j] = Shifted(x)[j - 1] \div 2
    BY <2>1, ShiftedIs
  <2> QED BY <2>1, <2>2 DEF j
<1> DEFINE y == Shifted(x)[k]
<1>3. Bit(x, k) = y % 2
  BY DEF Bit
<1> HIDE DEF y
<1>4. y \in Nat
  BY <1>1 DEF y
<1>5. y % 2 \in {0, 1} /\ y = 2 * (y \div 2) + (y % 2)
  BY <1>4
<1> QED BY <1>2, <1>3, <1>4, <1>5 DEF y

\* The number that is put together, from the highest bit down: Upper(B)[k] is that
\* of the k highest bits.
Upper(B) == CHOOSE o : o = [k \in 0 .. 32 |-> IF k = 0 THEN 0 ELSE 2 * o[k - 1] + (IF 32 - k \in B THEN 1 ELSE 0)]

LEMMA UpperIs ==
  ASSUME NEW B
  PROVE  /\ OfBits(B) = Upper(B)[32]
         /\ Upper(B)[0] = 0
         /\ \A k \in 0 .. 32 : Upper(B)[k] \in Nat
         /\ \A k \in 1 .. 32 : Upper(B)[k] = 2 * Upper(B)[k - 1] + (IF 32 - k \in B THEN 1 ELSE 0)
<1> DEFINE g == [y \in (1 .. 32) \X Nat |-> 2 * y[2] + (IF 32 - y[1] \in B THEN 1 ELSE 0)]
<1>1. \A y \in (1 .. 32) \X Nat : 2 * y[2] + (IF 32 - y[1] \in B THEN 1 ELSE 0) \in Nat
  OBVIOUS
<1>2. g \in [(1 .. 32) \X Nat -> Nat]
  BY <1>1
<1> HIDE DEF g
<1>3. PICK f \in [0 .. 32 -> Nat] : Steps(f, 32, 0, g)
  <2>1. 32 \in Nat /\ 0 \in Nat
    OBVIOUS
  <2> QED BY <1>2, <2>1, StepsExist
<1>4. \A k \in 0 .. 32 : k # 0 => g[<<k, f[k - 1]>>] = 2 * f[k - 1] + (IF 32 - k \in B THEN 1 ELSE 0)
  <2> SUFFICES ASSUME NEW k \in 0 .. 32, k # 0
               PROVE  g[<<k, f[k - 1]>>] = 2 * f[k - 1] + (IF 32 - k \in B THEN 1 ELSE 0)
    OBVIOUS
  <2>1. k \in 1 .. 32 /\ k - 1 \in 0 .. 32 /\ f[k - 1] \in Nat
    OBVIOUS
  <2>2. <<k, f[k - 1]>> \in (1 .. 32) \X Nat
    BY <2>1
  <2> QED BY <2>2 DEF g
<1>5. f = [k \in 0 .. 32 |-> IF k = 0 THEN 0 ELSE 2 * f[k - 1] + (IF 32 - k \in B THEN 1 ELSE 0)]
  BY <1>3, <1>4 DEF Steps
<1> DEFINE o == Upper(B)
<1>6. OfBits(B) = o[32]
  BY DEF OfBits, Upper
<1>7. o = [k \in 0 .. 32 |-> IF k = 0 THEN 0 ELSE 2 * o[k - 1] + (IF 32 - k \in B THEN 1 ELSE 0)]
  BY <1>5 DEF Upper
<1> HIDE DEF o
<1>8. \A k \in 1 .. 32 : o[k] = 2 * o[k - 1] + (IF 32 - k \in B THEN 1 ELSE 0)
  BY <1>7
<1>9. o[0] = 0
  BY <1>7
<1> DEFINE T == {k \in Nat : k <= 32 => o[k] \in Nat}
<1>10. 0 \in T
  BY <1>9
<1>11. ASSUME NEW k \in Nat, k \in T PROVE k + 1 \in T
  <2> SUFFICES ASSUME k + 1 <= 32 PROVE o[k + 1] \in Nat
    OBVIOUS
  <2>1. k + 1 \in 1 .. 32 /\ (k + 1) - 1 = k /\ o[k] \in Nat
    BY <1>11
  <2>2. o[k + 1] = 2 * o[k] + (IF 32 - (k + 1) \in B THEN 1 ELSE 0)
    BY <1>8, <2>1
  <2> QED BY <2>1, <2>2
<1>12. \A k \in Nat : k \in T
  <2> HIDE DEF T
  <2> QED BY <1>10, <1>11, NumberInduction
<1>13. \A k \in 0 .. 32 : o[k] \in Nat
  BY <1>12
<1> QED BY <1>6, <1>8, <1>9, <1>13 DEF o

\* Shifted to the right by 32 - k, what is left are the k highest bits.
LEMMA ShiftedUpper ==
  ASSUME NEW B
  PROVE  /\ OfBits(B) \in Nat
         /\ \A k \in 0 .. 32 : Shifted(OfBits(B))[32 - k] = Upper(B)[k]
<1> DEFINE o == Upper(B)
           s == Shifted(OfBits(B))
           S == {p \in 0 .. 32 : s[32 - p] = o[p]}
<1>1. /\ OfBits(B) = o[32] /\ \A k \in 0 .. 32 : o[k] \in Nat
      /\ \A k \in 1 .. 32 : o[k] = 2 * o[k - 1] + (IF 32 - k \in B THEN 1 ELSE 0)
  BY UpperIs
<1>2. s[0] = o[32] /\ \A k \in 1 .. 32 : s[k] = s[k - 1] \div 2
  <2>1. OfBits(B) \in Nat
    BY <1>1
  <2> QED BY <1>1, <2>1, ShiftedIs
<1> HIDE DEF o, s
<1>3. ASSUME NEW p \in 0 .. 32, \A q \in p + 1 .. 32 : q \in S PROVE p \in S
  <2>1. CASE p = 32
    BY <1>2, <2>1
  <2>2. CASE p # 32
    <3>1. p + 1 \in p + 1 .. 32 /\ p + 1 \in 1 .. 32 /\ (p + 1) - 1 = p
      BY <2>2
    <3>2. s[32 - (p + 1)] = o[p + 1]
      BY <1>3, <3>1
    <3>3. o[p + 1] = 2 * o[p] + (IF 32 - (p + 1) \in B THEN 1 ELSE 0) /\ o[p] \in Nat
      BY <1>1, <3>1
    <3>4. 32 - p \in 1 .. 32 /\ (32 - p) - 1 = 32 - (p + 1)
      BY <2>2
    <3>5. s[32 - p] = s[32 - (p + 1)] \div 2
      BY <1>2, <3>4
    <3>6. s[32 - p] = o[p]
      BY <3>2, <3>3, <3>5
    <3> QED BY <3>6
  <2> QED BY <2>1, <2>2
<1>4. \A p \in 0 .. 32 : p \in S
  <2> HIDE DEF S
  <2>1. 32 \in Nat
    OBVIOUS
  <2> QED BY <1>3, <2>1, DownwardInduction
<1> QED BY <1>1, <1>4 DEF o, s

\* Its bits are those it was put together from.
LEMMA BitsOfBits ==
  ASSUME NEW B, NEW k \in 0 .. 31
  PROVE  OfBits(B) \in Nat /\ Bit(OfBits(B), k) = IF k \in B THEN 1 ELSE 0
<1>1. 32 - k \in 1 .. 32 /\ (32 - k) - 1 \in 0 .. 32 /\ 32 - (32 - k) = k
  OBVIOUS
<1>2. OfBits(B) \in Nat /\ Shifted(OfBits(B))[k] = Upper(B)[32 - k]
  <2>1. 32 - k \in 0 .. 32
    OBVIOUS
  <2> QED BY <1>1, <2>1, ShiftedUpper
<1>3. /\ Upper(B)[32 - k] = 2 * Upper(B)[(32 - k) - 1] + (IF k \in B THEN 1 ELSE 0)
      /\ Upper(B)[(32 - k) - 1] \in Nat
  BY <1>1, UpperIs
<1>4. \A u \in Nat : (2 * u + 1) % 2 = 1 /\ (2 * u + 0) % 2 = 0
  OBVIOUS
<1> QED BY <1>2, <1>3, <1>4 DEF Bit

\* A number that has no more than n bits is put together from them.
LEMMA BitsMakeNumber ==
  ASSUME NEW x \in Nat, NEW n \in 0 .. 32, Shifted(x)[n] = 0,
         NEW B, \A k \in 0 .. 31 : k \in B <=> k < n /\ Bit(x, k) = 1
  PROVE  OfBits(B) = x
<1> DEFINE o == Upper(B)
           s == Shifted(x)
           T == {k \in Nat : k <= 32 => o[k] = s[32 - k]}
<1>1. /\ OfBits(B) = o[32] /\ o[0] = 0 /\ \A k \in 0 .. 32 : o[k] \in Nat
      /\ \A k \in 1 .. 32 : o[k] = 2 * o[k - 1] + (IF 32 - k \in B THEN 1 ELSE 0)
  BY UpperIs
<1>2. \A k \in 0 .. 31 : s[k] = 2 * s[k + 1] + Bit(x, k) /\ Bit(x, k) \in {0, 1}
  BY BitIs
<1>3. s[0] = x /\ (\A k \in 1 .. 32 : s[k] = s[k - 1] \div 2) /\ \A k \in 0 .. 32 : s[k] \in Nat
  BY ShiftedIs
<1> HIDE DEF o, s
<1>4. \A k \in n .. 32 : s[k] = 0
  <2> DEFINE Z == {k \in Nat : k \in n .. 32 => s[k] = 0}
  <2>1. 0 \in Z
    BY DEF s
  <2>2. ASSUME NEW k \in Nat, k \in Z PROVE k + 1 \in Z
    <3> SUFFICES ASSUME k + 1 \in n .. 32, k + 1 # n PROVE s[k + 1] = 0
      BY DEF s
    <3>1. k \in n .. 32 /\ k + 1 \in 1 .. 32 /\ (k + 1) - 1 = k
      OBVIOUS
    <3>2. s[k] = 0
      BY <2>2, <3>1
    <3> DEFINE j == k + 1
    <3> HIDE DEF j
    <3>3. s[j] = s[j - 1] \div 2
      BY <1>3, <3>1 DEF j
    <3>4. s[j] = 0 \div 2
      BY <3>1, <3>2, <3>3 DEF j
    <3> QED BY <3>4 DEF j
  <2>3. \A k \in Nat : k \in Z
    <3> HIDE DEF Z
    <3> QED BY <2>1, <2>2, NumberInduction
  <2> QED BY <2>3
<1>5. 0 \in T
  <2>1. s[32] = 0
    BY <1>4
  <2> QED BY <1>1, <2>1
<1>6. ASSUME NEW k \in Nat, k \in T PROVE k + 1 \in T
  <2> SUFFICES ASSUME k + 1 <= 32 PROVE o[k + 1] = s[32 - (k + 1)]
    OBVIOUS
  <2> DEFINE j == 32 - (k + 1)
  <2>1. j \in 0 .. 31 /\ j + 1 = 32 - k /\ k + 1 \in 1 .. 32 /\ (k + 1) - 1 = k
    OBVIOUS
  <2>2. o[k] = s[j + 1]
    BY <1>6, <2>1
  <2>3. o[k + 1] = 2 * o[k] + (IF j \in B THEN 1 ELSE 0)
    <3> DEFINE i == k + 1
    <3>1. i \in 1 .. 32 /\ i - 1 = k /\ 32 - i = j
      OBVIOUS
    <3> HIDE DEF i, j
    <3>2. o[i] = 2 * o[i - 1] + (IF 32 - i \in B THEN 1 ELSE 0)
      BY <1>1, <3>1
    <3> QED BY <3>1, <3>2 DEF i
  <2> HIDE DEF j
  <2>4. s[j] = 2 * s[j + 1] + Bit(x, j) /\ Bit(x, j) \in {0, 1}
    BY <1>2, <2>1
  <2>5. CASE j < n
    BY <2>1, <2>2, <2>3, <2>4, <2>5 DEF j
  <2>6. CASE ~(j < n)
    <3>1. j \in n .. 32 /\ j + 1 \in n .. 32
      BY <2>1, <2>6
    <3>2. s[j] = 0 /\ s[j + 1] = 0 /\ j \notin B
      BY <1>4, <3>1, <2>1, <2>6
    <3> QED BY <2>2, <2>3, <3>2 DEF j
  <2> QED BY <2>5, <2>6
<1>7. \A k \in Nat : k \in T
  <2> HIDE DEF T
  <2> QED BY <1>5, <1>6, NumberInduction
<1>8. o[32] = s[0]
  BY <1>7
<1> QED BY <1>1, <1>3, <1>8

\* A byte is put together from its eight bits.
LEMMA BitsMakeByte ==
  ASSUME NEW x \in Byte
  PROVE  OfBits({k \in 0 .. 7 : Bit(x, k) = 1}) = x
<1> DEFINE s == Shifted(x)
<1>1. x \in Nat /\ x <= 255
  BY DEF Byte
<1>2. s[0] = x /\ (\A k \in 1 .. 32 : s[k] = s[k - 1] \div 2)
  BY <1>1, ShiftedIs
<1> HIDE DEF s
<1>3. s[1] = x \div 2 /\ s[2] = s[1] \div 2 /\ s[3] = s[2] \div 2 /\ s[4] = s[3] \div 2
  BY <1>2
<1>4. s[5] = s[4] \div 2 /\ s[6] = s[5] \div 2 /\ s[7] = s[6] \div 2 /\ s[8] = s[7] \div 2
  BY <1>2
<1>5. s[1] <= 127 /\ s[1] \in Nat
  BY <1>1, <1>3
<1>6. s[2] <= 63 /\ s[2] \in Nat
  BY <1>3, <1>5
<1>7. s[3] <= 31 /\ s[3] \in Nat
  BY <1>3, <1>6
<1>8. s[4] <= 15 /\ s[4] \in Nat
  BY <1>3, <1>7
<1>9. s[5] <= 7 /\ s[5] \in Nat
  BY <1>4, <1>8
<1>10. s[6] <= 3 /\ s[6] \in Nat
  BY <1>4, <1>9
<1>11. s[7] <= 1 /\ s[7] \in Nat
  BY <1>4, <1>10
<1>12. s[8] = 0
  BY <1>4, <1>11
<1> DEFINE B == {k \in 0 .. 7 : Bit(x, k) = 1}
<1>13. \A k \in 0 .. 31 : k \in B <=> k < 8 /\ Bit(x, k) = 1
  OBVIOUS
<1> HIDE DEF B
<1>14. OfBits(B) = x
  <2>1. 8 \in 0 .. 32 /\ Shifted(x)[8] = 0
    BY <1>12 DEF s
  <2> QED BY <1>1, <1>13, <2>1, BitsMakeNumber
<1> QED BY <1>14 DEF B

\* Eight bits make a byte.
LEMMA EightBitsAreByte ==
  ASSUME NEW B, B \subseteq 0 .. 7
  PROVE  OfBits(B) \in Byte
<1> DEFINE o == Upper(B)
           T == {k \in Nat : k <= 24 => o[k] = 0}
<1>1. /\ OfBits(B) = o[32] /\ o[0] = 0 /\ \A k \in 0 .. 32 : o[k] \in Nat
      /\ \A k \in 1 .. 32 : o[k] = 2 * o[k - 1] + (IF 32 - k \in B THEN 1 ELSE 0)
  BY UpperIs
<1> HIDE DEF o
<1>2. 0 \in T
  BY <1>1
<1>3. ASSUME NEW k \in Nat, k \in T PROVE k + 1 \in T
  <2> SUFFICES ASSUME k + 1 <= 24 PROVE o[k + 1] = 0
    OBVIOUS
  <2>1. k + 1 \in 1 .. 32 /\ (k + 1) - 1 = k /\ 32 - (k + 1) \notin B /\ o[k] = 0
    BY <1>3
  <2>2. o[k + 1] = 2 * o[k] + 0
    BY <1>1, <2>1
  <2> QED BY <2>1, <2>2
<1>4. o[24] = 0
  <2>1. \A k \in Nat : k \in T
    <3> HIDE DEF T
    <3> QED BY <1>2, <1>3, NumberInduction
  <2> QED BY <2>1
<1>5. \A k \in 25 .. 32 : o[k] \in Nat /\ o[k] <= 2 * o[k - 1] + 1
  <2> SUFFICES ASSUME NEW k \in 25 .. 32 PROVE o[k] \in Nat /\ o[k] <= 2 * o[k - 1] + 1
    OBVIOUS
  <2>1. k \in 1 .. 32 /\ k \in 0 .. 32 /\ k - 1 \in 0 .. 32
    OBVIOUS
  <2>2. o[k] = 2 * o[k - 1] + (IF 32 - k \in B THEN 1 ELSE 0) /\ o[k] \in Nat /\ o[k - 1] \in Nat
    BY <1>1, <2>1
  <2> QED BY <2>2
<1>6. o[25] <= 1 /\ o[25] \in Nat
  BY <1>4, <1>5
<1>7. o[26] <= 3 /\ o[26] \in Nat
  BY <1>6, <1>5
<1>8. o[27] <= 7 /\ o[27] \in Nat
  BY <1>7, <1>5
<1>9. o[28] <= 15 /\ o[28] \in Nat
  BY <1>8, <1>5
<1>10. o[29] <= 31 /\ o[29] \in Nat
  BY <1>9, <1>5
<1>11. o[30] <= 63 /\ o[30] \in Nat
  BY <1>10, <1>5
<1>12. o[31] <= 127 /\ o[31] \in Nat
  BY <1>11, <1>5
<1>13. o[32] <= 255 /\ o[32] \in Nat
  BY <1>12, <1>5
<1>14. OfBits(B) = o[32]
  BY <1>1
<1>15. o[32] \in 0 .. 255
  BY <1>13
<1> QED BY <1>14, <1>15 DEF Byte

LEMMA NoBitsOfZero ==
  ASSUME NEW k \in 0 .. 7
  PROVE  Bit(0, k) = 0
<1>1. OfBits({}) = 0
  <2>1. Shifted(0)[0] = 0 /\ 0 \in Nat /\ 0 \in 0 .. 32
    BY ShiftedIs
  <2> QED BY <2>1, BitsMakeNumber
<1>2. Bit(OfBits({}), k) = 0
  BY BitsOfBits
<1> QED BY <1>1, <1>2
----------------------------------------------------------------------------
\* Sequences that are joined, cut or made of numbered values.
LEMMA WholeJoined ==
  ASSUME NEW d, NEW e, Whole(d), Whole(e)
  PROVE  Whole(d \o e) /\ Len(d \o e) = Len(d) + Len(e) /\ Len(d) \in Nat /\ Len(e) \in Nat
BY DEF Whole

LEMMA WholeCut ==
  ASSUME NEW d, Whole(d), NEW n \in Nat
  PROVE  Whole(Cut(d, n)) /\ Len(Cut(d, n)) = Less(Len(d), n) /\ Len(d) \in Nat
<1>1. Len(d) \in Nat /\ Less(Len(d), n) \in 0 .. Len(d)
  BY DEF Less, Whole
<1> QED BY <1>1 DEF Cut, Whole

LEMMA RestIs ==
  ASSUME NEW b \in Nat, NEW c \in Nat, b <= 8 * c
  PROVE  Rest(b) \in 0 .. 7 /\ b + Rest(b) <= 8 * c /\ (Rest(b) = 0 <=> b % 8 = 0)
         /\ (b + Rest(b)) % 8 = 0
<1> DEFINE q == b \div 8
           r == b % 8
<1>1. Rest(b) = (8 - r) % 8
  BY DEF Rest
<1>2. q \in Nat /\ r \in 0 .. 7 /\ b = 8 * q + r
  OBVIOUS
<1> HIDE DEF q, r
<1>4. CASE r = 0
  <2>1. Rest(b) = 0
    BY <1>1, <1>4
  <2> QED BY <1>2, <1>4, <2>1 DEF r
<1>5. CASE r # 0
  <2>1. Rest(b) = 8 - r
    BY <1>1, <1>2, <1>5
  <2>2. q < c
    BY <1>2, <1>5
  <2>3. b + Rest(b) = 8 * (q + 1)
    BY <1>2, <2>1
  <2> QED BY <1>2, <1>5, <2>1, <2>2, <2>3 DEF r
<1> QED BY <1>4, <1>5

\* New bytes are as many as the bits need.
LEMMA NewBytesAre ==
  ASSUME NEW b, NEW n \in Nat, Rest(b) \in 0 .. 7
  PROVE  /\ NewBytes(b, n) \in Nat /\ n - Rest(b) <= 8 * NewBytes(b, n)
         /\ n <= 32 => NewBytes(b, n) <= 4
         /\ n > Rest(b) => NewBytes(b, n) > 0 /\ 8 * NewBytes(b, n) < n - Rest(b) + 8
BY DEF NewBytes, Ceil

\* The last bit is in the last of them.
LEMMA BitAfterIs ==
  ASSUME NEW b \in Nat, NEW from \in Nat, b <= 8 * from, NEW n \in Nat
  PROVE  /\ BitAfter(b, n, from) \in 0 .. 8 * (from + NewBytes(b, n))
         /\ BitAfter(b, n, from) =
              IF n <= Rest(b) THEN b + n ELSE 8 * from + (n - Rest(b))
<1>1. Rest(b) \in 0 .. 7 /\ b + Rest(b) <= 8 * from
  BY RestIs
<1>2. /\ NewBytes(b, n) \in Nat /\ n - Rest(b) <= 8 * NewBytes(b, n)
  BY <1>1, NewBytesAre
<1> DEFINE k == NewBytes(b, n)
           q == Rest(b)
<1>3. BitAfter(b, n, from) = IF n = 0 THEN b ELSE IF n - 1 < q THEN b + (n - 1) + 1
                                                  ELSE 8 * from + ((n - 1) - q) + 1
  BY DEF BitAfter, Place
<1> HIDE DEF k, q
<1> QED BY <1>1, <1>2, <1>3 DEF k, q

\* A sequence given element by element.
LEMMA WholeNumbered ==
  ASSUME NEW n \in Nat, NEW d, d = [j \in 1 .. n |-> d[j]], \A j \in 1 .. n : d[j] \in Byte
  PROVE  Whole(d) /\ Len(d) = n
<1>1. d \in [1 .. n -> Byte]
  OBVIOUS
<1>2. d \in Seq(Byte) /\ Len(d) = n
  BY <1>1
<1> QED BY <1>2 DEF Whole

LEMMA FirstOf ==
  ASSUME NEW S, NEW n \in Nat, S \subseteq 1 .. n
  PROVE  /\ Min(S \cup {n + 1}) \in S \cup {n + 1}
         /\ \A i \in S \cup {n + 1} : Min(S \cup {n + 1}) <= i
<1>1. S \cup {n + 1} \subseteq Nat /\ S \cup {n + 1} # {}
  OBVIOUS
<1>2. \E k \in S \cup {n + 1} : \A i \in S \cup {n + 1} : k <= i
  BY <1>1, SmallestNumber
<1> QED BY <1>2 DEF Min

LEMMA SmallestIs ==
  ASSUME NEW S, NEW n \in Nat, S \subseteq 1 .. n
  PROVE  Min(S \cup {n + 1}) \in 1 .. n + 1
<1>1. Min(S \cup {n + 1}) \in S \cup {n + 1}
  BY FirstOf
<1>2. S \cup {n + 1} \subseteq 1 .. n + 1
  OBVIOUS
<1> QED BY <1>1, <1>2

LEMMA UnreadIs ==
  ASSUME NEW m, Good(m)
  PROVE  /\ Whole(Unread(m)) /\ Len(Unread(m)) \in Nat
         /\ Len(Unread(m)) = IF m.readcount < m.cursize THEN m.cursize - m.readcount ELSE 0
         /\ \A j \in 1 .. Len(Unread(m)) : Unread(m)[j] = m.data[m.readcount + j]
<1>1. /\ m.data \in Seq(Byte) /\ m.readcount \in Nat /\ m.cursize \in 0 .. Len(m.data)
      /\ Len(m.data) \in Nat
  BY DEF Good, Fits, Whole
<1> DEFINE d == m.data
           a == m.readcount + 1
           b == m.cursize
<1>2. d \in Seq(Byte) /\ a \in Nat \ {0} /\ b \in 0 .. Len(d)
  BY <1>1
<1> HIDE DEF a, b, d
<1>3. SubSeq(d, a, b) \in Seq(Byte) /\ Len(SubSeq(d, a, b)) = IF a <= b THEN b - a + 1 ELSE 0
  BY <1>2
<1>4. \A j \in 1 .. Len(SubSeq(d, a, b)) : SubSeq(d, a, b)[j] = d[a + j - 1]
  BY <1>2, <1>3
<1>5. Unread(m) = SubSeq(d, a, b)
  BY DEF Unread, a, b, d
<1>6. \A j \in 1 .. Len(Unread(m)) : Unread(m)[j] = m.data[m.readcount + j]
  <2> SUFFICES ASSUME NEW j \in 1 .. Len(Unread(m)) PROVE Unread(m)[j] = m.data[m.readcount + j]
    OBVIOUS
  <2>1. Len(Unread(m)) \in Nat
    BY <1>2, <1>3, <1>5
  <2>2. j \in Nat /\ a + j - 1 = m.readcount + j
    BY <1>1, <2>1 DEF a
  <2> QED BY <1>4, <1>5, <2>2 DEF d
<1> QED BY <1>1, <1>3, <1>5, <1>6 DEF Whole, a, b
----------------------------------------------------------------------------
(* Writing.                                                                *)

LEMMA Overflows ==
  ASSUME NEW m, Writable(m)
  PROVE  Writable(Overflow(m))
BY DEF Overflow, Writable, Good, Fits, Parts

LEMMA BytesFit ==
  ASSUME NEW m, Writable(m), NEW bytes, Whole(bytes), Len(bytes) <= Room(m)
  PROVE  Writable(WithBytes(m, bytes))
<1>1. /\ Whole(m.data \o bytes) /\ Len(m.data \o bytes) = Len(m.data) + Len(bytes)
      /\ Len(bytes) \in Nat
  BY WholeJoined DEF Writable, Good
<1> QED BY <1>1 DEF WithBytes, Room, Writable, Good, Fits, Parts

LEMMA NumberFits ==
  ASSUME NEW m, Writable(m), NEW bytes, Whole(bytes)
  PROVE  Writable(Number(m, bytes))
<1>1. Len(bytes) \in Nat /\ Room(m) \in Nat
  BY DEF Whole, Room, Writable, Good, Fits
<1> QED BY <1>1, Overflows, BytesFit DEF Number

LEMMA DataFits ==
  ASSUME NEW m, Writable(m), NEW bytes, Whole(bytes)
  PROVE  Writable(MSG_WriteData(m, bytes))
<1>1. Room(m) \in Nat
  BY DEF Room, Writable, Good, Fits
<1>2. /\ Whole(Cut(bytes, Room(m))) /\ Len(Cut(bytes, Room(m))) <= Room(m)
  BY <1>1, WholeCut DEF Less
<1>3. Writable(WithBytes(m, Cut(bytes, Room(m))))
  BY <1>2, BytesFit
<1> QED BY <1>3, Overflows DEF MSG_WriteData

LEMMA TextsFit ==
  ASSUME NEW m, Writable(m), NEW s, Whole(s), NEW c \in Byte
  PROVE  Writable(MSG_WriteData(m, Append(s, c)))
<1>1. Whole(Append(s, c))
  BY DEF Whole
<1> QED BY <1>1, DataFits

\* Bits that need no more bytes than there is room for.
LEMMA BitsFit ==
  ASSUME NEW m, Writable(m), NEW bits, NEW n \in Nat, NewBytes(m.bit, n) <= Room(m)
  PROVE  Writable(WithBits(m, bits, n))
<1> DEFINE size == m.cursize + NewBytes(m.bit, n)
           w == WithBits(m, bits, n)
<1>1. /\ m.cursize \in Nat /\ m.bit \in Nat /\ m.bit <= 8 * m.cursize /\ m.maxsize \in Nat
      /\ DOMAIN m = Parts /\ m.splitsize = 0 /\ m.readcount \in 0 .. m.cursize
      /\ Whole(m.splitdata)
  BY DEF Writable, Good, Fits
<1>2. NewBytes(m.bit, n) \in Nat /\ size \in Nat /\ size <= m.maxsize
  <2>1. Rest(m.bit) \in 0 .. 7
    BY <1>1, RestIs
  <2>2. NewBytes(m.bit, n) \in Nat
    BY <2>1, NewBytesAre
  <2> QED BY <1>1, <2>2 DEF Room
<1>3. BitAfter(m.bit, n, m.cursize) \in 0 .. 8 * size
  BY <1>1, BitAfterIs
<1>4. w.data = [j \in 1 .. size |-> w.data[j]] /\ \A j \in 1 .. size : w.data[j] \in Byte
  <2> DEFINE Old(j) == IF j <= Len(m.data) THEN m.data[j] ELSE 0
             Set(j, k) == \/ Bit(Old(j), k) = 1
                          \/ \E i \in 0 .. n - 1 :
                               Bit(bits, i) = 1 /\ Place(m.bit, i, m.cursize) = 8 * (j - 1) + k
  <2>1. w.data = [j \in 1 .. size |-> OfBits({k \in 0 .. 7 : Set(j, k)})]
    BY <1>1 DEF WithBits, Parts
  <2> HIDE DEF w, Set, size
  <2>2. \A j \in 1 .. size : OfBits({k \in 0 .. 7 : Set(j, k)}) \in Byte
    BY EightBitsAreByte
  <2> QED BY <2>1, <2>2
<1>5. Whole(w.data) /\ Len(w.data) = size
  <2> HIDE DEF w, size
  <2> QED BY <1>2, <1>4, WholeNumbered
<1>6. /\ DOMAIN w = Parts /\ w.cursize = size /\ w.bit = BitAfter(m.bit, n, m.cursize)
      /\ w.splitsize = 0 /\ w.maxsize = m.maxsize /\ w.readcount = m.readcount
      /\ w.splitdata = m.splitdata
  BY <1>1 DEF WithBits, Parts
<1> HIDE DEF w, size
<1>7. m.readcount \in 0 .. size
  BY <1>1, <1>2 DEF size
<1>8. Writable(w)
  BY <1>1, <1>2, <1>3, <1>5, <1>6, <1>7 DEF Writable, Good, Fits
<1> QED BY <1>8 DEF w

LEMMA ManyBitsFit ==
  ASSUME NEW m, Writable(m), NEW bits, NEW n \in 0 .. 32
  PROVE  Writable(MSG_WriteBits(m, bits, n))
<1>1. m.bit \in Nat /\ m.cursize \in Nat /\ m.bit <= 8 * m.cursize /\ Room(m) \in Nat
  BY DEF Writable, Good, Fits, Room
<1>2. NewBytes(m.bit, n) \in Nat /\ NewBytes(m.bit, n) <= 4
  BY <1>1, RestIs, NewBytesAre
<1> QED BY <1>1, <1>2, Overflows, BitsFit DEF MSG_WriteBits

LEMMA OneBitFits ==
  ASSUME NEW m, Writable(m), NEW b
  PROVE  Writable(WriteBit(m, b))
<1>1. m.bit \in Nat /\ m.cursize \in Nat /\ m.bit <= 8 * m.cursize /\ Room(m) \in Nat
  BY DEF Writable, Good, Fits, Room
<1>2. Rest(m.bit) \in 0 .. 7
  BY <1>1, RestIs
<1>3. NewBytes(m.bit, 1) = IF Rest(m.bit) = 0 THEN 1 ELSE 0
  BY <1>2 DEF NewBytes, Ceil
<1>4. Rest(m.bit) = 0 => m.bit % 8 = 0
  BY <1>1 DEF Rest
<1>5. ~(m.bit % 8 = 0 /\ Room(m) <= 0) => NewBytes(m.bit, 1) <= Room(m)
  BY <1>1, <1>3, <1>4
<1> QED BY <1>5, Overflows, BitsFit DEF WriteBit

LEMMA SextetIs ==
  ASSUME NEW x \in Byte, NEW y \in Byte, NEW z \in Byte, NEW i \in 1 .. 4
  PROVE  Sextet(<<x, y, z>>, i) \in 0 .. 63
<1> DEFINE n == x * 65536 + y * 256 + z
           w == <<262144, 4096, 64, 1>>[i]
<1>1. n \in Nat /\ w \in {262144, 4096, 64, 1}
  BY DEF Byte
<1>2. Sextet(<<x, y, z>>, i) = (n \div w) % 64
  BY DEF Sextet
<1> HIDE DEF n, w
<1>3. n \div w \in Nat
  BY <1>1
<1> QED BY <1>2, <1>3

LEMMA Base64Fits ==
  ASSUME NEW m, Writable(m), NEW inbuf, Whole(inbuf)
  PROVE  Writable(MSG_WriteBase64(m, inbuf))
<1> DEFINE groups == Less(Ceil(Len(inbuf), 3), Room(m) \div 4)
           size == m.cursize + 4 * groups
           w == MSG_WriteBase64(m, inbuf)
<1>1. /\ m.cursize \in Nat /\ m.bit \in Nat /\ m.bit <= 8 * m.cursize /\ m.maxsize \in Nat
      /\ DOMAIN m = Parts /\ m.splitsize = 0 /\ m.readcount \in 0 .. m.cursize
      /\ Whole(m.data) /\ Len(m.data) = m.cursize
      /\ m.cursize <= m.maxsize /\ Len(inbuf) \in Nat /\ Whole(m.splitdata)
  BY DEF Writable, Good, Fits, Whole
<1>2. groups \in Nat /\ size \in Nat /\ size <= m.maxsize
  <2>1. Room(m) \in Nat /\ m.cursize + Room(m) = m.maxsize
    BY <1>1 DEF Room
  <2>2. Room(m) \div 4 \in Nat /\ 4 * (Room(m) \div 4) <= Room(m)
    BY <2>1
  <2>3. Ceil(Len(inbuf), 3) \in Nat
    BY <1>1 DEF Ceil
  <2>4. groups \in Nat /\ groups <= Room(m) \div 4
    BY <2>2, <2>3 DEF Less
  <2> DEFINE room == Room(m)
             fours == Room(m) \div 4
  <2>5. size = m.cursize + 4 * groups
    OBVIOUS
  <2> HIDE DEF size, groups, room, fours
  <2>6. 4 * groups <= room
    BY <2>1, <2>2, <2>4 DEF room, fours
  <2>7. m.cursize \in Nat /\ m.cursize + room = m.maxsize
    BY <1>1, <2>1 DEF room
  <2>8. groups \in Nat
    BY <2>4
  <2>9. size \in Nat
    BY <2>5, <2>7, <2>8
  <2>10. size <= m.maxsize
    BY <2>1, <2>5, <2>6, <2>7, <2>8 DEF room
  <2> QED BY <2>8, <2>9, <2>10
<1>3. /\ DOMAIN w = Parts /\ w.cursize = size /\ w.bit = m.bit /\ w.splitsize = 0
      /\ w.maxsize = m.maxsize /\ w.readcount = m.readcount /\ w.splitdata = m.splitdata
  BY <1>1 DEF MSG_WriteBase64, Parts
<1>4. \E chars, marked :
        /\ chars = [c \in 1 .. 4 * groups |-> chars[c]] /\ \A c \in 1 .. 4 * groups : chars[c] \in Byte
        /\ marked = [j \in 1 .. size |-> marked[j]]
        /\ \A j \in 1 .. size : marked[j] \in {64, (m.data \o chars)[j]}
        /\ w.data = IF size < 3 THEN m.data \o chars ELSE marked
  <2> DEFINE len    == Len(inbuf)
             At(i)  == IF i <= len THEN inbuf[i] ELSE 0
             Group(b) == <<At(3 * b + 1), At(3 * b + 2), At(3 * b + 3)>>
             chars  == [c \in 1 .. 4 * groups |-> Sextet(Group((c - 1) \div 4), ((c - 1) % 4) + 1)]
             equals == IF len = 0 THEN 3 ELSE (3 - (len % 3)) % 3
             marked == [j \in 1 .. size |-> IF j > size - equals THEN 64 ELSE (m.data \o chars)[j]]
  <2>1. w.data = IF size < 3 THEN m.data \o chars ELSE marked
    BY <1>1 DEF MSG_WriteBase64, Parts
  <2>2. \A i \in Nat \ {0} : At(i) \in Byte
    <3>1. inbuf \in Seq(Byte) /\ len \in Nat /\ 0 \in Byte
      BY <1>1 DEF Whole, Byte
    <3> QED BY <3>1
  <2>3. \A c \in 1 .. 4 * groups : Sextet(Group((c - 1) \div 4), ((c - 1) % 4) + 1) \in Byte
    <3> SUFFICES ASSUME NEW c \in 1 .. 4 * groups
                 PROVE  Sextet(Group((c - 1) \div 4), ((c - 1) % 4) + 1) \in Byte
      OBVIOUS
    <3> DEFINE b == (c - 1) \div 4
               i == ((c - 1) % 4) + 1
    <3>1. b \in Nat /\ i \in 1 .. 4
      BY <1>2
    <3> HIDE DEF b, i, At
    <3>2. At(3 * b + 1) \in Byte /\ At(3 * b + 2) \in Byte /\ At(3 * b + 3) \in Byte
      BY <2>2, <3>1
    <3>3. Sextet(Group(b), i) \in 0 .. 63
      BY <3>1, <3>2, SextetIs
    <3> QED BY <3>3 DEF b, i, Byte
  <2> HIDE DEF Group
  <2>4. chars = [c \in 1 .. 4 * groups |-> chars[c]] /\ \A c \in 1 .. 4 * groups : chars[c] \in Byte
    BY <2>3
  <2>5. /\ marked = [j \in 1 .. size |-> marked[j]]
        /\ \A j \in 1 .. size : marked[j] \in {64, (m.data \o chars)[j]}
    OBVIOUS
  <2> HIDE DEF w, size, groups, chars, marked
  <2> QED BY <2>1, <2>4, <2>5
<1> HIDE DEF w, size, groups
<1>5. PICK chars, marked :
        /\ chars = [c \in 1 .. 4 * groups |-> chars[c]] /\ \A c \in 1 .. 4 * groups : chars[c] \in Byte
        /\ marked = [j \in 1 .. size |-> marked[j]]
        /\ \A j \in 1 .. size : marked[j] \in {64, (m.data \o chars)[j]}
        /\ w.data = IF size < 3 THEN m.data \o chars ELSE marked
  BY <1>4
<1>6. Whole(chars) /\ Len(chars) = 4 * groups
  <2>1. 4 * groups \in Nat
    BY <1>2
  <2> QED BY <1>5, <2>1, WholeNumbered
<1>7. Whole(m.data \o chars) /\ Len(m.data \o chars) = size
  BY <1>1, <1>6, WholeJoined DEF size
<1>8. Whole(marked) /\ Len(marked) = size
  <2>1. \A j \in 1 .. size : (m.data \o chars)[j] \in Byte
    BY <1>7 DEF Whole
  <2>2. 64 \in Byte
    BY DEF Byte
  <2>3. \A j \in 1 .. size : marked[j] \in Byte
    BY <1>5, <2>1, <2>2
  <2> QED BY <1>2, <1>5, <2>3, WholeNumbered
<1>9. Whole(w.data) /\ Len(w.data) = size
  BY <1>5, <1>7, <1>8
<1>10. m.cursize <= size
  BY <1>1, <1>2 DEF size
<1> QED BY <1>1, <1>2, <1>3, <1>9, <1>10 DEF Writable, Good, Fits, w

\* Whatever is written, the message stays as it may be written to.
LEMMA WritesFit ==
  ASSUME NEW m, Writable(m), NEW in \in Inputs
  PROVE  Writable(Written(m, in))
<1>1. in.op # "bits" => Whole(in.v)
  BY InputsAssumption DEF Whole
<1>2. in.op \in {"byte", "short", "long", "int64", "data", "string", "line", "base64", "bits", "bit"}
  BY InputsAssumption
<1>3. CASE in.op \in {"byte", "short", "long", "int64"}
  BY <1>1, <1>3, NumberFits DEF Written, MSG_WriteByte, MSG_WriteShort, MSG_WriteLong, MSG_WriteInt64
<1>4. CASE in.op = "data"
  BY <1>1, <1>4, DataFits DEF Written
<1>5. CASE in.op = "string"
  <2>1. Writable(MSG_WriteData(m, Append(in.v, 0)))
    BY <1>1, <1>5, TextsFit DEF Byte
  <2>2. <<0>> \in Seq(Byte)
    BY DEF Byte
  <2>3. Writable(MSG_WriteData(m, <<0>>))
    BY <2>2, DataFits DEF Whole
  <2>4. Writable(MSG_WriteString(m, in.v))
    BY <2>1, <2>3 DEF MSG_WriteString
  <2> QED BY <1>5, <2>4 DEF Written
<1>6. CASE in.op = "line"
  BY <1>1, <1>6, TextsFit DEF Written, Byte, Newline
<1>7. CASE in.op = "base64"
  BY <1>1, <1>7, Base64Fits DEF Written
<1>8. CASE in.op = "bits"
  <2>1. in.n \in 0 .. 32
    BY <1>8, InputsAssumption
  <2> QED BY <1>8, <2>1, ManyBitsFit DEF Written
<1>9. CASE in.op = "bit"
  <2>1. Writable(MSG_WriteBit0(m)) /\ Writable(MSG_WriteBit1(m))
    BY OneBitFits DEF MSG_WriteBit0, MSG_WriteBit1
  <2> QED BY <1>9, <2>1 DEF Written
<1> QED BY <1>2, <1>3, <1>4, <1>5, <1>6, <1>7, <1>8, <1>9
----------------------------------------------------------------------------
(* Reading.                                                                *)

\* What a read may do to a message.
Kept(m, r) ==
  /\ Readable(r)
  /\ r.data = m.data /\ r.cursize = m.cursize /\ r.splitdata = m.splitdata
  /\ r.splitsize = m.splitsize /\ r.readonly = m.readonly

LEMMA Advances ==
  ASSUME NEW m, Readable(m), NEW k \in Nat, k <= Len(Unread(m))
  PROVE  Kept(m, Advance(m, k)) /\ Kept(m, Overflow(Advance(m, k)))
<1>1. /\ Len(Unread(m)) \in Nat
      /\ Len(Unread(m)) = IF m.readcount < m.cursize THEN m.cursize - m.readcount ELSE 0
  BY UnreadIs DEF Readable
<1>2. /\ m.readcount \in Nat /\ m.cursize \in Nat /\ m.splitsize \in Nat /\ m.bit \in Nat
      /\ m.readcount <= m.cursize + m.splitsize /\ m.bit <= 8 * m.readcount
      /\ DOMAIN m = Parts
  BY DEF Readable, Good, Fits
<1>3. m.readcount + k \in 0 .. m.cursize + m.splitsize /\ m.bit <= 8 * (m.readcount + k)
  <2> DEFINE u == Len(Unread(m))
  <2>1. k <= u /\ u = IF m.readcount < m.cursize THEN m.cursize - m.readcount ELSE 0
    BY <1>1
  <2> HIDE DEF u
  <2>2. m.readcount + k <= m.cursize + m.splitsize
    BY <1>2, <2>1
  <2>3. m.bit <= 8 * (m.readcount + k)
    BY <1>2
  <2> QED BY <1>2, <2>2, <2>3
<1> DEFINE a == Advance(m, k)
           o == Overflow(a)
<1>4. /\ DOMAIN a = Parts /\ a.readcount = m.readcount + k /\ a.bit = m.bit /\ a.data = m.data
      /\ a.cursize = m.cursize /\ a.splitsize = m.splitsize /\ a.readonly = m.readonly
      /\ a.maxsize = m.maxsize /\ a.splitdata = m.splitdata
  BY <1>2 DEF Advance, Parts
<1> HIDE DEF a
<1>5. /\ DOMAIN o = Parts /\ o.readcount = m.readcount + k /\ o.bit = m.bit /\ o.data = m.data
      /\ o.cursize = m.cursize /\ o.splitsize = m.splitsize /\ o.readonly = m.readonly
      /\ o.maxsize = m.maxsize /\ o.splitdata = m.splitdata
  BY <1>4 DEF Overflow, Parts
<1> HIDE DEF o
<1>6. Kept(m, a)
  BY <1>3, <1>4 DEF Kept, Readable, Good, Fits
<1>7. Kept(m, o)
  BY <1>3, <1>5 DEF Kept, Readable, Good, Fits
<1> QED BY <1>6, <1>7 DEF a, o

LEMMA NumberRead ==
  ASSUME NEW m, Readable(m), NEW width \in Nat
  PROVE  Kept(m, ReadNumber(m, width).msg)
<1>1. CASE m.readcount + width > m.cursize
  <2>1. Kept(m, Overflow(m))
    BY DEF Overflow, Parts, Kept, Readable, Good, Fits
  <2> QED BY <1>1, <2>1 DEF ReadNumber
<1>2. CASE ~(m.readcount + width > m.cursize)
  <2>1. Len(Unread(m)) = IF m.readcount < m.cursize THEN m.cursize - m.readcount ELSE 0
    BY UnreadIs DEF Readable
  <2>2. m.readcount \in Nat /\ m.cursize \in Nat
    BY DEF Readable, Good, Fits
  <2>3. width <= Len(Unread(m))
    BY <1>2, <2>1, <2>2
  <2> QED BY <1>2, <2>3, Advances DEF ReadNumber
<1> QED BY <1>1, <1>2

LEMMA DataRead ==
  ASSUME NEW m, Readable(m), NEW len \in Nat
  PROVE  Kept(m, MSG_ReadData(m, len).msg)
<1>1. Len(Unread(m)) \in Nat
  BY UnreadIs DEF Readable
<1>2. Less(len, Len(Unread(m))) \in Nat /\ Less(len, Len(Unread(m))) <= Len(Unread(m))
  BY <1>1 DEF Less
<1> QED BY <1>2, Advances DEF MSG_ReadData

LEMMA StringRead ==
  ASSUME NEW m, Readable(m), NEW len \in Nat
  PROVE  Kept(m, MSG_ReadString(m, len).msg)
<1> DEFINE L == Len(Unread(m))
           z == Min({i \in 1 .. L : Unread(m)[i] = 0} \cup {L + 1})
<1>1. L \in Nat
  BY UnreadIs DEF Readable
<1>2. z \in 1 .. L + 1
  <2> HIDE DEF L
  <2> QED BY <1>1, SmallestIs
<1>3. MSG_ReadString(m, len).msg =
        IF z > L THEN Overflow(Advance(m, Less(z, L))) ELSE Advance(m, Less(z, L))
  BY DEF MSG_ReadString, Upto
<1> HIDE DEF z
<1>4. Less(z, L) \in Nat /\ Less(z, L) <= L
  BY <1>1, <1>2 DEF Less
<1> QED BY <1>3, <1>4, Advances

LEMMA LineRead ==
  ASSUME NEW m, Readable(m), NEW len \in Nat \ {0}
  PROVE  Kept(m, MSG_ReadStringLine(m, len).msg)
<1> DEFINE L == Len(Unread(m))
           z == Min({i \in 1 .. L : Unread(m)[i] \in {0, Newline}} \cup {L + 1})
           k == Less(z, Less(len - 1, L))
<1>1. L \in Nat
  BY UnreadIs DEF Readable
<1>2. z \in 1 .. L + 1
  <2> HIDE DEF L
  <2> QED BY <1>1, SmallestIs
<1>3. MSG_ReadStringLine(m, len).msg =
        IF z > L /\ L < len - 1 THEN Overflow(Advance(m, k)) ELSE Advance(m, k)
  BY DEF MSG_ReadStringLine, Upto
<1> HIDE DEF z
<1>4. k \in Nat /\ k <= L
  BY <1>1, <1>2 DEF Less
<1> QED BY <1>3, <1>4, Advances

LEMMA Base64Read ==
  ASSUME NEW m, Readable(m), NEW len \in Nat
  PROVE  Kept(m, MSG_ReadBase64(m, len).msg)
<1> DEFINE L == Len(Unread(m))
           bad == Min({i \in 1 .. L : Unread(m)[i] \notin 0 .. 63} \cup {L + 1})
           groups == IF len <= 7 THEN 1 ELSE Ceil(len - 4, 3)
           k == Less(IF bad > 4 * groups THEN 4 * groups ELSE bad, L)
<1>1. L \in Nat
  BY UnreadIs DEF Readable
<1>2. bad \in 1 .. L + 1
  <2> HIDE DEF L
  <2> QED BY <1>1, SmallestIs
<1>3. MSG_ReadBase64(m, len).msg =
        IF ~(bad > 4 * groups) /\ bad > L THEN Overflow(Advance(m, k)) ELSE Advance(m, k)
  BY DEF MSG_ReadBase64, Upto
<1> HIDE DEF bad
<1>4. groups \in Nat
  BY DEF Ceil
<1> HIDE DEF groups
<1>5. k \in Nat /\ k <= L
  BY <1>1, <1>2, <1>4 DEF Less
<1> QED BY <1>3, <1>5, Advances

LEMMA BitsRead ==
  ASSUME NEW m, Readable(m), NEW n \in Nat
  PROVE  Kept(m, MSG_ReadBits(m, n).msg)
<1> DEFINE end == m.cursize + m.splitsize
           r == MSG_ReadBits(m, n).msg
           c == m.readcount + NewBytes(m.bit, n)
<1>1. /\ m.readcount \in Nat /\ m.cursize \in Nat /\ m.splitsize \in Nat /\ m.bit \in Nat
      /\ m.readcount <= end /\ m.bit <= 8 * m.readcount /\ DOMAIN m = Parts
  BY DEF Readable, Good, Fits
<1>2. Rest(m.bit) \in 0 .. 7 /\ m.bit + Rest(m.bit) <= 8 * m.readcount
  BY <1>1, RestIs
<1>3. NewBytes(m.bit, n) \in Nat /\ c \in Nat
  BY <1>1, <1>2, NewBytesAre
<1>4. BitAfter(m.bit, n, m.readcount) \in 0 .. 8 * c
  BY <1>1, BitAfterIs
<1>5. CASE c > end
  <2> DEFINE b == IF m.readcount < end THEN 8 * end ELSE m.bit + Rest(m.bit)
  <2>1. r = [Overflow(m) EXCEPT !.readcount = end, !.bit = b]
    BY <1>5 DEF MSG_ReadBits
  <2>2. b \in 0 .. 8 * end
    BY <1>1, <1>2
  <2> HIDE DEF b
  <2>3. /\ DOMAIN r = Parts /\ r.readcount = end /\ r.bit = b /\ r.data = m.data
        /\ r.cursize = m.cursize /\ r.splitsize = m.splitsize /\ r.readonly = m.readonly
        /\ r.maxsize = m.maxsize /\ r.splitdata = m.splitdata
    BY <1>1, <2>1 DEF Overflow, Parts
  <2> HIDE DEF r
  <2> QED BY <1>1, <2>2, <2>3 DEF Kept, Readable, Good, Fits, r
<1>6. CASE ~(c > end)
  <2> DEFINE b == BitAfter(m.bit, n, m.readcount)
  <2>1. r = [m EXCEPT !.readcount = c, !.bit = b]
    BY <1>6 DEF MSG_ReadBits
  <2> HIDE DEF b
  <2>2. /\ DOMAIN r = Parts /\ r.readcount = c /\ r.bit = b /\ r.data = m.data
        /\ r.cursize = m.cursize /\ r.splitsize = m.splitsize /\ r.readonly = m.readonly
        /\ r.maxsize = m.maxsize /\ r.splitdata = m.splitdata
    BY <1>1, <2>1 DEF Parts
  <2>3. b \in 0 .. 8 * c /\ b \in 0 .. 8 * end
    BY <1>1, <1>3, <1>4, <1>6 DEF b
  <2> HIDE DEF r, c
  <2>4. Readable(r)
    BY <1>1, <1>3, <1>6, <2>2, <2>3 DEF Readable, Good, Fits
  <2>5. Kept(m, r)
    BY <2>2, <2>4 DEF Kept
  <2> QED BY <2>5 DEF r
<1> QED BY <1>5, <1>6

\* Whatever is read, written or not, the message stays as it may be read from.
LEMMA ReadsKeep ==
  ASSUME NEW m, Readable(m), NEW in \in Inputs
  PROVE  Kept(m, ReadAs(m, in).msg)
<1>1. Len(in.v) \in Nat
  BY InputsAssumption
<1>2. in.op \in {"byte", "short", "long", "int64", "data", "string", "line", "base64", "bits", "bit"}
  BY InputsAssumption
<1>3. CASE in.op \in {"byte", "short", "long", "int64"}
  BY <1>3, NumberRead DEF ReadAs, MSG_ReadByte, MSG_ReadShort, MSG_ReadLong, MSG_ReadInt64
<1>4. CASE in.op = "data"
  BY <1>1, <1>4, DataRead DEF ReadAs
<1>5. CASE in.op = "string"
  BY <1>5, StringRead, SizesAssumption DEF ReadAs
<1>6. CASE in.op = "line"
  BY <1>1, <1>6, LineRead DEF ReadAs
<1>7. CASE in.op = "base64"
  BY <1>1, <1>7, Base64Read DEF ReadAs
<1>8. CASE in.op = "bits"
  <2>1. in.n \in 0 .. 32
    BY <1>8, InputsAssumption
  <2>2. in.n \in Nat
    BY <2>1
  <2> QED BY <1>8, <2>2, BitsRead DEF ReadAs
<1>9. CASE in.op = "bit"
  BY <1>9, BitsRead DEF ReadAs, MSG_ReadBit
<1> QED BY <1>2, <1>3, <1>4, <1>5, <1>6, <1>7, <1>8, <1>9
----------------------------------------------------------------------------
(* The invariant.                                                          *)

MsgInv ==
  /\ Good(msg)
  /\ log \in Seq(Inputs) /\ next \in Nat \ {0} /\ phase \in {"writing", "reading", "discarded"}
  /\ ~msg.readonly => msg.splitsize = 0
  /\ phase = "writing" => msg.splitsize = 0
  /\ phase # "discarded" => Len(msg.data) = msg.cursize
  /\ phase # "writing" => msg.bit <= 8 * msg.readcount

LEMMA Begun ==
  ASSUME NEW n \in Nat
  PROVE  /\ Writable(MSG_Init(n)) /\ Readable(MSG_Init(n)) /\ ~MSG_Init(n).readonly
<1>1. MSG_Init(n).data \in Seq(Byte) /\ MSG_Init(n).splitdata \in Seq(Byte)
  BY DEF MSG_Init
<1>2. Len(MSG_Init(n).data) = 0
  BY DEF MSG_Init
<1> QED BY <1>1, <1>2 DEF MSG_Init, Writable, Readable, Good, Fits, Whole, Parts

LEMMA InitMsgInv == Init => MsgInv
<1> SUFFICES ASSUME Init PROVE MsgInv
  OBVIOUS
<1>1. Writable(MSG_Init(MaxSize))
  BY SizesAssumption, Begun
<1>2. log \in Seq(Inputs)
  BY DEF Init
<1> QED BY <1>1, <1>2 DEF Init, MsgInv, Writable

LEMMA WriteKeeps ==
  ASSUME MsgInv, Write
  PROVE  MsgInv'
<1>1. PICK in \in Inputs :
        /\ msg' = Written(msg, in)
        /\ log' = IF msg'.overflowed THEN log ELSE Append(log, in)
  BY DEF Write
<1>2. Writable(msg)
  BY DEF Write, MsgInv, Writable
<1>3. Writable(msg')
  BY <1>1, <1>2, WritesFit
<1>4. log' \in Seq(Inputs)
  BY <1>1 DEF MsgInv
<1> QED BY <1>3, <1>4 DEF Write, MsgInv, Writable, Good, Fits

LEMMA ClearKeeps ==
  ASSUME MsgInv, Clear
  PROVE  MsgInv'
<1>1. Writable(msg')
  <2>1. CASE msg.readonly
    BY <2>1, SizesAssumption, Begun DEF Clear
  <2>2. CASE ~msg.readonly
    <3>1. msg' = MSG_Clear(msg) /\ msg.splitsize = 0 /\ DOMAIN msg = Parts /\ msg.maxsize \in Nat
          /\ Whole(msg.splitdata)
      BY <2>2 DEF Clear, MsgInv, Good, Fits
    <3>2. /\ DOMAIN msg' = Parts /\ msg'.data = << >> /\ msg'.cursize = 0 /\ msg'.bit = 0
          /\ msg'.readcount = 0 /\ msg'.splitsize = 0 /\ msg'.maxsize = msg.maxsize
          /\ msg'.splitdata = msg.splitdata
      BY <3>1 DEF MSG_Clear, Parts
    <3>3. << >> \in Seq(Byte) /\ Len(<< >>) = 0
      OBVIOUS
    <3> QED BY <3>1, <3>2, <3>3 DEF Writable, Good, Fits, Whole
  <2> QED BY <2>1, <2>2
<1>2. log' \in Seq(Inputs)
  BY DEF Clear
<1> QED BY <1>1, <1>2 DEF Clear, MsgInv, Writable

LEMMA BeginReadingKeeps ==
  ASSUME MsgInv, BeginReading
  PROVE  MsgInv'
<1>1. DOMAIN msg = Parts /\ phase # "discarded"
  BY DEF MsgInv, Good, BeginReading
<1>2. /\ DOMAIN msg' = Parts /\ msg'.data = msg.data /\ msg'.cursize = msg.cursize /\ msg'.bit = 0
      /\ msg'.readcount = 0 /\ msg'.splitsize = msg.splitsize /\ msg'.maxsize = msg.maxsize
      /\ msg'.readonly = msg.readonly /\ msg'.splitdata = msg.splitdata
  BY <1>1 DEF BeginReading, MSG_BeginReading, Parts
<1>3. Good(msg')
  BY <1>2 DEF MsgInv, Good, Fits
<1> QED BY <1>1, <1>2, <1>3 DEF BeginReading, MsgInv

LEMMA ReceiveKeeps ==
  ASSUME MsgInv, Receive
  PROVE  MsgInv'
<1>1. msg.data \in Seq(Byte)
  BY DEF MsgInv, Good, Whole
<1>2. Len(msg.data) = msg.cursize /\ msg.cursize \in Nat /\ phase = "writing"
  BY DEF MsgInv, Receive, Good, Fits
<1>3. CASE msg' = MSG_InitReadOnly(msg.data)
  <2>1. /\ DOMAIN msg' = Parts /\ msg'.data = msg.data /\ msg'.cursize = Len(msg.data) /\ msg'.bit = 0
        /\ msg'.readcount = 0 /\ msg'.splitsize = 0 /\ msg'.maxsize = Len(msg.data)
        /\ msg'.readonly = TRUE /\ msg'.splitdata = << >>
    BY <1>3 DEF MSG_InitReadOnly, MSG_Init, Parts
  <2>2. Good(msg')
    <3>1. << >> \in Seq(Byte)
      OBVIOUS
    <3> QED BY <1>1, <1>2, <2>1, <3>1 DEF Good, Fits, Whole
  <2> QED BY <1>2, <2>1, <2>2 DEF Receive, MsgInv
<1>4. ASSUME NEW k \in 0 .. msg.cursize,
             msg' = MSG_InitReadOnlySplit(MSG_Init(0), SubSeq(msg.data, 1, k),
                                          SubSeq(msg.data, k + 1, msg.cursize))
      PROVE  MsgInv'
  <2> DEFINE a == SubSeq(msg.data, 1, k)
             b == SubSeq(msg.data, k + 1, msg.cursize)
  <2>1. a \in Seq(Byte) /\ b \in Seq(Byte) /\ Len(a) = k /\ Len(b) \in Nat
    BY <1>1, <1>2
  <2> HIDE DEF a, b
  <2>2. msg' = MSG_InitReadOnlySplit(MSG_Init(0), a, b)
    BY <1>4 DEF a, b
  <2>3. /\ DOMAIN msg' = Parts /\ msg'.data = a /\ msg'.cursize = Len(a) /\ msg'.bit = 0
        /\ msg'.readcount = 0 /\ msg'.splitsize = Len(b) /\ msg'.maxsize = Len(a) + Len(b)
        /\ msg'.readonly = TRUE /\ msg'.splitdata = b
    BY <2>2 DEF MSG_InitReadOnlySplit, MSG_Init, Parts
  <2>4. Good(msg')
    BY <2>1, <2>3 DEF Good, Fits, Whole
  <2> QED BY <2>1, <2>3, <2>4, <1>2 DEF Receive, MsgInv
<1> QED BY <1>3, <1>4 DEF Receive

LEMMA ReadingKeeps ==
  ASSUME MsgInv, phase # "writing", Kept(msg, msg'), phase' = phase, log' = log, next' \in Nat \ {0}
  PROVE  MsgInv'
BY DEF MsgInv, Kept, Readable

LEMMA ReadKeeps ==
  ASSUME MsgInv, Read
  PROVE  MsgInv'
<1>1. log[next] \in Inputs
  BY DEF MsgInv, Read
<1>2. Readable(msg) /\ msg' = ReadAs(msg, log[next]).msg
  BY DEF Read, MsgInv, Readable
<1>3. Kept(msg, msg')
  BY <1>1, <1>2, ReadsKeep
<1>4. next' \in Nat \ {0}
  BY DEF MsgInv, Read
<1> QED BY <1>3, <1>4, ReadingKeeps DEF Read

LEMMA ReadOnKeeps ==
  ASSUME MsgInv, ReadOn
  PROVE  MsgInv'
<1>1. PICK in \in Inputs : msg' = ReadAs(msg, in).msg
  BY DEF ReadOn
<1>2. phase # "writing"
  BY DEF ReadOn
<1>3. Kept(msg, msg')
  BY <1>1, <1>2, ReadsKeep DEF MsgInv, Readable
<1> QED BY <1>2, <1>3, ReadingKeeps DEF ReadOn, MsgInv

LEMMA DiscardKeeps ==
  ASSUME MsgInv, Discard
  PROVE  MsgInv'
<1>1. /\ DOMAIN msg = Parts /\ msg.readcount \in Nat /\ msg.cursize \in Nat /\ msg.bit \in Nat
      /\ msg.readcount <= msg.cursize /\ msg.bit <= 8 * msg.readcount
      /\ msg.maxsize \in Nat /\ msg.cursize <= msg.maxsize
      /\ Len(msg.data) \in Nat /\ msg.cursize <= Len(msg.data)
  BY DEF MsgInv, Discard, Good, Fits, Whole
<1>2. /\ DOMAIN msg' = Parts /\ msg'.data = msg.data /\ msg'.cursize = msg.readcount
      /\ msg'.bit = msg.bit /\ msg'.readcount = msg.readcount /\ msg'.splitsize = 0
      /\ msg'.maxsize = msg.maxsize /\ msg'.readonly = msg.readonly
      /\ msg'.splitdata = msg.splitdata
  BY <1>1 DEF Discard, MSG_Discard, Parts
<1>3. Good(msg')
  BY <1>1, <1>2 DEF MsgInv, Good, Fits
<1> QED BY <1>1, <1>2, <1>3 DEF Discard, MsgInv

LEMMA NextMsgInv == MsgInv /\ [Next]_vars => MsgInv'
<1> SUFFICES ASSUME MsgInv, [Next]_vars PROVE MsgInv'
  OBVIOUS
<1>1. CASE Write
  BY <1>1, WriteKeeps
<1>2. CASE Clear
  BY <1>2, ClearKeeps
<1>3. CASE BeginReading
  BY <1>3, BeginReadingKeeps
<1>4. CASE Receive
  BY <1>4, ReceiveKeeps
<1>5. CASE Read
  BY <1>5, ReadKeeps
<1>6. CASE ReadOn
  BY <1>6, ReadOnKeeps
<1>7. CASE Discard
  BY <1>7, DiscardKeeps
<1>8. CASE UNCHANGED vars
  BY <1>8 DEF vars, MsgInv
<1> QED BY <1>1, <1>2, <1>3, <1>4, <1>5, <1>6, <1>7, <1>8 DEF Next

\* The writers and readers of src/msg.c never go beyond the buffer of the message:
\* whatever is written and read, in whichever order, in one piece or in two.
THEOREM FitsItsBuffer == Spec => []MessageFits
<1>1. MsgInv => MessageFits
  BY DEF MsgInv, Good, MessageFits
<1> QED BY <1>1, InitMsgInv, NextMsgInv, PTL DEF Spec
=============================================================================
