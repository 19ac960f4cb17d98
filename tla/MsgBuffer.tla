------------------------------ MODULE MsgBuffer ------------------------------
(***************************************************************************)
(* The message buffers of src/msg.c.  A message is the record of the       *)
(* fields of msg_t; data and splitdata hold the bytes behind the pointers, *)
(* data those up to cursize.  A number is the bytes it has in memory.      *)
(* The loops over bytes and bits are given by what they leave behind.      *)
(***************************************************************************)
EXTENDS Integers, Sequences
LOCAL INSTANCE FiniteSetsExt

CONSTANTS
    MaxSize,        \* the size of the buffer
    MaxString,      \* MAX_STRING_CHARS
    Inputs,         \* what may be written: [op, v], v being a tuple
    MaxWrites       \* bound on the writes between two clears

ASSUME SizesAssumption == MaxSize \in Nat /\ MaxString \in Nat \ {0, 1} /\ MaxWrites \in Nat

\* A value is a tuple of bytes, or the one number n bits of which are written: all
\* 32 of an int at most, which MSG_WriteBits relies on without a check.
Byte == 0 .. 255
ASSUME InputsAssumption ==
    \A in \in Inputs :
      /\ in.op \in {"byte", "short", "long", "int64", "data", "string", "line", "base64", "bits", "bit"}
      /\ IF in.op = "bits" THEN in.n \in 0 .. 32 /\ in.v \in [1 .. 1 -> Nat] ELSE in.v \in Seq(Byte)

VARIABLES
    msg,
    log,            \* what was written without an overflow
    phase,          \* "writing", "reading", "discarded"
    next,           \* the place in log that is read next
    result          \* the last value read, and the one that was written or how it was read
vars == <<msg, log, phase, next, result>>

Less(x, y)    == IF x < y THEN x ELSE y
Ceil(n, d)    == (n + d - 1) \div d
Cut(s, n)     == SubSeq(s, 1, Less(Len(s), n))

\* An int shifted to the right by 0 .. 32, its bits, and the one with the bits B,
\* put together from the highest bit on.
Shifted(b)    == LET s[k \in 0 .. 32] == IF k = 0 THEN b ELSE s[k - 1] \div 2 IN s
Bit(b, k)     == Shifted(b)[k] % 2
OfBits(B)     == LET o[k \in 0 .. 32] == IF k = 0 THEN 0 ELSE 2 * o[k - 1] + (IF 32 - k \in B THEN 1 ELSE 0)
                 IN  o[32]
----------------------------------------------------------------------------
MSG_Init(length) ==
    [data |-> <<>>, maxsize |-> length, cursize |-> 0, overflowed |-> FALSE, readonly |-> FALSE,
     splitdata |-> <<>>, splitsize |-> 0, readcount |-> 0, bit |-> 0]

MSG_InitReadOnly(data) ==
    [MSG_Init(Len(data)) EXCEPT !.data = data, !.cursize = Len(data), !.readonly = TRUE]

\* overflowed and bit keep their values.
MSG_InitReadOnlySplit(m, data, split) ==
    [m EXCEPT !.data = data, !.cursize = Len(data), !.readonly = TRUE, !.splitdata = split,
              !.maxsize = Len(data) + Len(split), !.splitsize = Len(split), !.readcount = 0]

\* Of a message that is not read-only; the others are a fatal error.
MSG_Clear(m) == [m EXCEPT !.data = <<>>, !.cursize = 0, !.overflowed = FALSE, !.bit = 0, !.readcount = 0]

MSG_BeginReading(m) == [m EXCEPT !.overflowed = FALSE, !.readcount = 0, !.bit = 0]

MSG_Discard(m) == [m EXCEPT !.cursize = m.readcount, !.splitsize = 0, !.overflowed = TRUE]

MSG_GetUsedBitCount(m) == (m.cursize + m.splitsize) * 8 - ((8 - m.bit) % 8)
----------------------------------------------------------------------------
(* Writing.  A number is written as a whole or not at all, data as far as   *)
(* there is room.                                                           *)

WithBytes(m, bytes) == [m EXCEPT !.data = m.data \o bytes, !.cursize = m.cursize + Len(bytes)]
Overflow(m)         == [m EXCEPT !.overflowed = TRUE]
Room(m)             == m.maxsize - m.cursize

Number(m, bytes) == IF Room(m) < Len(bytes) THEN Overflow(m) ELSE WithBytes(m, bytes)
MSG_WriteByte(m, c)   == Number(m, c)
MSG_WriteShort(m, c)  == Number(m, c)
MSG_WriteLong(m, c)   == Number(m, c)
MSG_WriteInt64(m, c)  == Number(m, c)
MSG_WriteVector(m, c) == Number(m, c)

MSG_WriteData(m, data) ==
    LET fit == WithBytes(m, Cut(data, Room(m)))
    IN  IF Room(m) < Len(data) THEN Overflow(fit) ELSE fit

\* A text with its zero; one that is too long is written as an empty one.
MSG_WriteString(m, s)    == MSG_WriteData(m, IF Len(s) >= MaxString THEN <<0>> ELSE Append(s, 0))
BIG_INFO_STRING == 8192
MSG_WriteBigString(m, s) == MSG_WriteData(m, IF Len(s) >= BIG_INFO_STRING THEN <<0>> ELSE Append(s, 0))

\* Bits go into the rest of the byte that bit b points into, then into bytes that
\* are added at the end.  Place is where bit number i goes, in bits.
Rest(b)           == (8 - (b % 8)) % 8

\* (variant) The place of the next bit not taken to the start of the new byte.
PlaceInOldByte(b, i, from) == b + i

Place(b, i, from) == IF i < Rest(b) THEN b + i ELSE 8 * from + (i - Rest(b))
NewBytes(b, n)    == IF n <= Rest(b) THEN 0 ELSE Ceil(n - Rest(b), 8)
BitAfter(b, n, from) == IF n = 0 THEN b ELSE Place(b, n - 1, from) + 1

WithBits(m, bits, n) ==
    LET size == m.cursize + NewBytes(m.bit, n)
        Old(j) == IF j <= Len(m.data) THEN m.data[j] ELSE 0
        Set(j, k) == \/ Bit(Old(j), k) = 1
                     \/ \E i \in 0 .. n - 1 : Bit(bits, i) = 1 /\ Place(m.bit, i, m.cursize) = 8 * (j - 1) + k
    IN  [m EXCEPT !.data = [j \in 1 .. size |-> OfBits({k \in 0 .. 7 : Set(j, k)})],
                  !.cursize = size, !.bit = BitAfter(m.bit, n, m.cursize)]

\* (variant) The check for room left out.
WriteBitsUnchecked(m, bits, n) == WithBits(m, bits, n)

MSG_WriteBits(m, bits, n) == IF Room(m) < 4 THEN Overflow(m) ELSE WithBits(m, bits, n)
WriteBit(m, b) == IF m.bit % 8 = 0 /\ Room(m) <= 0 THEN Overflow(m) ELSE WithBits(m, b, 1)
MSG_WriteBit0(m) == WriteBit(m, 0)
MSG_WriteBit1(m) == WriteBit(m, 1)

\* Three bytes are four characters; what is missing of the last three is marked
\* by '=' over the end of what was written.  Characters go by their values here,
\* 64 being the '='.
Sextet(bytes, i) == ((bytes[1] * 65536 + bytes[2] * 256 + bytes[3]) \div <<262144, 4096, 64, 1>>[i]) % 64
MSG_WriteBase64(m, inbuf) ==
    LET len    == Len(inbuf)
        At(i)  == IF i <= len THEN inbuf[i] ELSE 0
        Group(b) == <<At(3 * b + 1), At(3 * b + 2), At(3 * b + 3)>>
        groups == Less(Ceil(len, 3), Room(m) \div 4)
        chars  == [c \in 1 .. 4 * groups |-> Sextet(Group((c - 1) \div 4), ((c - 1) % 4) + 1)]
        size   == m.cursize + 4 * groups
        equals == IF len = 0 THEN 3 ELSE (3 - (len % 3)) % 3
        marked == [j \in 1 .. size |-> IF j > size - equals THEN 64 ELSE (m.data \o chars)[j]]
    IN  [m EXCEPT !.data = IF size < 3 THEN m.data \o chars ELSE marked, !.cursize = size,
                  !.overflowed = m.overflowed \/ groups < Ceil(len, 3)]
----------------------------------------------------------------------------
(* Reading.  A read is the message after it and the value, -1 for no value.  *)

None == <<-1>>
Unread(m) == SubSeq(m.data, m.readcount + 1, m.cursize)
Advance(m, n) == [m EXCEPT !.readcount = m.readcount + n]
Upto(m, P(_)) == LET R == Unread(m) IN Min({i \in 1 .. Len(R) : P(R[i])} \cup {Len(R) + 1})

ReadNumber(m, width) ==
    IF m.readcount + width > m.cursize THEN [msg |-> Overflow(m), value |-> None]
    ELSE [msg |-> Advance(m, width), value |-> Cut(Unread(m), width)]
MSG_ReadByte(m)  == ReadNumber(m, 1)
MSG_ReadShort(m) == ReadNumber(m, 2)
MSG_ReadLong(m)  == ReadNumber(m, 4)
MSG_ReadInt64(m) == ReadNumber(m, 8)

\* Byte by byte: what is missing is -1 as a byte.
MSG_ReadData(m, len) ==
    LET n == Less(len, Len(Unread(m)))
        r == Advance(m, n)
    IN  [msg |-> IF n < len THEN Overflow(r) ELSE r,
         value |-> [i \in 1 .. len |-> IF i <= n THEN Unread(m)[i] ELSE 255]]

Percent == 37
Newline == 10
Harmless(s) == [i \in DOMAIN s |-> IF s[i] = Percent THEN 46 ELSE s[i]]      \* '%' as '.'

\* The zero is read even if the text before it does not fit into len.
MSG_ReadString(m, len) ==
    LET z == Upto(m, LAMBDA c : c = 0)
        r == Advance(m, Less(z, Len(Unread(m))))
    IN  [msg |-> IF z > Len(Unread(m)) THEN Overflow(r) ELSE r,
         value |-> Cut(Harmless(SubSeq(Unread(m), 1, z - 1)), len - 1)]

\* The end of the line is left where it is if the text before it does not fit.
MSG_ReadStringLine(m, len) ==
    LET z == Upto(m, LAMBDA c : c \in {0, Newline})
        r == Advance(m, Less(z, Less(len - 1, Len(Unread(m)))))
    IN  [msg |-> IF z > Len(Unread(m)) /\ Len(Unread(m)) < len - 1 THEN Overflow(r) ELSE r,
         value |-> Cut(Harmless(SubSeq(Unread(m), 1, z - 1)), len - 1)]

\* Bits of the rest of a byte, then of the bytes from readcount on, those of
\* splitdata after those of data.
BitAt(m, p) ==
    LET j == p \div 8 + 1
    IN  IF j <= m.cursize THEN Bit(m.data[j], p % 8) ELSE Bit(m.splitdata[j - m.cursize], p % 8)
MSG_ReadBits(m, n) ==
    LET end == m.cursize + m.splitsize
        readcount == m.readcount + NewBytes(m.bit, n)
        bits == {i \in 0 .. n - 1 : BitAt(m, Place(m.bit, i, m.readcount)) = 1}
    IN  IF readcount > end
        THEN [msg |-> [Overflow(m) EXCEPT !.readcount = end,
                           !.bit = IF m.readcount < end THEN 8 * end ELSE m.bit + Rest(m.bit)], value |-> None]
        ELSE [msg |-> [m EXCEPT !.readcount = readcount, !.bit = BitAfter(m.bit, n, m.readcount)],
              value |-> <<OfBits(bits)>>]
MSG_ReadBit(m) == MSG_ReadBits(m, 1)

\* Groups of four characters until one is none of base64's or until fewer than
\* four bytes of the len are left.
MSG_ReadBase64(m, len) ==
    LET groups == IF len <= 7 THEN 1 ELSE Ceil(len - 4, 3)
        bad    == Upto(m, LAMBDA c : c \notin 0 .. 63)
        whole  == bad > 4 * groups
        Char(i) == IF i < bad THEN Unread(m)[i] ELSE 0
        Bits(g) == Char(4*g + 1) * 262144 + Char(4*g + 2) * 4096 + Char(4*g + 3) * 64 + Char(4*g + 4)
        r      == Advance(m, Less(IF whole THEN 4 * groups ELSE bad, Len(Unread(m))))
    IN  [msg |-> IF ~whole /\ bad > Len(Unread(m)) THEN Overflow(r) ELSE r,
         value |-> [i \in 1 .. 3 * (IF whole THEN groups ELSE (bad - 1) \div 4 + 1) |->
                        (Bits((i - 1) \div 3) \div <<65536, 256, 1>>[((i - 1) % 3) + 1]) % 256]]
----------------------------------------------------------------------------
(* A message is written, and then read in the order it was written in.  One *)
(* that has overflowed is cleared or discarded.                             *)

Written(m, in) ==
    CASE in.op = "byte"   -> MSG_WriteByte(m, in.v)   [] in.op = "short" -> MSG_WriteShort(m, in.v)
      [] in.op = "long"   -> MSG_WriteLong(m, in.v)   [] in.op = "int64" -> MSG_WriteInt64(m, in.v)
      [] in.op = "data"   -> MSG_WriteData(m, in.v)   [] in.op = "string" -> MSG_WriteString(m, in.v)
      [] in.op = "line"   -> MSG_WriteData(m, Append(in.v, Newline))
      [] in.op = "base64" -> MSG_WriteBase64(m, in.v)
      [] in.op = "bits"   -> MSG_WriteBits(m, in.v[1], in.n)
      [] in.op = "bit"    -> IF in.v = <<0>> THEN MSG_WriteBit0(m) ELSE MSG_WriteBit1(m)

ReadAs(m, in) ==
    CASE in.op = "byte"   -> MSG_ReadByte(m)          [] in.op = "short" -> MSG_ReadShort(m)
      [] in.op = "long"   -> MSG_ReadLong(m)          [] in.op = "int64" -> MSG_ReadInt64(m)
      [] in.op = "data"   -> MSG_ReadData(m, Len(in.v)) [] in.op = "string" -> MSG_ReadString(m, MaxString)
      [] in.op = "line"   -> MSG_ReadStringLine(m, Len(in.v) + 2)
      [] in.op = "base64" -> MSG_ReadBase64(m, Len(in.v) + 4)
      [] in.op = "bits"   -> MSG_ReadBits(m, in.n)
      [] in.op = "bit"    -> MSG_ReadBit(m)

NoResult == [got |-> <<>>, want |-> <<>>, op |-> "none"]

Init ==
    /\ msg = MSG_Init(MaxSize) /\ log = <<>>
    /\ phase = "writing" /\ next = 1 /\ result = NoResult

Write ==
    /\ phase = "writing" /\ Len(log) < MaxWrites /\ ~msg.overflowed
    /\ \E in \in Inputs :
          /\ msg' = Written(msg, in)
          /\ log' = IF msg'.overflowed THEN log ELSE Append(log, in)
    /\ UNCHANGED <<phase, next, result>>

\* The next message; a read-only one cannot be cleared.
Clear ==
    /\ msg # MSG_Init(MaxSize)
    /\ msg' = (IF msg.readonly THEN MSG_Init(MaxSize) ELSE MSG_Clear(msg))
    /\ log' = <<>> /\ phase' = "writing" /\ next' = 1 /\ result' = NoResult

\* Also once more from the start, whatever was read before.
BeginReading ==
    /\ phase = "reading" \/ (phase = "writing" /\ ~msg.overflowed)
    /\ msg' = MSG_BeginReading(msg) /\ phase' = "reading" /\ next' = 1 /\ result' = NoResult
    /\ UNCHANGED log

\* A reader that got the bytes from elsewhere, in one piece or, when they are
\* read bit by bit, in two.
Receive ==
    /\ phase = "writing" /\ ~msg.overflowed
    /\ \/ msg' = MSG_InitReadOnly(msg.data)
       \/ /\ \A i \in DOMAIN log : log[i].op \in {"bit", "bits"}
          /\ \E k \in 0 .. msg.cursize :
                msg' = MSG_InitReadOnlySplit(MSG_Init(0), SubSeq(msg.data, 1, k),
                                             SubSeq(msg.data, k + 1, msg.cursize))
    /\ phase' = "reading"
    /\ UNCHANGED <<log, next, result>>

Read ==
    /\ phase = "reading" /\ next <= Len(log)
    /\ LET r == ReadAs(msg, log[next])
       IN  msg' = r.msg /\ result' = [got |-> r.value, want |-> log[next].v, op |-> log[next].op]
    /\ next' = next + 1
    /\ UNCHANGED <<log, phase>>

\* A read of what was not written.
ReadOn ==
    /\ result.op # "past"
    /\ \/ phase = "discarded"
       \/ phase = "reading" /\ next > Len(log) /\ ~msg.overflowed
    /\ \E in \in Inputs :
          LET r == ReadAs(msg, in)
          IN  /\ msg' = r.msg
              /\ result' = [got |-> r.value, as |-> in, op |-> "past"]
    /\ UNCHANGED <<log, phase, next>>

\* Of a message in one piece.
Discard ==
    /\ phase = "reading" /\ msg.splitsize = 0
    /\ msg' = MSG_Discard(msg) /\ phase' = "discarded" /\ result' = NoResult
    /\ UNCHANGED <<log, next>>

Next == Write \/ Clear \/ BeginReading \/ Receive \/ Read \/ ReadOn \/ Discard
Spec == Init /\ [][Next]_vars
----------------------------------------------------------------------------
(* Properties.                                                             *)

\* A message stays within its buffer: no write goes beyond maxsize, no read
\* beyond what was written, however bits and bytes are mixed.
Fits(m) ==
    /\ m.maxsize \in Nat /\ m.cursize \in 0 .. m.maxsize
    /\ m.splitsize \in Nat /\ m.cursize + m.splitsize <= m.maxsize
    /\ m.readcount \in 0 .. m.cursize + m.splitsize
    /\ m.bit \in 0 .. 8 * (m.cursize + m.splitsize)
MessageFits ==
    /\ Fits(msg)
    /\ phase # "discarded" => Len(msg.data) = msg.cursize

\* What can be read back: a number or a text of the size it is read with, a text
\* without the zero or newline that ends it and without '%', a number that has no
\* more than its bits, and of base64 all but that which ends in two '=', one of
\* which MSG_ReadBase64 leaves behind.
Width == [byte |-> 1, short |-> 2, long |-> 4, int64 |-> 8]
Legible(in) ==
    CASE in.op \in DOMAIN Width -> Len(in.v) = Width[in.op]
      [] in.op = "data"   -> TRUE
      [] in.op = "string" -> Len(in.v) < MaxString /\ \A i \in DOMAIN in.v : in.v[i] \notin {0, Percent}
      [] in.op = "line"   -> \A i \in DOMAIN in.v : in.v[i] \notin {0, Newline, Percent}
      [] in.op = "base64" -> in.v # <<>> /\ Len(in.v) % 3 # 1
      [] in.op = "bits"   -> Shifted(in.v[1])[in.n] = 0
      [] in.op = "bit"    -> in.v \in {<<0>>, <<1>>}

\* What a read gives where no byte is left.
Nothing(in) ==
    CASE in.op = "data"               -> [i \in DOMAIN in.v |-> 255]
      [] in.op \in {"string", "line"} -> <<>>
      [] in.op = "base64"             -> <<0, 0, 0>>
      [] OTHER                        -> None

\* Each read in the order of the writes gives what was written, also when bits
\* share a byte around other writes and when the bytes come in two pieces; the
\* bits in use are those that were written.  A read after all of that, or after a
\* discard, gives what Nothing says and overflows, if it asks for a byte at all.
\* The exception are up to seven bits, which are taken from what is left of a byte
\* that was begun: zeros at the end of the message, anything after a discard.
IsBits(in) == in.op \in {"bit", "bits"}
BitsIn(in) == IF in.op = "bit" THEN 1 ELSE in.n
BitsWritten(l) == LET w[i \in 0 .. Len(l)] == IF i = 0 THEN 0 ELSE w[i - 1] + BitsIn(l[i]) IN w[Len(l)]
FindsNothing(in, got) ==
    \/ got = Nothing(in) /\ (msg.overflowed \/ (in.op = "data" /\ in.v = <<>>))
    \/ IsBits(in) /\ BitsIn(in) < 8 /\ (phase = "reading" => got = <<0>>)
ReadsWhatWasWritten ==
    /\ (\A i \in DOMAIN log : Legible(log[i])) =>
         /\ result.op \notin {"none", "past", "base64"} => result.got = result.want
         /\ result.op = "base64" => Cut(result.got, Len(result.want)) = result.want
    /\ result.op = "past" =>
         /\ phase = "discarded" \/ (\A i \in DOMAIN log : Legible(log[i])) => FindsNothing(result.as, result.got)
         /\ result.got = None => msg.overflowed
    /\ (phase = "writing" /\ ~msg.overflowed /\ \A i \in DOMAIN log : IsBits(log[i])) =>
         MSG_GetUsedBitCount(msg) = BitsWritten(log)
============================================================================
