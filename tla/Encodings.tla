----------------------------- MODULE Encodings ------------------------------
(***************************************************************************)
(* Base64 and DER (src/tomcrypt/misc/base64, src/tomcrypt/pk/asn1/der), in *)
(* which the update's public key and the signatures are written.  A text   *)
(* and an encoding are sequences of octets, an element is [type, value].   *)
(* A decoder returns <<what it read>>, or Invalid; an encoder an encoding, *)
(* or NotEncoded; a length is that of a whole encoding, 0 if there is none.*)
(* That an output buffer is large enough, which every encoder tests first, *)
(* is left to the callers.                                                 *)
(***************************************************************************)
EXTENDS Integers, Sequences
LOCAL INSTANCE SequencesExt
LOCAL INSTANCE FiniteSetsExt
LOCAL INSTANCE TLC

Invalid    == << >>
NotEncoded == <<-1>>

RECURSIVE Octets(_)
Octets(n)      == IF n = 0 THEN << >> ELSE Append(Octets(n \div 256), n % 256)
ValueOf(s)     == FoldLeft(LAMBDA n, c : 256 * n + c, 0, s)
OctetAt(s, i)  == IF i \in 1 .. Len(s) THEN s[i] ELSE 0
Code(s)        == [c \in ToSet(s) |-> CHOOSE i \in 1 .. Len(s) : s[i] = c]
----------------------------------------------------------------------------
(* Base64.                                                                 *)

equals    == 61
Codes     == [i \in 1 .. 64 |-> IF i <= 26 THEN i + 64 ELSE IF i <= 52 THEN i + 70 ELSE IF i <= 62 THEN i - 5
                                ELSE IF i = 63 THEN 43 ELSE 47]
Sextets(t) == [i \in 1 .. (Len(t) \div 3) * 4 |->
                 LET three == ValueOf(SubSeq(t, 3 * ((i - 1) \div 4) + 1, 3 * ((i - 1) \div 4) + 3))
                 IN  (three \div 64^(3 - ((i - 1) % 4))) % 64]

base64_encode(in) ==
    LET odd    == Len(in) % 3
        padded == in \o (CASE odd = 0 -> << >> [] odd = 1 -> <<0, 0>> [] odd = 2 -> <<0>>)
        text   == [i \in DOMAIN Sextets(padded) |-> Codes[Sextets(padded)[i] + 1]]
    IN  IF odd = 0 THEN text ELSE SubSeq(text, 1, Len(text) - (3 - odd)) \o [i \in 1 .. 3 - odd |-> equals]

\* One character: others than the 64 and '=' are passed over; after the first
\* '=' there may only be more of them; four make up to three octets, g in all.
Read64(s, c, outlen) ==
    IF ~s.ok \/ (c # equals /\ c \notin ToSet(Codes)) THEN s
    ELSE LET pad == c = equals
             g   == IF pad THEN s.g - 1 ELSE s.g
             y   == Append(s.y, IF pad THEN 0 ELSE Code(Codes)[c] - 1)
             t   == FoldLeft(LAMBDA n, d : 64 * n + d, 0, y)
             out == s.out \o SubSeq(<<t \div 65536, (t \div 256) % 256, t % 256>>, 1, Max({g, 1}))
         IN  [ok  |-> g >= 0 /\ (pad \/ g = 3) /\ (Len(y) = 4 => Len(s.out) + g <= outlen), g |-> g,
              y   |-> IF Len(y) = 4 THEN << >> ELSE y, out |-> IF Len(y) = 4 /\ g >= 0 THEN out ELSE s.out]
base64_decode(in, outlen) ==
    LET end == FoldLeft(LAMBDA s, c : Read64(s, c, outlen), [ok |-> TRUE, g |-> 3, y |-> << >>, out |-> << >>], in)
    IN  IF end.ok /\ end.y = << >> THEN <<end.out>> ELSE Invalid

\* The text between the first line's end and the next '-' (PEM armour); of its
\* characters the printable ones up to 'z' are taken.
Sec_Pem2Der(pem, derlen) ==
    LET ends(line) == {i \in 1 .. Len(pem) : IsPrefix(line, SubSeq(pem, i, Len(pem)))}
        first == IF ends(<<45, 45, 10>>) # {} THEN ends(<<45, 45, 10>>) ELSE ends(<<45, 45, 13, 10>>)
        from  == Min({i \in Min(first) .. Len(pem) : pem[i] = 10})
        to    == Min({i \in from .. Len(pem) : pem[i] = 45} \cup {Len(pem) + 1})
    IN  IF first = {} THEN Invalid
        ELSE base64_decode(SelectSeq(SubSeq(pem, from, to - 1), LAMBDA c : c \in 33 .. 122), derlen)
----------------------------------------------------------------------------
(* Lengths.  An element is a tag, the number of its content's octets and   *)
(* the content; from 128 on the number is written in octets of its own.    *)

Header(n)        == IF n < 128 THEN <<n>> ELSE <<128 + Len(Octets(n))>> \o Octets(n)
Sized(n, octets) == IF n < 256^octets THEN 1 + Len(Header(n)) + n ELSE 0
Element(tag, content) == <<tag>> \o Header(Len(content)) \o content

\* The content of the element an input starts with, if it is all there and its
\* number is written in no more octets than the decoder allows.
Content(in, tag, octets) ==
    LET long == OctetAt(in, 2) >= 128
        y    == IF long THEN in[2] - 128 ELSE 0
        len  == IF long THEN ValueOf(SubSeq(in, 3, 2 + y)) ELSE in[2]
    IN  IF Len(in) < 2 \/ in[1] % 32 # tag % 32 THEN Invalid
        ELSE IF (long /\ y \notin 1 .. octets) \/ 2 + y > Len(in) THEN Invalid
        ELSE IF 2 + y + len > Len(in) THEN Invalid ELSE <<SubSeq(in, 3 + y, 2 + y + len)>>
----------------------------------------------------------------------------
(* The types of element, each with its length, encoder and decoder.        *)

der_length_boolean    == 3
der_encode_boolean(b) == <<1, 1, IF b THEN 255 ELSE 0>>
der_decode_boolean(in) ==
    IF Len(in) = 3 /\ SubSeq(in, 1, 2) = <<1, 1>> /\ in[3] \in {0, 255} THEN <<in[3] = 255>> ELSE Invalid

\* An integer is written in two's complement: one that is not negative and has
\* its highest bit set gets an octet 0 in front.  A negative one takes the
\* octets of its bits and a sign, but for -128, -32768 ... one less.
Magnitude(num)  == Octets(IF num < 0 THEN -num ELSE num)
BitsOf(num)     == IF num = 0 THEN 0 ELSE 8 * (Len(Magnitude(num)) - 1) + Min({k \in 1 .. 8 : Magnitude(num)[1] < 2^k})
OnlyBit(num)    == \E k \in 0 .. 30 : num \in {2^k, -(2^k)}
IntegerSize(num) ==
    IF num >= 0 THEN Len(Magnitude(num)) + (IF BitsOf(num) % 8 = 0 THEN 1 ELSE 0)
    ELSE ((BitsOf(num) + 8 - (BitsOf(num) % 8)) \div 8) - (IF OnlyBit(num) /\ BitsOf(num) % 8 = 0 THEN 1 ELSE 0)
IntegerContent(num) ==
    IF num < 0 THEN Octets(256^IntegerSize(num) + num)
    ELSE (IF BitsOf(num) % 8 = 0 THEN <<0>> ELSE << >>) \o Magnitude(num)
\* (variant) Without the octet 0 in front.
EncodeIntegerUnpadded(num) == Element(2, IF num < 0 THEN IntegerContent(num) ELSE Magnitude(num))

der_length_integer(num) == Sized(IntegerSize(num), 3)
der_encode_integer(num) == Element(2, IntegerContent(num))
der_decode_integer(in) ==
    LET c   == Content(in, 2, 4)
        num == ValueOf(c[1])
        neg == OctetAt(in, 3 + (IF in[2] >= 128 THEN in[2] - 128 ELSE 0)) >= 128
    IN  IF Len(in) < 3 \/ c = Invalid THEN Invalid ELSE <<IF neg THEN num - 2^BitsOf(num) ELSE num>>

ShortContent(num) ==
    LET s == IF num = 0 THEN <<0>> ELSE Octets(num) IN IF s[1] >= 128 THEN <<0>> \o s ELSE s
der_length_short_integer(num) == 2 + Len(ShortContent(num))
der_encode_short_integer(num) == <<2, Len(ShortContent(num))>> \o ShortContent(num)
der_decode_short_integer(in) ==
    IF Len(in) < 2 \/ in[1] % 32 # 2 \/ 2 + in[2] > Len(in) THEN Invalid ELSE <<ValueOf(SubSeq(in, 3, 2 + in[2]))>>

\* A bit string is an octet that tells how many bits of the last are unused,
\* then the bits, the highest of an octet first.
Packed(bits) == [i \in 1 .. (Len(bits) + 7) \div 8 |->
                   FoldLeft(LAMBDA n, y : 2 * n + (IF y <= Len(bits) THEN bits[y] ELSE 0), 0, [k \in 1 .. 8 |-> 8 * (i - 1) + k])]
der_length_bit_string(nbits) == Sized((nbits + 7) \div 8 + 1, 2)
der_encode_bit_string(bits)  == Element(3, <<(8 - (Len(bits) % 8)) % 8>> \o Packed(bits))
der_decode_bit_string(in, outlen) ==
    LET c    == Content(in, 3, 2)
        blen == 8 * (Len(c[1]) - 1) - (c[1][1] % 8)
    IN  IF Len(in) < 4 \/ c = Invalid THEN Invalid
        ELSE IF c[1] = << >> THEN Invalid
        ELSE IF blen \notin 0 .. outlen THEN Invalid       \* a negative one is beyond any outlen
        ELSE << [y \in 1 .. blen |-> (c[1][2 + (y - 1) \div 8] \div 2^(7 - ((y - 1) % 8))) % 2] >>

der_length_octet_string(n) == Sized(n, 3)
der_encode_octet_string(s) == Element(4, s)
Bounded(c, outlen) == IF c = Invalid THEN Invalid ELSE IF Len(c[1]) > outlen THEN Invalid ELSE c
der_decode_octet_string(in, outlen) == Bounded(Content(in, 4, 3), outlen)

\* Object identifiers: the first two words in one, each in groups of seven bits.
RECURSIVE Groups(_, _)
Groups(n, mark) == IF n = 0 THEN << >> ELSE Append(Groups(n \div 128, 128), (n % 128) + mark)
der_object_identifier_bits(x) == BitsOf(x)
WordSize(n)   == LET t == der_object_identifier_bits(n)
                 IN  t \div 7 + (IF t % 7 # 0 THEN 1 ELSE 0) + (IF n = 0 THEN 1 ELSE 0)
WordBuf(words) == <<words[1] * 40 + words[2]>> \o SubSeq(words, 3, Len(words))
Named(words)  == Len(words) >= 2 /\ words[1] <= 3 /\ (words[1] < 2 => words[2] <= 39)
der_length_object_identifier(words) ==
    IF Named(words) THEN Sized(FoldLeft(LAMBDA z, n : z + WordSize(n), 0, WordBuf(words)), 2) ELSE 0
der_encode_object_identifier(words) ==
    IF der_length_object_identifier(words) = 0 THEN NotEncoded
    ELSE Element(6, FlattenSeq([i \in 1 .. Len(words) - 1 |-> LET n == WordBuf(words)[i] IN IF n = 0 THEN <<0>> ELSE Groups(n, 0)]))
der_decode_object_identifier(in, outlen) ==
    LET c     == Content(in, 6, 2)
        step(s, o) == LET t == 128 * s.t + (o % 128)
                      IN  IF o >= 128 THEN [s EXCEPT !.t = t]
                          ELSE [t |-> 0, words |-> IF s.words = << >> THEN <<t \div 40, t % 40>> ELSE Append(s.words, t)]
        words == FoldLeft(step, [t |-> 0, words |-> << >>], c[1]).words
    IN  IF Len(in) < 3 \/ outlen < 2 \/ c = Invalid THEN Invalid
        ELSE IF c[1] = << >> \/ Len(words) > outlen THEN Invalid ELSE <<words>>
----------------------------------------------------------------------------
(* Texts.  Each alphabet is a table of which both columns are the same.    *)

Ia5       == {0} \cup (7 .. 10) \cup {12, 13} \cup (32 .. 126)
Printable == {32, 39, 40, 41, 61, 63} \cup (43 .. 58) \cup (65 .. 90) \cup (97 .. 122)
Written(s, alphabet) == ToSet(s) \subseteq alphabet
ReadText(in, tag, alphabet, outlen) ==
    LET c == Bounded(Content(in, tag, 3), outlen)
    IN  IF c = Invalid THEN Invalid ELSE IF Written(c[1], alphabet) THEN c ELSE Invalid

der_length_ia5_string(s) == IF Written(s, Ia5) THEN Sized(Len(s), 3) ELSE 0
der_encode_ia5_string(s) == IF Written(s, Ia5) THEN Element(22, s) ELSE NotEncoded
der_decode_ia5_string(in, outlen) == ReadText(in, 22, Ia5, outlen)
der_length_printable_string(s) == IF Written(s, Printable) THEN Sized(Len(s), 3) ELSE 0
der_encode_printable_string(s) == IF Written(s, Printable) THEN Element(19, s) ELSE NotEncoded
der_decode_printable_string(in, outlen) == ReadText(in, 19, Printable, outlen)

der_utf8_charsize(c) == IF c < 128 THEN 1 ELSE IF c < 2048 THEN 2 ELSE IF c < 65536 THEN 3 ELSE 4
Utf8Char(c) ==
    LET n == der_utf8_charsize(c)
    IN  [i \in 1 .. n |-> IF n = 1 THEN c ELSE IF i = 1 THEN 256 - 2^(8 - n) + c \div 64^(n - 1)
                          ELSE 128 + ((c \div 64^(n - i)) % 64)]
Utf8Size(s) == FoldLeft(LAMBDA n, c : n + der_utf8_charsize(c), 0, s)
der_length_utf8_string(s) == IF \E i \in DOMAIN s : s[i] > 1114111 THEN 0 ELSE Sized(Utf8Size(s), 3)
der_encode_utf8_string(s) ==
    IF \E i \in DOMAIN s : s[i] > 131071 THEN NotEncoded
    ELSE Element(12, FlattenSeq([i \in DOMAIN s |-> Utf8Char(s[i])]))

\* The decoder reads to the end of its input, not of the element.
RECURSIVE ReadUtf8(_, _, _)
ReadUtf8(in, x, got) ==
    LET ones == Max({k \in 0 .. 5 : k = 0 \/ in[x] >= 256 - 2^(8 - k)})
        more == IF ones > 1 THEN ones - 1 ELSE ones
        rest == [i \in 1 .. more |-> OctetAt(in, x + i)]
        char == FoldLeft(LAMBDA n, c : 64 * n + (c % 64), in[x] % 2^(8 - ones), rest)
    IN  IF x > Len(in) THEN <<got>>
        ELSE IF ones > 4 \/ x + ones - 1 > Len(in) \/ (\E i \in 1 .. more : rest[i] \notin 128 .. 191) THEN Invalid
        ELSE ReadUtf8(in, x + more + 1, Append(got, char))
der_decode_utf8_string(in, outlen) ==
    LET c == Content(in, 12, 3)
    IN  IF c = Invalid THEN Invalid
        ELSE LET s == ReadUtf8(in, IF in[2] < 128 THEN 3 ELSE 3 + in[2] - 128, << >>)
             IN  IF s = Invalid THEN Invalid ELSE IF Len(s[1]) > outlen + 1 THEN Invalid ELSE s

\* A time is two digits a field; the offset is written if there is one, and
\* seconds may be missing from what is read.
Digits2(n)  == <<48 + ((n \div 10) % 10), 48 + (n % 10)>>
Limits      == <<100, 13, 32, 24, 60, 60>>
der_length_utctime(t) == IF t.off_hh = 0 /\ t.off_mm = 0 THEN 15 ELSE 19
der_encode_utctime(t) ==
    Element(23, FlattenSeq([i \in 1 .. 6 |-> Digits2(t.fields[i])])
                \o (IF t.off_mm # 0 \/ t.off_hh # 0
                    THEN <<IF t.off_dir = 1 THEN 45 ELSE 43>> \o Digits2(t.off_hh) \o Digits2(t.off_mm) ELSE <<90>>))
Pair(s, i)      == LET d(k) == IF OctetAt(s, k) \in 48 .. 57 THEN s[k] - 48 ELSE 100 IN 10 * d(i) + d(i + 1)
Zone(s, x, fields) ==
    IF OctetAt(s, x) = 90 THEN << [fields |-> fields, off_dir |-> 0, off_hh |-> 0, off_mm |-> 0] >>
    ELSE IF OctetAt(s, x) \in {43, 45} /\ Pair(s, x + 1) < 24 /\ Pair(s, x + 3) < 60
    THEN << [fields |-> fields, off_dir |-> IF s[x] = 43 THEN 0 ELSE 1, off_hh |-> Pair(s, x + 1), off_mm |-> Pair(s, x + 3)] >>
    ELSE Invalid
der_decode_utctime(in) ==
    LET s      == SubSeq(in, 3, 2 + in[2])
        fields(n) == [i \in 1 .. 6 |-> IF i <= n THEN Pair(s, 2 * i - 1) ELSE 0]
        within(n) == \A i \in 1 .. n : Pair(s, 2 * i - 1) < Limits[i]
    IN  IF Len(in) < 2 \/ OctetAt(in, 2) >= 32 \/ OctetAt(in, 2) + 2 > Len(in) THEN Invalid
        ELSE IF ~Written(s, Ia5) \/ ~within(5) THEN Invalid
        ELSE IF OctetAt(s, 11) \in {90, 43, 45} THEN Zone(s, 11, fields(5))
        ELSE IF within(6) THEN Zone(s, 13, fields(6)) ELSE Invalid
=============================================================================
