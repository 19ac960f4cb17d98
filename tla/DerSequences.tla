---------------------------- MODULE DerSequences ----------------------------
(***************************************************************************)
(* Sequences, sets and choices of DER elements.  To encode, a list has     *)
(* items [type, value]; to decode, its items have in place of the value    *)
(* what may be read there: a size, for nested lists the list.              *)
(***************************************************************************)
EXTENDS Encodings
LOCAL INSTANCE SequencesExt
LOCAL INSTANCE FiniteSetsExt
LOCAL INSTANCE TLC

Nested     == {"sequence", "set", "setof"}
Tag(type)  == CASE type = "boolean" -> 1 [] type \in {"integer", "short"} -> 2 [] type = "bits" -> 3 [] type = "octets" -> 4
                [] type = "null" -> 5 [] type = "oid" -> 6 [] type = "utf8" -> 12 [] type = "printable" -> 19
                [] type = "ia5" -> 22 [] type = "utctime" -> 23 [] type = "sequence" -> 48 [] OTHER -> 49
Item(type, value) == [type |-> type, value |-> value]
Sum(s)     == FoldLeft(LAMBDA m, n : m + n, 0, s)

RECURSIVE der_length_sequence(_)
LengthOf(item) ==
    LET v == item.value  type == item.type
    IN  CASE type = "boolean"   -> der_length_boolean
          [] type = "integer"   -> der_length_integer(v)
          [] type = "short"     -> der_length_short_integer(v)
          [] type = "bits"      -> der_length_bit_string(Len(v))
          [] type = "octets"    -> der_length_octet_string(Len(v))
          [] type = "null"      -> 2
          [] type = "oid"       -> der_length_object_identifier(v)
          [] type = "ia5"       -> der_length_ia5_string(v)
          [] type = "printable" -> der_length_printable_string(v)
          [] type = "utf8"      -> der_length_utf8_string(v)
          [] type = "utctime"   -> der_length_utctime(v)
          [] type \in Nested    -> der_length_sequence(v)
Lengths(list) == [i \in DOMAIN list |-> LengthOf(list[i])]
der_length_sequence(list) == IF 0 \in ToSet(Lengths(list)) THEN 0 ELSE Sized(Sum(Lengths(list)), 3)
----------------------------------------------------------------------------
(* Encoding.  The octets of a list are counted before they are written.    *)

RECURSIVE der_encode_sequence_ex(_, _), der_encode_set(_), der_encode_setof(_)
Encoded(item) ==
    LET v == item.value  type == item.type
    IN  CASE type = "boolean"   -> der_encode_boolean(v)
          [] type = "integer"   -> der_encode_integer(v)
          [] type = "short"     -> der_encode_short_integer(v)
          [] type = "bits"      -> der_encode_bit_string(v)
          [] type = "octets"    -> der_encode_octet_string(v)
          [] type = "null"      -> <<5, 0>>
          [] type = "oid"       -> der_encode_object_identifier(v)
          [] type = "ia5"       -> der_encode_ia5_string(v)
          [] type = "printable" -> der_encode_printable_string(v)
          [] type = "utf8"      -> der_encode_utf8_string(v)
          [] type = "utctime"   -> der_encode_utctime(v)
          [] type = "set"       -> der_encode_set(v)
          [] type = "setof"     -> der_encode_setof(v)
          [] type = "sequence"  -> der_encode_sequence_ex(v, type)
der_encode_sequence_ex(list, type_of) ==
    LET parts == [i \in DOMAIN list |-> Encoded(list[i])]
    IN  IF der_length_sequence(list) = 0 \/ NotEncoded \in ToSet(parts) THEN NotEncoded
        ELSE <<Tag(type_of)>> \o Header(Sum(Lengths(list))) \o FlattenSeq(parts)
der_encode_sequence_multi(list) ==
    IF list = << >> \/ \E i \in DOMAIN list : list[i].type = "choice" THEN NotEncoded
    ELSE der_encode_sequence_ex(list, "sequence")

\* A set in the order of its items' tags, and of the list where they are equal.
der_encode_set(list) ==
    LET used   == [x \in DOMAIN list |-> [tag |-> Tag(list[x].type), at |-> x]]
        sorted == SortSeq(used, LAMBDA p, q : p.tag < q.tag \/ (p.tag = q.tag /\ p.at < q.at))
    IN  der_encode_sequence_ex([x \in DOMAIN list |-> list[sorted[x].at]], "set")

\* The items of a set of one type are told apart by their octets in the whole
\* encoding and put in their order, the shorter filled up with zeros.
HeaderEnd(s) == IF s[2] < 128 THEN 2 ELSE 2 + (s[2] % 128)
RECURSIVE Edges(_)
Edges(s) ==
    IF s = << >> THEN << >>
    ELSE LET size == HeaderEnd(s) + (IF s[2] < 128 THEN s[2] ELSE ValueOf(SubSeq(s, 3, HeaderEnd(s))))
         IN  <<SubSeq(s, 1, size)>> \o Edges(SubSeq(s, size + 1, Len(s)))
OctetsBefore(s, t) ==
    LET D == {i \in 1 .. Max({Len(s), Len(t)}) : OctetAt(s, i) # OctetAt(t, i)}
    IN  D # {} /\ OctetAt(s, Min(D)) < OctetAt(t, Min(D))
der_encode_setof(list) ==
    LET buf == der_encode_sequence_ex(list, "setof")
    IN  IF buf = NotEncoded \/ \E x \in 2 .. Len(list) : list[x].type # list[x - 1].type THEN NotEncoded
        ELSE SubSeq(buf, 1, HeaderEnd(buf))
                \o FlattenSeq(SortSeq(Edges(SubSeq(buf, HeaderEnd(buf) + 1, Len(buf))), OctetsBefore))
----------------------------------------------------------------------------
(* Decoding.  What has been read is as long as its encoding would be.      *)

RECURSIVE der_decode_sequence_ex(_, _, _), der_decode_choice(_, _)
Decoded(in, t) ==
    LET size == t.value  type == t.type
    IN  CASE type = "boolean"   -> der_decode_boolean(in)
          [] type = "integer"   -> der_decode_integer(in)
          [] type = "short"     -> der_decode_short_integer(in)
          [] type = "bits"      -> der_decode_bit_string(in, size)
          [] type = "octets"    -> der_decode_octet_string(in, size)
          [] type = "null"      -> IF Len(in) >= 2 /\ SubSeq(in, 1, 2) = <<5, 0>> THEN << <<>> >> ELSE Invalid
          [] type = "oid"       -> der_decode_object_identifier(in, size)
          [] type = "ia5"       -> der_decode_ia5_string(in, size)
          [] type = "printable" -> der_decode_printable_string(in, size)
          [] type = "utf8"      -> der_decode_utf8_string(in, size)
          [] type = "utctime"   -> der_decode_utctime(in)
          [] type = "choice"    -> der_decode_choice(in, size)
          [] type = "set"       -> der_decode_sequence_ex(in, size, FALSE)
          [] OTHER              -> IF OctetAt(in, 1) % 64 = Tag(type) THEN der_decode_sequence_ex(in, size, TRUE) ELSE Invalid
UsedBy(in, type, v) ==
    CASE type = "choice" -> v.used [] type = "utctime" -> 2 + in[2] [] OTHER -> LengthOf(Item(type, v))

\* The list item for what is next: the first that is open, in a set the first
\* that can be read; a boolean or a list that cannot ends the search at once.
Candidates(in, list, got, ordered) ==
    LET open == {i \in DOMAIN list : got[i] = Invalid}
        ends(i) == Decoded(in, list[i]) # Invalid \/ list[i].type \in {"boolean", "sequence", "setof"}
    IN  IF ordered THEN IF open = {} THEN {} ELSE {Min(open)} ELSE {i \in open : ends(i)}
RECURSIVE ReadItems(_, _, _, _)
ReadItems(in, list, got, ordered) ==
    LET next == Candidates(in, list, got, ordered)
        i    == Min(next)
        v    == Decoded(in, list[i])
    IN  IF next = {} THEN IF \E k \in DOMAIN got : got[k] = Invalid THEN Invalid ELSE <<[k \in DOMAIN got |-> Item(list[k].type, got[k][1])]>>
        ELSE IF v = Invalid THEN Invalid
        ELSE ReadItems(SubSeq(in, UsedBy(in, list[i].type, v[1]) + 1, Len(in)), list, [got EXCEPT ![i] = v], ordered)
der_decode_sequence_ex(in, list, ordered) ==
    LET c == IF OctetAt(in, 1) \in {48, 49} THEN Content(in, in[1], 3) ELSE Invalid
    IN  IF c = Invalid THEN Invalid ELSE ReadItems(c[1], list, [i \in DOMAIN list |-> Invalid], ordered)
der_decode_sequence_multi(in, list) ==
    IF list = << >> \/ \E i \in DOMAIN list : list[i].type = "choice" THEN Invalid
    ELSE der_decode_sequence_ex(in, list, TRUE)

\* The first of the types the input can be read as.  A short integer's length is
\* taken of the size in the list, not of the number; for a NULL the octets from
\* the alternative's own place on are looked at.
der_decode_choice(in, list) ==
    LET reads(x) == IF list[x].type = "null" THEN IF Len(in) = 2 /\ OctetAt(in, x) = 5 /\ OctetAt(in, x + 1) = 0 THEN << <<>> >> ELSE Invalid
                    ELSE IF list[x].type \in Nested THEN der_decode_sequence_ex(in, list[x].value, TRUE)
                    ELSE Decoded(in, list[x])
        can      == {x \in DOMAIN list : reads(x) # Invalid}
        first    == Min(can)
        v        == reads(first)[1]
    IN  IF Len(in) < 2 \/ can = {} THEN Invalid
        ELSE << [used  |-> IF list[first].type = "short" THEN der_length_short_integer(list[first].value) ELSE UsedBy(in, list[first].type, v),
                 index |-> first, value |-> v] >>

\* A list whose types are not known: each element by its tag.  It ends in front
\* of the first tag that is none of these; the elements must be whole.
TypeOf == [boolean |-> 1, integer |-> 2, bits |-> 3, octets |-> 4, null |-> 5, oid |-> 6, utf8 |-> 12, printable |-> 19,
           ia5 |-> 22, utctime |-> 23, sequence |-> 48, set |-> 49]
fetch_length(in) ==
    IF Len(in) < 2 THEN 0
    ELSE IF in[2] < 128 THEN 2 + in[2]
    ELSE IF in[2] % 128 \notin 1 .. Min({4, Len(in) - 2}) THEN 0
    ELSE HeaderEnd(in) + ValueOf(SubSeq(in, 3, HeaderEnd(in)))
RECURSIVE ReadFlexi(_, _, _)
ReadFlexi(in, items, totlen) ==
    LET types == {t \in DOMAIN TypeOf : in # << >> /\ TypeOf[t] = in[1]}
        type  == CHOOSE t \in types : TRUE
        len   == fetch_length(in)
        whole == len \in 1 .. Len(in)
        y     == IF in[2] > 128 THEN HeaderEnd(in) ELSE 2
        child == ReadFlexi(SubSeq(in, y + 1, len), << >>, 0)
        v     == Decoded(in, Item(type, IF type = "bits" THEN 8 * len ELSE len))
    IN  IF in = << >> \/ (types = {} /\ whole) THEN << [items |-> items, totlen |-> totlen] >>
        ELSE IF ~whole THEN Invalid
        ELSE LET got  == IF type \in Nested THEN child ELSE v
                 used == IF type \in Nested THEN y + child[1].totlen ELSE LengthOf(Item(type, v[1]))
                 item == Item(type, IF type \in Nested THEN child[1].items ELSE v[1])
             IN  IF got = Invalid THEN Invalid
                 ELSE ReadFlexi(SubSeq(in, used + 1, Len(in)), Append(items, item), totlen + used)
der_decode_sequence_flexi(in) == ReadFlexi(in, << >>, 0)
=============================================================================
