------------------------------- MODULE Strings -------------------------------
(***************************************************************************)
(* The text functions of src/qshared.c.  A text is the sequence of its     *)
(* bytes, without the terminating zero; what a function writes into is     *)
(* described by what it then holds and by the size of the buffer.  Wide    *)
(* characters differ from bytes in their number per buffer only.           *)
(***************************************************************************)
EXTENDS Integers, Sequences
LOCAL INSTANCE SequencesExt
LOCAL INSTANCE FiniteSetsExt

\* The bytes the functions treat specially.
Ch == [tab |-> 9, newline |-> 10, return |-> 13, space |-> 32, quote |-> 34, percent |-> 37,
       amp |-> 38, apos |-> 39, star |-> 42, plus |-> 43, comma |-> 44, minus |-> 45, dot |-> 46,
       slash |-> 47, zero |-> 48, colon |-> 58, semi |-> 59, less |-> 60, more |-> 62, at |-> 64,
       backslash |-> 92, caret |-> 94]

\* A NULL pointer, in the place of a text.
None == <<-1>>

At(s, i)       == IF i \in 1 .. Len(s) THEN s[i] ELSE 0      \* s[i - 1] of the C text
From(s, i)     == SubSeq(s, i, Len(s))
Places(s, C)   == {i \in 1 .. Len(s) : s[i] \in C}
First(s, C)    == Min(Places(s, C) \cup {Len(s) + 1})        \* strchr; beyond the end if none
Before(s, C)   == SubSeq(s, 1, First(s, C) - 1)
After(s, C)    == From(s, First(s, C) + 1)
Has(s, c)      == c \in ToSet(s)

ShortSwap(l)  == ((l % 256) * 256) + ((l \div 256) % 256)
LongSwap(l)   == (ShortSwap(l % 65536) * 65536) + ShortSwap(l \div 65536)

Q_islower(c)  == c \in 97 .. 122
Q_isupper(c)  == c \in 65 .. 90
Q_isalpha(c)  == Q_islower(c) \/ Q_isupper(c)
Q_isprint(c)  == c \in 32 .. 126
IsDigit(c)    == c \in Ch.zero .. Ch.zero + 9
Q_isprintstring(s) == \A i \in DOMAIN s : Q_isprint(s[i])
Q_CountChar(s, c)  == Len(SelectSeq(s, LAMBDA d : d = c))
Q_WIsAnsiString(s) == \A i \in DOMAIN s : s[i] <= 255

ToUpper(c)    == IF Q_islower(c) THEN c - 32 ELSE c
ToLower(c)    == IF Q_isupper(c) THEN c + 32 ELSE c
Same(c)       == c
Mapped(s, Op(_)) == [i \in DOMAIN s |-> Op(s[i])]
Q_strupr(s)   == Mapped(s, ToUpper)
Q_strlwr(s)   == Mapped(s, ToLower)
Q_strchrrepl(s, old, new) == Mapped(s, LAMBDA c : IF c = old THEN new ELSE c)
----------------------------------------------------------------------------
(* Comparing and searching.                                                *)

\* The sign of the first difference within n bytes, the terminating zero included.
Difference(s, t, n, Op(_)) ==
    LET D == {i \in 1 .. Min({n, Max({Len(s), Len(t)}) + 1}) : Op(At(s, i)) # Op(At(t, i))}
    IN  IF D = {} THEN 0 ELSE IF Op(At(s, Min(D))) < Op(At(t, Min(D))) THEN -1 ELSE 1

\* (variant) The comparison without the change of case: what a forgotten line would leave.
StricmpnCased(s, t, n) == Difference(s, t, n, Same)

Q_stricmpn(s, t, n) == Difference(s, t, n, ToUpper)
Q_strncmp(s, t, n)  == Difference(s, t, n, Same)
Q_stricmp(s, t)     == Q_stricmpn(s, t, 99999)

\* Q_stristr: where find starts in s, 0 if nowhere.
Q_stristr(s, find) ==
    LET P == {i \in 1 .. Len(s) + 1 : Q_stricmpn(From(s, i), find, Len(find)) = 0}
    IN  IF find = <<>> THEN 1 ELSE IF P \subseteq {Len(s) + 1} THEN 0 ELSE Min(P)

Q_strichr(s, c) ==
    LET P == {i \in DOMAIN s : ToUpper(s[i]) = ToUpper(c)} IN IF P = {} THEN -1 ELSE Min(P) - 1

IsAlnum(c) == Q_isalpha(c) \/ IsDigit(c)
IsColour(s, i) == At(s, i) = Ch.caret /\ IsAlnum(At(s, i + 1))      \* Q_IsColorString: ^0 .. ^z

RECURSIVE Q_PrintStrlen(_)
Q_PrintStrlen(s) ==
    IF s = <<>> THEN 0
    ELSE IF IsColour(s, 1) THEN Q_PrintStrlen(From(s, 3)) ELSE 1 + Q_PrintStrlen(Tail(s))

RECURSIVE Q_CleanStr(_)
Q_CleanStr(s) ==
    IF s = <<>> THEN <<>>
    ELSE IF IsColour(s, 1) THEN Q_CleanStr(From(s, 3))
    ELSE (IF s[1] \in 32 .. 127 THEN <<s[1]>> ELSE <<>>) \o Q_CleanStr(Tail(s))
----------------------------------------------------------------------------
(* Writing into a buffer of size bytes, for wide characters too.            *)

Cut(s, n) == SubSeq(s, 1, Min({Len(s), n}))

\* (variant) The terminating zero forgotten in the count.
StrncpyzFull(src, size) == Cut(src, size)

Q_strncpyz(src, size)      == Cut(src, size - 1)
Q_strncpyzUni(src, size)   == Cut(src, size \div 2 - 1)
Q_strcat(dest, size, src)  == dest \o Q_strncpyz(src, size - Len(dest))          \* Len(dest) < size
Q_strcatUni(dest, size, src) == dest \o Q_strncpyzUni(src, size - 2 * Len(dest))
Q_StrToWStr(src, len)      == IF len < 2 THEN <<>> ELSE Cut(src, len \div 2 - 1)
Com_sprintf(text, size)    == Cut(text, size - 1)             \* with the text formatted

\* Q_strlcat; memcpy takes what follows the end of src with it if limit is beyond it.
Q_strlcat(dest, size, src, limit) ==
    LET room == size - Len(dest)
        n    == IF limit >= room \/ limit < 1 THEN room - 1 ELSE limit
    IN  IF Len(dest) >= size THEN dest ELSE dest \o Cut(src, n)

\* Q_strnrepl: text left of a match, the replacement, and so on; find is not empty.
RECURSIVE ReplaceIn(_, _, _, _, _)
ReplaceIn(dest, size, src, find, new) ==
    LET P == {i \in 1 .. Len(src) : IsPrefix(find, From(src, i))} IN
    IF P = {} THEN Q_strlcat(dest, size, src, 0)
    ELSE ReplaceIn(Q_strlcat(Q_strlcat(dest, size, src, Min(P) - 1), size, new, 0),
                   size, From(src, Min(P) + Len(find)), find, new)
Q_strnrepl(size, src, find, new) == ReplaceIn(<<>>, size, src, find, new)

\* Com_TruncateLongString, with TRUNCATE_LENGTH = length.
Dots == <<Ch.space, Ch.dot, Ch.dot, Ch.dot, Ch.space>>
Com_TruncateLongString(s, length) ==
    IF Len(s) <= length THEN Q_strncpyz(s, length)
    ELSE Q_strcat(Q_strcat(Q_strncpyz(s, length \div 2 - 3), length, Dots), length,
                  From(s, Len(s) - length \div 2 + 4))

\* SV_ExpandNewlines; its buffer has 1024 bytes.
RECURSIVE Expanded(_, _, _)
Expanded(s, l, size) ==
    IF s = <<>> \/ l >= size - 3 THEN <<>>
    ELSE IF s[1] = Ch.newline THEN <<Ch.backslash, 110>> \o Expanded(Tail(s), l + 2, size)
    ELSE <<s[1]>> \o Expanded(Tail(s), l + 1, size)
SV_ExpandNewlines(s, size) == Expanded(s, 0, size)

\* COM_DefaultExtension: an extension is a dot after the last slash, not in front.
\* Not of an empty path, for which the code starts in front of the text and reads
\* on downwards: what it finds there is not defined.
COM_DefaultExtension(path, size, extension) ==
    LET base == Max({1} \cup Places(path, {Ch.slash})) IN
    IF \E i \in base + 1 .. Len(path) : path[i] = Ch.dot THEN path
    ELSE Com_sprintf(Q_strncpyz(path, 64) \o extension, size)

\* XML_Escape: i counts the bytes of the text, not those that were written, of which
\* there may be more than size: the margin of 7 is enough for one long entity.
Entity(c) ==
    CASE c = Ch.less -> <<38, 108, 116, 59>> [] c = Ch.more -> <<38, 103, 116, 59>>
      [] c = Ch.amp -> <<38, 97, 109, 112, 59>> [] c = Ch.quote -> <<38, 113, 117, 111, 116, 59>>
      [] c = Ch.apos -> <<38, 97, 112, 111, 115, 59>>
      [] OTHER -> IF c \in Ch.space .. 127 THEN <<c>> ELSE <<>>
XML_Escape(s, size) == FlattenSeq(Mapped(Cut(s, size - 7), Entity))

\* The numbers a text starts with, as atoi reads them.
RECURSIVE Digits(_, _)
Digits(s, n) == IF IsDigit(At(s, 1)) THEN Digits(Tail(s), 10 * n + (s[1] - Ch.zero)) ELSE n
atoi(s) ==
    LET t == From(s, Min({i \in 1 .. Len(s) + 1 : At(s, i) \notin {Ch.space, Ch.newline, Ch.return, Ch.tab}}))
    IN  IF At(t, 1) = Ch.minus THEN -Digits(Tail(t), 0)
        ELSE Digits(IF At(t, 1) = Ch.plus THEN Tail(t) ELSE t, 0)
=============================================================================
