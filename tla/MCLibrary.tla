------------------------------ MODULE MCLibrary ------------------------------
(***************************************************************************)
(* The pure functions over bounded inputs.  A state is a kind of input and *)
(* the items it consists of so far; a step appends an item.  Every prefix  *)
(* of every input is a state, and each property speaks of one kind.        *)
(***************************************************************************)
EXTENDS Integers, Sequences

LOCAL INSTANCE SequencesExt
LOCAL INSTANCE FiniteSetsExt

CONSTANTS
    Limit,          \* how many items an input of a kind has at most
    Arithmetic(_),  \* what is asked of numbers, of DER elements, of a key's primes
    Encoding(_),    \* and of a signature: constants, each a large formula that is
    KeyPair(_),     \* compiled once and not at every place where TLC accounts for
    Signing(_)      \* what it evaluates

VARIABLES kind, items
vars == <<kind, items>>

MCLimit == [tokens |-> 6, plain |-> 7, strings |-> 4, texts |-> 3, dirs |-> 3, info |-> 3, manifest |-> 4, url |-> 6,
            numbers |-> 3, adrs |-> 3, elements |-> 2, pieces |-> 3, keys |-> 3, signed |-> 5]


Str   == INSTANCE Strings
Info  == INSTANCE InfoStrings
Tok   == INSTANCE Tokens
Path  == INSTANCE Paths
Man   == INSTANCE Manifest
Url   == INSTANCE Urls
Ref   == INSTANCE BigNumReference
Adr   == INSTANCE Addresses
Der   == INSTANCE DerSequences

\* A hash that keeps its blocks, and one of two octets; RSA that turns the octets
\* round as far as the key says, and the key's text.
Blocks   == INSTANCE Hashing WITH Start <- <<>>, Compress <- Append, Output <- FlattenSeq
Mixed(n, block) == FoldLeft(LAMBDA x, y : (31 * x + y) % 65521, n, block)
Short(n) == <<n \div 256, n % 256>>
Small    == INSTANCE Hashing WITH Start <- 0, Compress <- Mixed, Output <- Short
Digest(m) == Small!Sec_HashMemory(TRUE, "SEC_HASH_SHA256", m, 1025, FALSE)
Turned(s, which, key) ==
    LET n == IF which = "PK_PUBLIC" THEN key.turn ELSE Len(s) - key.turn
    IN  SubSeq(s, n + 1, Len(s)) \o SubSeq(s, 1, n)
ProgramKey(bits) == [type |-> "PK_PUBLIC", turn |-> 1, bits |-> bits]
KeyOctets(bits)  == <<97, 65, bits \div 256, bits % 256>>
Import(der) == IF Len(der) = 4 /\ KeyOctets(256 * der[3] + der[4]) = der
               THEN ProgramKey(256 * der[3] + der[4]) ELSE [type |-> "none"]
Sig      == INSTANCE Signatures WITH RsaMe <- Turned, Import <- Import, Digest <- Digest
Ch    == Str!Ch

a == 97
A == 65
----------------------------------------------------------------------------
(* The items an input is made of.                                          *)

\* Names of directories: versions of one and of two digits, in both cases,
\* a directory and a file of other names, and ".".
Named(name)   == [name |-> name, directory |-> TRUE]
Digit(n)      == Ch.zero + n
VersionDir(n) == Path!cod4x_ \o (IF n > 9 THEN <<Digit(n \div 10)>> ELSE <<>>) \o <<Digit(n % 10)>>
Dirs == {Named(VersionDir(n)) : n \in {7, 9, 10, 12}} \cup {Named(Str!Q_strupr(VersionDir(11)))}
          \cup {Named(<<a>>), Named(<<Ch.dot>>), [name |-> VersionDir(99), directory |-> FALSE]}

\* Keys with values of which two cannot be set: one is empty, one has a ';'.
Pairs   == [key : {<<a>>, <<a + 1>>}, value : {<<>>, <<a, A>>, <<A, A, A>>, <<Ch.semi>>}]

\* A path, a size and a signature.
Entries == {[path |-> <<a>>, size |-> 12, hash |-> <<A, 61>>], [path |-> <<a, Ch.slash, a>>, size |-> 0, hash |-> <<A, Ch.space, a>>],
            [path |-> <<>>, size |-> 7, hash |-> <<>>]}

\* A URL field by field: scheme, user, password, host, port (0: none), path.
UrlFields == <<{"http", "ftp", "none"}, {<<>>, <<a>>}, {<<>>, <<a, Ch.colon>>}, {<<a, Ch.dot, a>>, Url!localhost}, {0, 21, 80, 8012},
               {<<>>, <<a>>, <<a, Ch.percent, 53, 49>>, <<Ch.space, Ch.at, 126>>}>>

\* A base, an exponent and a modulus, or two numbers: of one to three digits,
\* even and odd, with digits that are 0 or as high as they can be.
Numbers == <<(0 .. 12) \cup {15, 57, 63, 64, 65, 72, 100, 127, 255, 448, 449, 455, 504, 511, -1, -7, -8, -100, -511},
             {0, 1, 2, 3, 5, 8, 63, 64, 100, 300, 511, -2, -63}, {2, 7, 9, 57, 63, 64, 65, 100, 455, 449, 511}>>

\* Addresses that start alike, of both types, and one of neither.
Long(ip)  == ip \o [i \in 1 .. 12 |-> 0]
Adrs == {Adr!Netadr("NA_IP", <<10, 0, 0, h>>, p, 0) : h \in {1, 2}, p \in {80, 21}}
          \cup {Adr!Netadr("NA_IP6", [Long(<<10, 0, 0, h>>) EXCEPT ![16] = 9], 21, 4) : h \in {0, 1}}
          \cup {Adr!Netadr("NA_IP6", Long(<<10, 0, 0, 1>>), 80, 0), Adr!Netadr("NA_LOOPBACK", <<0, 0, 0, 0>>, 0, 0)}

\* DER elements of every type, by number: integers and lengths on both sides of
\* an octet's and of a sign's limits, and lists of elements.
Of(type, values) == [i \in DOMAIN values |-> Der!Item(type, values[i])]
Bit01(n)         == [i \in 1 .. n |-> i % 2]
Sevens(n)        == [i \in 1 .. n |-> (7 * i) % 256]
Time(fields, dir, hh, mm) == [fields |-> fields, off_dir |-> dir, off_hh |-> hh, off_mm |-> mm]
Simple == FlattenSeq(<<
    Of("boolean", <<FALSE, TRUE>>), Of("null", << <<>> >>),
    Of("integer", <<0, 1, 127, 128, 255, 256, 32767, 32768, 65535, 8388607, -1, -127, -128, -129, -255, -256, -32768, -32769>>),
    Of("bits", <<Bit01(1), Bit01(7), Bit01(8), Bit01(9), Bit01(16)>>),
    Of("octets", <<Sevens(0), Sevens(1), Sevens(127), Sevens(128), Sevens(255), Sevens(256)>>),
    Of("oid", << <<1, 2>>, <<2, 5, 4, 3>>, <<1, 2, 840, 113549, 1, 1, 1>>, <<0, 39, 0, 127, 128>>, <<3, 39>> >>),
    Of("ia5", << <<a, Ch.at>> >>), Of("printable", << <<a, A>>, <<>> >>),
    Of("utf8", << <<a>>, <<127, 128, 2047, 2048>>, <<65535, 65536, 131071>> >>),
    Of("utctime", <<Time(<<99, 12, 31, 23, 59, 59>>, 0, 0, 0), Time(<<0, 1, 1, 0, 0, 0>>, 1, 0, 30)>>) >>)
Elements == FlattenSeq(<<Simple,
    Of("short", <<0, 127, 128, 256, 32768, 2147483647>>),
    Of("sequence", << <<>>, <<Der!Item("integer", -128), Der!Item("octets", Sevens(127))>> >>),
    Of("set", << <<Der!Item("octets", <<9>>), Der!Item("integer", 5)>> >>) >>)

\* The lengths of a message's pieces, about the limits of a block and of a read.
Pieces == {0, 1, 8, 55, 56, 63, 64, 65, 512}

\* Two primes and an exponent.
Keys == <<{3, 5, 7, 11, 13}, {3, 5, 7, 11, 13}, {3, 5, 7}>>

\* A message, another, the modulus' bits, the key it is signed with (the program
\* has the first) and what is done to the signature.
Messages == {<<>>, <<a>>, <<A>>, [i \in 1 .. 64 |-> i]}
Signed == <<Messages, Messages, {113, 120, 127, 128, 400}, {1, 2}, {"nothing", "upper", "short", "random", "longer"}>>

NextItems ==
    CASE kind = "tokens"   -> {a, Ch.space, Ch.quote, Ch.slash, Ch.star}
      [] kind = "plain"    -> {a, A, Ch.space}
      [] kind = "strings"  -> {a, Ch.dot, Ch.slash, Ch.newline, Ch.amp, Ch.caret}
      [] kind = "texts"    -> UNION {[1 .. n -> {a, A, a + 1, 95}] : n \in 0 .. 2}
      [] kind = "dirs"     -> Dirs
      [] kind = "info"     -> Pairs
      [] kind = "manifest" -> Entries
      [] kind = "url"      -> UrlFields[Len(items) + 1]
      [] kind = "numbers"  -> Numbers[Len(items) + 1]
      [] kind = "adrs"     -> Adrs
      [] kind = "elements" -> DOMAIN Elements
      [] kind = "pieces"   -> Pieces
      [] kind = "keys"     -> Keys[Len(items) + 1]
      [] kind = "signed"   -> Signed[Len(items) + 1]

Init == kind \in DOMAIN Limit /\ items = <<>>

Append1 ==
    /\ Len(items) < Limit[kind] /\ \E c \in NextItems : items' = Append(items, c)
    /\ UNCHANGED kind
Done == Len(items) = Limit[kind] /\ UNCHANGED vars
Next == Append1 \/ Done
Spec == Init /\ [][Next]_vars
----------------------------------------------------------------------------
(* Properties.                                                             *)

Quoted(t)  == <<Ch.quote>> \o t \o <<Ch.quote, Ch.space>>
Number(n)  == IF n < 10 THEN <<Digit(n)>> ELSE <<Digit(n \div 10), Digit(n % 10)>>
Joined(T, c) == IF T = <<>> THEN <<>> ELSE FoldLeft(LAMBDA x, y : x \o <<c>> \o y, Head(T), Tail(T))

\* What Cmd_TokenizeString takes apart survives being quoted and joined again,
\* whatever comments and quotes the text was made of; and on words and spaces
\* Com_ParseGetToken finds the same tokens as Cmd_TokenizeString.
TokensAreReference ==
    /\ kind = "tokens" =>
         LET t == Tok!Cmd_TokenizeString(items, 99)
         IN  /\ \A i \in DOMAIN t : ~Str!Has(t[i], Ch.quote)
             /\ Tok!Cmd_TokenizeString(FlattenSeq([i \in DOMAIN t |-> Quoted(t[i])]), 99) = t
    /\ kind = "plain" => Tok!Parsed(items) = Tok!Cmd_TokenizeString(items, 99)

\* Among versions of the same number of digits the updater reports the highest
\* one that has a directory, whatever else lies beside it and in whatever case,
\* and "1.0" when there is none.
NewestIsChosen == kind = "dirs" =>
    LET dirs     == {d \in ToSet(items) : Path!Listed(d) /\ Path!Filtered(<<d.name>>) # <<>>}
        versions == {Str!atoi(SubSeq(d.name, 7, Len(d.name))) : d \in dirs}
    IN  Cardinality({Len(d.name) : d \in dirs}) <= 1 =>
            Path!Version(items, 1024) = IF versions = {} THEN 0 ELSE Max(versions)

\* A manifest written line by line, with or without a newline at its end and
\* with an empty line in front, is read as the entries it was written from; one
\* with an empty line between two entries is refused and never read as less.
Line(e) == e.path \o <<Ch.space>> \o Number(e.size) \o <<Ch.space>> \o e.hash
ManifestLinesAreEntries == kind = "manifest" =>
    LET lines == <<Man!baseurl \o <<a, a>> >> \o [i \in DOMAIN items |-> Line(items[i])]
    IN  /\ \A front, end \in {<<>>, <<Ch.newline>>} :
             Man!Sec_Update(front \o Joined(lines, Ch.newline) \o end) = [url |-> <<a, a>>, files |-> items]
        /\ \A i \in 2 .. Len(items) :
             LET holed == SubSeq(lines, 1, i) \o << <<>> >> \o SubSeq(lines, i + 1, Len(lines))
             IN  Last(Man!Sec_Update(Joined(holed, Ch.newline)).files) = Man!Corrupt

\* A URL is taken apart into the fields it was put together from, the port
\* being the protocol's if it names none; the path a server decodes is the one
\* that was asked for; the Host field names the server.
RECURSIVE Decoded(_)
Nibble(c) == IF c < A THEN c - Ch.zero ELSE c - 55
Decoded(t) ==
    IF t = <<>> THEN <<>>
    ELSE IF t[1] # Ch.percent \/ Len(t) < 3 THEN <<t[1]>> \o Decoded(Tail(t))
    ELSE <<16 * Nibble(t[2]) + Nibble(t[3])>> \o Decoded(SubSeq(t, 4, Len(t)))
PortText(n) == IF n < 100 THEN Number(n) ELSE Number(n \div 100) \o Number((n % 100) \div 10) \o Number(n % 10)
UrlsAreTakenApart == kind = "url" /\ Len(items) = 6 =>
    LET scheme == items[1]  user == items[2]  password == items[3]  host == items[4]  path == items[6]
        port   == IF items[5] # 0 THEN items[5] ELSE IF scheme = "ftp" THEN 21 ELSE 80
        login  == IF scheme # "ftp" \/ user = <<>> THEN <<>>
                  ELSE user \o (IF password = <<>> THEN <<>> ELSE <<Ch.colon>> \o password) \o <<Ch.at>>
        text   == (CASE scheme = "http" -> Str!Q_strupr(Url!http) [] scheme = "ftp" -> Url!ftp [] OTHER -> <<>>) \o login
                     \o host \o (IF items[5] = 0 THEN <<>> ELSE <<Ch.colon>> \o PortText(port)) \o <<Ch.slash>> \o path
        split  == IF scheme = "ftp" THEN Url!FTP_SplitURL(text, 1024) ELSE Url!HTTPSplitURL(text, 1024)
        adr    == Url!NET_StringToAdr(split.address, {host})
    IN  /\ split.address = host \o <<Ch.colon>> \o PortText(port)
        /\ adr = [found |-> 1, adr |-> [host |-> host, port |-> port]]
        /\ scheme = "ftp" =>
             /\ split.path = path /\ split.user = (IF login = <<>> THEN <<>> ELSE user)
             /\ split.password = IF login = <<>> THEN <<>> ELSE password
             /\ LET line == <<a, 40, Url!Bar, Url!Bar, Url!Bar>> \o PortText(port) \o <<Url!Bar, 41>>
                    pasv == <<a, 40>> \o Joined(<<Number(10), Number(0), Number(0), Number(1), Number(port \div 256), PortText(port % 256)>>, Ch.comma) \o <<41>>
                IN  /\ Url!FTP_GetExtendedPassiveAddress(line, split.address, {host}) = adr.adr
                    /\ Url!FTP_GetPassiveAddress(pasv) = [host |-> <<10, 0, 0, 1>>, port |-> port]
        /\ scheme # "ftp" =>
             /\ split.path = <<Ch.slash>> \o path
             /\ Decoded(Url!HTTP_EncodeURL(split.path, 1024)) = split.path
             /\ port # 8012 => Url!HostField(split.address) = IF port = 80 THEN host ELSE split.address

\* An info string is a map: after any sequence of sets each key has the last
\* value it was set to, a key or value that may not be set changing nothing.
Set(s, p) == Info!Info_SetValueForKey(s, p.key, p.value, 40)
InfoIsAMap == kind = "info" =>
    LET s == FoldLeft(Set, <<>>, items)
        Sets(k) == SelectSeq(items, LAMBDA p : p.key = k /\ Info!Settable(p.value))
    IN  \A k \in {p.key : p \in Pairs} :
            Info!Info_ValueForKey(s, k) = IF Sets(k) = <<>> THEN <<>> ELSE Last(Sets(k)).value

\* What is written into a buffer of a given size leaves room for the terminating
\* zero, and what was in front stays in front.  A path that is built is the whole
\* one in its normal form, or, if that is too long, refused: never a shorter one.
\* Three functions break this, and are asked for what they do keep.  XML_Escape
\* counts what it reads, so that its margin is enough for one character that needs
\* an entity and not for more.  The wide path is the whole one or refused up to the
\* limit, if its name was not cut; beyond it the error goes unnoticed.  And an info
\* string may be as long as its buffer, its zero then being beyond (qshared.c:870):
\* InfoIsAMap has room for all it sets.
Trim(t) == IF t # <<>> /\ Last(t) \in Path!Separators THEN Front(t) ELSE t
PathsAreWhole(base, name, limit) ==
    LET whole == Trim(base) \o <<Ch.slash>> \o Trim(name) \o <<Ch.slash>> \o name
        path  == Path!FS_BuildOSPathForThread(base, name, name, limit)
        wide  == Path!FS_BuildOSPathForThreadUni(base, name, name, limit, 4)
        IsWhole(p) == /\ IsPrefix(p, Str!Q_strchrrepl(whole, Ch.slash, Ch.backslash))
                      /\ Len(p) = Len(Trim(whole))
    IN  /\ IF Len(whole) >= limit THEN path = Str!None ELSE IsWhole(path)
        /\ Len(name) < 4 /\ Len(whole) <= limit =>
             IF Len(whole) = limit THEN wide = Str!None ELSE wide = path
TextsFit == kind = "strings" => \A size \in 1 .. 7 :
    LET s == items
        d == Str!Q_strncpyz(s, size)
        w == Str!Q_strncpyzUni(s, size)
        Fits(t) == Len(t) < size
    IN  /\ Fits(d) /\ IsPrefix(d, s) /\ (Len(s) < size => d = s)
        /\ Fits(Str!Q_strcat(d, size, s)) /\ IsPrefix(d, Str!Q_strcat(d, size, s))
        /\ \A limit \in 0 .. 3 : Fits(Str!Q_strlcat(d, size, s, limit))
        /\ Fits(Str!Q_strnrepl(size, s, <<Ch.slash>>, <<a, a>>))
        /\ d # <<>> => Fits(Str!COM_DefaultExtension(d, size, <<Ch.dot, a>>))
        /\ size > 4 => Fits(Str!SV_ExpandNewlines(s, size))
        /\ size > 1 => \A t \in {w, Str!Q_StrToWStr(s, size), Str!Q_strcatUni(w, size, s)} : 2 * Len(t) < size
        /\ Str!Q_CountChar(Str!XML_Escape(s, 31), Ch.amp) = Str!Q_CountChar(s, Ch.amp)
        /\ Str!Q_CountChar(Str!Cut(s, size), Ch.amp) <= 1 => Len(Str!XML_Escape(s, size + 7)) < size + 7
        /\ PathsAreWhole(s, d, 3 * size) /\ PathsAreWhole(d, s, 3 * size)
        /\ Str!Q_PrintStrlen(Str!Q_CleanStr(d)) <= Len(d)

NumbersAreExact(numbers) ==
    LET i == numbers[1]  j == numbers[2]  m == numbers[3]
    IN  CASE Len(numbers) = 0 -> TRUE
          [] Len(numbers) = 1 -> Ref!OneIsExact(i)
          [] Len(numbers) = 2 -> Ref!TwoAreExact(i, j)
          [] Len(numbers) = 3 -> /\ Ref!PowersAreExact(i, j, m)
                                 /\ Ref!Abs(i * j) < m * m => Ref!ReductionsAreExact(Ref!Abs(i * j), m)

\* Arithmetic on numbers of several digits is that of the integers, by whichever
\* of its algorithms a size selects: a product row by row, column by column,
\* after Karatsuba and after Toom and Cook; quotients and inverses; the four
\* reductions; powers by windows; primes; and numbers written and read again.
Exact == kind = "numbers" => Arithmetic(items)

\* The comparison that ignores case is an order of the texts read in one case,
\* so that the list it sorts has a last place; that of addresses is an order of
\* their bytes, types and ports, and a mask that tells two apart lets no longer
\* one take them for the same.  What the resolver found is the address asked for.
IsOrder(Cmp(_, _), x, y, z) ==
    /\ Cmp(x, y) = -Cmp(y, x)
    /\ Cmp(x, y) <= 0 /\ Cmp(y, z) <= 0 => Cmp(x, z) <= 0
ComparisonsOrder == Len(items) = 3 =>
    LET s == items[1]  t == items[2]  u == items[3]
    IN  /\ kind = "texts" =>
             /\ IsOrder(Str!Q_stricmp, s, t, u)
             /\ (Str!Q_stricmp(s, t) = 0) = (Str!Q_strlwr(s) = Str!Q_strlwr(t))
             /\ (Str!Q_stristr(s, t) # 0) = (\E i \in 1 .. Len(s) + 1 :
                     i + Len(t) <= Len(s) + 1 /\ Str!Q_strupr(SubSeq(s, i, i + Len(t) - 1)) = Str!Q_strupr(t))
        /\ kind = "adrs" /\ {s.type, t.type, u.type} \subseteq Adr!IP =>
             /\ IsOrder(Adr!NET_CompareAdrSigned, s, t, u)
             /\ (Adr!NET_CompareAdrSigned(s, t) = 0) = Adr!NET_CompareAdr(s, t)
             /\ \A n \in 1 .. 32 : Adr!NET_CompareBaseAdrMask(s, t, n) => Adr!NET_CompareBaseAdrMask(s, t, n - 1)
             /\ \A enabled \in SUBSET {"v4", "v6", "priov6"}, family \in Adr!IP \cup {"NA_UNSPEC"} :
                  LET hint(x) == Adr!NetadrToSockadr(x, Adr!Sockadr("AF_UNSPEC", <<>>, 0, 0))
                      found   == Adr!Sys_StringToAdr(<<hint(s), hint(t)>>, u, family, enabled)
                  IN  /\ found \in {s, t} \/ [found EXCEPT !.scope_id = 0] \in {s, t} \/ found = u
                      /\ family \in Adr!IP /\ found # u => found.type = family

RECURSIVE Shape(_)
Shape(list) == [i \in DOMAIN list |-> Der!Item(list[i].type, IF list[i].type \in Der!Nested THEN Shape(list[i].value) ELSE 3000)]
RECURSIVE Flexible(_)
Flexible(list) == [i \in DOMAIN list |->
    LET t == list[i].type  v == list[i].value
    IN  CASE t = "short" -> Der!Item("integer", v) [] t = "sequence" -> Der!Item(t, Flexible(v))
          [] t = "set" -> Der!Item(t, Flexible(Reverse(v))) [] OTHER -> list[i]]
ListsAreReadBack(numbers) ==
    LET n        == Len(numbers)
        list     == [i \in 1 .. n |-> Elements[numbers[i]]]
        Early    == {list[i].type : i \in 1 .. n - 1}
        sequence == Der!der_encode_sequence_multi(list)
        set      == Der!der_encode_set(list)
        setof    == Der!der_encode_setof(list)
        values(l) == {l[i].value : i \in DOMAIN l}
        choices  == <<"null", "boolean", "integer", "bits", "octets", "oid", "ia5", "printable", "utf8", "utctime">>
        last     == Der!Encoded(list[n])
        armour   == <<45, 45, 10>>
    IN  /\ Early \cap {"boolean", "utf8"} = {} =>
             /\ Len(sequence) = Der!der_length_sequence(list)
             /\ Der!der_decode_sequence_multi(sequence, Shape(list)) = <<list>>
             /\ Der!der_decode_sequence_flexi(sequence) =
                  << [items |-> Flexible(<<Der!Item("sequence", list)>>), totlen |-> Len(sequence)] >>
        /\ n = 1 \/ ({list[i].type : i \in 1 .. n} \cap {"boolean", "utf8"} = {} /\ Early \cap Der!Nested = {}) =>
             Der!der_decode_sequence_ex(set, Shape(list), FALSE) = <<list>>
        /\ list[n].type \notin Der!Nested \cup {"boolean", "utf8"} /\ Early \subseteq {list[n].type} =>
             /\ values(Der!der_decode_sequence_ex(setof, Shape(list), TRUE)[1]) = values(list)
             /\ Der!der_encode_setof(Reverse(list)) = setof
        /\ numbers[n] \in DOMAIN Simple =>
             LET read == Der!der_decode_choice(last, Shape([i \in DOMAIN choices |-> Der!Item(choices[i], 0)]))[1]
             IN  choices[read.index] = list[n].type /\ read.value = list[n].value /\ read.used = Len(last)
        /\ n = 1 => Der!base64_decode(Der!base64_encode(sequence), Len(sequence)) = <<sequence>>
        /\ n = 1 => Der!Sec_Pem2Der(armour \o Der!base64_encode(last) \o <<10>> \o armour, 1024) = <<last>>

\* What is written as DER is read back: as a sequence, as a set in whatever order
\* its list has, as a set of one type, as one of several choices and without
\* being told the types; and its length is the one computed beforehand.  Base64
\* and PEM give back the octets.  (A truth value, a UTF-8 text and, in a set, a
\* list can be read in the last place only.)
EncodingsDecode == kind = "elements" /\ items # <<>> => Encoding(items)

\* However a message is cut into pieces, the same blocks are hashed: they are the
\* message, its mark, zeros and its length, no more of them than that takes; and
\* a file's digest is that of its octets in memory.
ChunksHashTheSame == kind = "pieces" =>
    LET n       == FoldLeft(LAMBDA x, y : x + y, 0, items)
        message == [i \in 1 .. n |-> (7 * i) % 251]
        from(i) == FoldLeft(LAMBDA x, y : x + y, 0, SubSeq(items, 1, i - 1))
        piece(i) == SubSeq(message, from(i) + 1, from(i) + items[i])
        md      == FoldLeft(LAMBDA x, i : Blocks!HASH_PROCESS(x, piece(i)), Blocks!hash_init, [i \in DOMAIN items |-> i])
        padded(mark) == message \o <<mark>> \o Blocks!Zeros((119 - (n % 64)) % 64)
        bits    == <<(8 * n) \div 256, (8 * n) % 256>>
        tests   == Blocks!Sec_Init(Blocks!Algorithms)
        Same(algo, binary, size) == Blocks!Sec_HashFile(tests, algo, message, size, binary) = Blocks!Sec_HashMemory(tests, algo, message, size, binary)
    IN  /\ FlattenSeq(md.state) \o md.buf = message /\ md.length = 512 * Len(md.state)
        /\ Blocks!sha1_done(md) = padded(128) \o Blocks!Zeros(6) \o bits
        /\ Blocks!sha256_done(md) = Blocks!sha1_done(md)
        /\ Blocks!tiger_done(md) = padded(1) \o Reverse(bits) \o Blocks!Zeros(6)
        /\ n > 0 => \A algo \in Blocks!Algorithms : Same(algo, FALSE, 8192) /\ Same(algo, FALSE, 16)
        /\ Blocks!Sec_HashMemory(Blocks!Sec_Init({}), "SEC_HASH_SHA1", message, 8192, FALSE) = Blocks!NoDigest

KeyUndoesKey(numbers) ==
    LET p == numbers[1]  q == numbers[2]  e == numbers[3]
        key     == Sig!rsa_make_key(p, q, e)
        private == Sig!rsa_import(Sig!rsa_export("PK_PRIVATE", key))
        public  == Sig!rsa_import(Sig!rsa_export("PK_PUBLIC", key))
        octets  == Sig!rsa_export("PK_PUBLIC", key)
        bits    == [i \in 1 .. 8 * Len(octets) |-> (octets[1 + (i - 1) \div 8] \div 2^(7 - ((i - 1) % 8))) % 2]
        openssl == Sig!rsa_import(Sig!der_encode_sequence_ex(
                       <<Der!Item("sequence", <<Der!Item("oid", <<1, 2, 840>>), Der!Item("null", <<>>)>>), Der!Item("bits", bits)>>, "sequence"))
    IN  p # q /\ {p, q} \subseteq Sig!Drawn({p, q}, e) =>
            /\ private = key /\ public = Sig!PublicKey(key.N, e) /\ openssl = public
            /\ \A x \in 0 .. key.N - 1 : Sig!rsa_exptmod(Sig!rsa_exptmod(x, "PK_PRIVATE", private), "PK_PUBLIC", openssl) = x
            /\ Sig!rsa_exptmod(0, "PK_PRIVATE", public) = Sig!NoNumber

SignatureIsOf(signed) ==
    LET m == signed[1]  other == signed[2]  bits == signed[3]  done == signed[5]
        pem         == <<45, 45, 10>> \o Der!base64_encode(KeyOctets(bits)) \o <<10, 45>>
        text        == (IF done = "upper" THEN Str!Q_strupr(Digest(m)) ELSE Digest(m)) \o (IF done = "longer" THEN <<a>> ELSE <<>>)
        padded      == Sig!pkcs_1_v1_5_encode(text, IF done = "random" THEN 2 ELSE 1, bits, [i \in 1 .. 50 |-> i])
        octets      == Turned(padded, "PK_PRIVATE", [ProgramKey(bits) EXCEPT !.turn = signed[4]])
        signature   == Der!base64_encode(IF done = "short" THEN Tail(octets) ELSE octets)
        valid       == Sig!Sec_VerifyFile(pem, signature, other, other)
    IN  padded # Sig!Invalid =>
           /\ valid = (m = other /\ m # <<>> /\ signed[4] = 1 /\ done \in {"nothing", "upper"})
           /\ ~Sig!Sec_VerifyFile(pem, signature, other \o <<0>>, other)
           /\ Sig!pkcs_1_v1_5_decode(padded, IF done = "random" THEN 2 ELSE 1, bits, 400) = IF done = "random" /\ text = <<>> THEN <<>> ELSE <<text>>

\* A signature made with the private key of the key the program has, and with no
\* other, is that of the file it was made of and of no other file, in whatever
\* case its digest was written; one that was shortened or padded otherwise, and a
\* file that could be read only in part, do not pass.  RSA with the public key
\* undoes RSA with the private one, for every number, also after the key was
\* written and read, in each form a key has.
SignaturesAreChecked ==
    /\ kind = "keys" /\ Len(items) = 3 => KeyPair(items)
    /\ kind = "signed" /\ Len(items) = 5 => Signing(items)
=============================================================================
