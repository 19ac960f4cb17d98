-------------------------------- MODULE Urls ---------------------------------
(***************************************************************************)
(* URLs, host names and the addresses of passive FTP connections           *)
(* (src/httpftp.c, and NET_StringToAdr of src/update_main.c).  Resolving a *)
(* name belongs to the system: an address keeps the name it was resolved   *)
(* from as its host.                                                       *)
(***************************************************************************)
EXTENDS Strings
LOCAL INSTANCE SequencesExt
LOCAL INSTANCE FiniteSetsExt

http == <<104, 116, 116, 112, 58, 47, 47>>                    \* "http://"
ftp  == <<102, 116, 112, 58, 47, 47>>                         \* "ftp://"

\* Leading spaces and the scheme, in any case, are not part of the rest.
WithoutScheme(url, scheme) ==
    LET u == From(url, Min({i \in 1 .. Len(url) + 1 : At(url, i) # Ch.space}))
    IN  IF Q_stricmpn(u, scheme, Len(scheme)) = 0 THEN From(u, Len(scheme) + 1) ELSE u

\* (variant) The port left to whoever connects.
WithoutPort(address, size, port) == address

WithPort(address, size, port) ==
    IF Has(address, Ch.colon) THEN address ELSE Q_strcat(address, size, port)

HTTPSplitURL(url, size) ==
    LET u == WithoutScheme(url, http)
        w == Q_strncpyz(u, size)
    IN  [address |-> WithPort(Before(Q_strncpyz(u, size), {Ch.slash}), size, <<Ch.colon, 56, 48>>),
         path    |-> IF First(w, {Ch.slash}) \in 2 .. Len(w) THEN From(w, First(w, {Ch.slash}))
                     ELSE <<Ch.slash>>]

FTP_SplitURL(url, size) ==
    LET parse  == Q_strncpyz(WithoutScheme(url, ftp), 1024)
        server == Before(parse, {Ch.slash})
        login  == Before(server, {Ch.at})
        known  == Has(server, Ch.at)
    IN  [path     |-> Q_strncpyz(After(parse, {Ch.slash}), size),
         address  |-> WithPort(Q_strncpyz(IF known THEN After(server, {Ch.at}) ELSE server, size),
                               size, <<Ch.colon, 50, 49>>),
         user     |-> IF known THEN Q_strncpyz(Before(login, {Ch.colon}), size) ELSE <<>>,
         password |-> IF known THEN Q_strncpyz(After(login, {Ch.colon}), size) ELSE <<>>]
----------------------------------------------------------------------------
(* The request of HTTP_BuildNewRequest.                                     *)

Hex(n) == IF n < 10 THEN Ch.zero + n ELSE 55 + n              \* '0' .. '9', 'A' .. 'F'

\* sprintf("%%%X", (char)chr): without leading zeros, and with a sign that
\* makes eight digits of a byte above 127.
HTTP_EncodeChar(c) ==
    <<Ch.percent>> \o (IF c > 127 THEN <<70, 70, 70, 70, 70, 70>> ELSE <<>>)
       \o (IF c < 16 THEN <<>> ELSE <<Hex(c \div 16)>>) \o <<Hex(c % 16)>>

Escaped(c) ==
    \/ c < Ch.space \/ c > 127
    \/ c \in {60, 62, Ch.space, Ch.quote, 35, Ch.percent, 123, 125, 124, Ch.backslash, 94, 126, 91, 93, 96}

\* The loop goes three bytes on, whatever was written: the next byte goes over
\* the rest, and a gap of two digits ends the text with its zero.
EncodedChar(c) ==
    IF Escaped(c) THEN Cut(HTTP_EncodeChar(c), 3) \o (IF c < 16 THEN <<0>> ELSE <<>>) ELSE <<c>>
HTTP_EncodeURL(url, size) ==
    LET upTo == Max({n \in 0 .. Len(url) :
                       n > 0 => Len(FlattenSeq(Mapped(Cut(url, n - 1), EncodedChar))) < size - 4})
    IN  Before(FlattenSeq(Mapped(Cut(url, upTo), EncodedChar)), {0})

\* The Host field: the address up to the first ":80".
HostField(address) ==
    LET P == {i \in 1 .. Len(address) : IsPrefix(<<Ch.colon, 56, 48>>, From(address, i))}
    IN  IF P = {} THEN address ELSE SubSeq(address, 1, Min(P) - 1)
----------------------------------------------------------------------------
(* Addresses.                                                               *)

PORT_SERVER == 28960
BadAddress  == [host |-> <<>>, port |-> 0]

\* "return 0 on address not found, 1 on address found with port, 2 on address
\* found without port"; Known is what the system can resolve.  The name "localhost"
\* without a port is the loopback address, which has none.
localhost == <<108, 111, 99, 97, 108, 104, 111, 115, 116>>
NET_StringToAdr(s, Known) ==
    LET end   == First(s, {93})                                          \* ']'
        ipv6  == At(s, 1) = 91 \/ Q_CountChar(s, Ch.colon) > 1
        inner == IF At(s, 1) = 91 THEN 2 ELSE 1
        host  == IF ipv6 THEN SubSeq(s, inner, end - 1) ELSE Before(s, {Ch.colon})
        ported == IF ipv6 THEN At(s, end) # 0 /\ At(s, end + 1) = Ch.colon ELSE Has(s, Ch.colon)
        digits == IF ipv6 THEN From(s, end + 2) ELSE After(s, {Ch.colon})
    IN  IF s = localhost THEN [found |-> 1, adr |-> [host |-> localhost, port |-> 0]]
        ELSE IF host \notin Known THEN [found |-> 0, adr |-> BadAddress]
        ELSE IF ported THEN [found |-> 1, adr |-> [host |-> host, port |-> atoi(digits) % 65536]]
        ELSE [found |-> 2, adr |-> [host |-> host, port |-> PORT_SERVER]]

\* FTP_GetPassiveAddress: (h1,h2,h3,h4,p1,p2), or with more numbers before the ')'.
RECURSIVE Numbers(_)
Numbers(t) ==
    LET end == First(t, {Ch.comma, 41})
    IN  IF At(t, end) = 0 THEN <<>>
        ELSE IF t[end] = 41 THEN <<atoi(t)>> ELSE <<atoi(t)>> \o Numbers(From(t, end + 1))
FTP_GetPassiveAddress(line) ==
    LET t == After(line, {40})
        n == Numbers(t)
    IN  IF ~Has(line, 40) \/ ~Has(t, 41) \/ Len(n) < 6 THEN BadAddress
        ELSE [host |-> [i \in 1 .. 4 |-> n[i] % 256], port |-> (256 * n[5] + n[6]) % 65536]

\* FTP_GetExtendedPassiveAddress: the host stays, the port comes from (|||port|).
Bar == 124
AfterBar(t) == LET end == First(t, {Bar, 41}) IN IF At(t, end) = Bar THEN From(t, end + 1) ELSE From(t, end)
FTP_GetExtendedPassiveAddress(line, address, Known) ==
    LET a    == NET_StringToAdr(address, Known)
        t    == AfterBar(AfterBar(AfterBar(After(line, {40}))))
        port == atoi(t)
    IN  IF a.found = 0 \/ ~Has(line, 40) \/ port \notin 1 .. 65535 \/ ~Has(t, Bar) \/ ~Has(After(t, {Bar}), 41)
        THEN BadAddress ELSE [a.adr EXCEPT !.port = port]
=============================================================================
