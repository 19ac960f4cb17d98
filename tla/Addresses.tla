------------------------------ MODULE Addresses ------------------------------
(***************************************************************************)
(* Network addresses (src/sys_net.c).  An address is its type, its bytes   *)
(* (4 of them for NA_IP and 16 for NA_IP6), its port and its scope; what   *)
(* the system calls of the resolver find is a sequence of such records.    *)
(***************************************************************************)
EXTENDS Integers, Sequences
LOCAL INSTANCE SequencesExt
LOCAL INSTANCE FiniteSetsExt

Netadr(type, ip, port, scope) == [type |-> type, ip |-> ip, port |-> port, scope_id |-> scope]
Sockadr(family, ip, port, scope) == [family |-> family, ip |-> ip, port |-> port, scope_id |-> scope]
IP == {"NA_IP", "NA_IP6"}

\* INADDR_BROADCAST; a type without a socket address leaves it as it was.
NetadrToSockadr(a, s) ==
    CASE a.type = "NA_BROADCAST" -> [s EXCEPT !.family = "AF_INET", !.port = a.port, !.ip = <<255, 255, 255, 255>>]
      [] a.type = "NA_IP"        -> [s EXCEPT !.family = "AF_INET", !.port = a.port, !.ip = a.ip]
      [] a.type = "NA_IP6"       -> Sockadr("AF_INET6", a.ip, a.port, a.scope_id)
      [] OTHER                   -> s

\* The scope of an earlier address stays with an NA_IP one.
SockadrToNetadr(s, a) ==
    CASE s.family = "AF_INET"  -> [a EXCEPT !.type = "NA_IP", !.ip = s.ip, !.port = s.port]
      [] s.family = "AF_INET6" -> Netadr("NA_IP6", s.ip, s.port, s.scope_id)
      [] OTHER                 -> a

\* SearchAddrInfo: a sequence of none or one.
SearchAddrInfo(hints, family) ==
    LET found == SelectSeq(hints, LAMBDA h : h.family = family)
    IN  IF found = <<>> THEN <<>> ELSE <<Head(found)>>

\* Sys_StringToSockaddr; enabled is net_enabled, a set of "v4", "v6", "priov6".
Sys_StringToSockaddr(hints, family, enabled) ==
    LET Of(version, fam) == IF version \in enabled THEN SearchAddrInfo(hints, fam) ELSE <<>>
        v4 == Of("v4", "AF_INET")
        v6 == Of("v6", "AF_INET6")
    IN  IF family # "AF_UNSPEC" THEN SearchAddrInfo(hints, family)
        ELSE IF "priov6" \in enabled THEN (IF v6 # <<>> THEN v6 ELSE v4)
        ELSE IF v4 # <<>> THEN v4 ELSE v6

\* Sys_StringToAdr; family is a netadrtype_t.
Sys_StringToAdr(hints, a, family, enabled) ==
    LET fam == CASE family = "NA_IP" -> "AF_INET" [] family = "NA_IP6" -> "AF_INET6" [] OTHER -> "AF_UNSPEC"
        s   == Sys_StringToSockaddr(hints, fam, enabled)
    IN  IF s = <<>> THEN a ELSE SockadrToNetadr(s[1], a)
----------------------------------------------------------------------------
(* Comparing.                                                              *)

\* The first netmask bits; a mask out of range stands for all of them.
Bits(ip, n) == [i \in 1 .. n |-> (ip[(i - 1) \div 8 + 1] \div 2^(7 - ((i - 1) % 8))) % 2]
NET_CompareBaseAdrMask(a, b, netmask) ==
    LET n == IF netmask \in 0 .. 8 * Len(a.ip) THEN netmask ELSE 8 * Len(a.ip)
    IN  /\ a.type = b.type
        /\ \/ a.type = "NA_LOOPBACK"
           \/ a.type \in IP /\ Bits(a.ip, n) = Bits(b.ip, n)
NET_CompareBaseAdr(a, b) == NET_CompareBaseAdrMask(a, b, -1)
NET_CompareAdr(a, b) == NET_CompareBaseAdr(a, b) /\ (a.type \in IP => a.port = b.port)

Sign(x) == IF x < 0 THEN -1 ELSE IF x > 0 THEN 1 ELSE 0

\* The first difference of the bytes that both have.
BytesCompared(s, t) ==
    LET D == {i \in 1 .. Min({Len(s), Len(t)}) : s[i] # t[i]}
    IN  IF D = {} THEN 0 ELSE Sign(s[Min(D)] - t[Min(D)])

\* Of two addresses of different types that start alike, the NA_IP6 is greater.
NET_CompareAdrSigned(a, b) ==
    IF {a.type, b.type} \cap IP # {a.type, b.type} THEN 0
    ELSE IF BytesCompared(a.ip, b.ip) # 0 THEN BytesCompared(a.ip, b.ip)
    ELSE IF a.type = b.type THEN Sign(a.port - b.port)
    ELSE IF a.type = "NA_IP" THEN -1 ELSE 1

NET_IsLocalAddress(a) == a.type = "NA_LOOPBACK"

\* The text of an address, its numbers unformatted; an NA_IP6 goes in brackets.
NET_AdrToStringShort(a) == IF a.type \in IP THEN [of |-> a.type, host |-> a.ip] ELSE [of |-> a.type, host |-> <<>>]
NET_AdrToString(a) ==
    IF a.type \in IP THEN [of |-> a.type, host |-> a.ip, brackets |-> a.type = "NA_IP6", port |-> a.port]
    ELSE [of |-> a.type, host |-> <<>>, brackets |-> FALSE, port |-> 0]
=============================================================================
