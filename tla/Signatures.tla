----------------------------- MODULE Signatures -----------------------------
(***************************************************************************)
(* How a file's signature is checked (src/sec_sign.c, sec_rsa_functions.c, *)
(* src/tomcrypt/pk): the key out of its PEM text, the signature out of its *)
(* base64, RSA with the public key, the padding, and the digest in it      *)
(* compared with that of the file.  A key has its numbers and a type; one  *)
(* that cannot be made or read is NoKey.                                   *)
(***************************************************************************)
EXTENDS DerSequences
LOCAL INSTANCE SequencesExt
LOCAL INSTANCE FiniteSetsExt
LOCAL INSTANCE TLC

CONSTANTS
    RsaMe(_, _, _), \* what RSA makes of octets: (octets, "PK_PUBLIC" or "PK_PRIVATE", key)
    Import(_),      \* the key that rsa_import makes of octets
    Digest(_)       \* the SHA-256 of octets, as text; empty if it has none

Bytes(bits) == (bits \div 8) + (IF bits % 8 # 0 THEN 1 ELSE 0)
----------------------------------------------------------------------------
(* Keys, over numbers small enough to multiply.                            *)

NoKey == [type |-> "none"]
RECURSIVE gcd(_, _)
gcd(x, y) == IF y = 0 THEN x ELSE gcd(y, x % y)
invmod(x, n) == CHOOSE y \in 0 .. n - 1 : (x * y) % n = 1 % n
RECURSIVE exptmod(_, _, _)
exptmod(x, n, m) ==
    LET half == exptmod(x, n \div 2, m)
    IN  IF n = 0 THEN 1 % m ELSE (((half * half) % m) * (IF n % 2 = 1 THEN x % m ELSE 1)) % m

\* Primes less one must have no divisor in common with e; others are drawn until
\* they have none.  The same prime drawn twice has no inverse.
Drawn(primes, e) == {p \in primes : gcd(p - 1, e) = 1}
rsa_make_key(p, q, e) ==
    LET d == invmod(e, ((p - 1) * (q - 1)) \div gcd(p - 1, q - 1))
    IN  IF e < 3 \/ e % 2 = 0 \/ p = q THEN NoKey
        ELSE [type |-> "PK_PRIVATE", N |-> p * q, e |-> e, d |-> d, p |-> p, q |-> q,
              dP |-> d % (p - 1), dQ |-> d % (q - 1), qP |-> invmod(q, p)]

\* (variant) The two powers are subtracted the other way round.
ByPrimesSwapped(x, key) ==
    LET tmpa == exptmod(x, key.dP, key.p)
        tmpb == exptmod(x, key.dQ, key.q)
    IN  (((tmpb - tmpa) * key.qP) % key.p) * key.q + tmpb
\* The private power from those modulo the two primes.  A number that is the
\* modulus itself is taken as well.
ByPrimes(x, key) ==
    LET tmpa == exptmod(x, key.dP, key.p)
        tmpb == exptmod(x, key.dQ, key.q)
    IN  (((tmpa - tmpb) * key.qP) % key.p) * key.q + tmpb
NoNumber == -1
rsa_exptmod(x, which, key) ==
    IF (which = "PK_PRIVATE" /\ key.type # "PK_PRIVATE") \/ x > key.N THEN NoNumber
    ELSE IF which = "PK_PRIVATE" THEN ByPrimes(x, key) ELSE exptmod(x, key.e, key.N)

PrivateFields == <<"N", "e", "d", "p", "q", "dP", "dQ", "qP">>
MpIntegers(values) == [i \in DOMAIN values |-> Item("integer", values[i])]
rsa_export(type, key) ==
    IF type = "PK_PRIVATE" /\ key.type # "PK_PRIVATE" THEN NotEncoded
    ELSE IF type = "PK_PRIVATE"
    THEN der_encode_sequence_multi(<<Item("short", 0)>> \o MpIntegers([i \in 1 .. 8 |-> key[PrivateFields[i]]]))
    ELSE der_encode_sequence_multi(MpIntegers(<<key.N, key.e>>))

\* A key as OpenSSL writes it, a sequence of an algorithm and of the bits of a
\* sequence <<N, e>>; or the key itself, which a version 0 in front makes private.
MAX_RSA_SIZE == 4096
PublicKey(N, e) == [type |-> "PK_PUBLIC", N |-> N, e |-> e]
rsa_import(in) ==
    LET any(n)  == MpIntegers([i \in 1 .. n |-> 0])
        ssl     == der_decode_sequence_ex(in, <<Item("sequence", <<Item("oid", 16), Item("null", 0)>>), Item("bits", MAX_RSA_SIZE * 8)>>, TRUE)
        bits    == ssl[1][2].value
        octets  == [t \in 1 .. Len(bits) \div 8 |-> FoldLeft(LAMBDA y, b : 2 * y + b, 0, SubSeq(bits, 8 * t - 7, 8 * t))]
        inner   == der_decode_sequence_multi(octets, any(2))
        first   == der_decode_sequence_multi(in, any(1))
        private == der_decode_sequence_multi(in, any(9))
        public  == der_decode_sequence_multi(in, any(2))
    IN  IF ssl # Invalid THEN IF inner = Invalid THEN NoKey ELSE PublicKey(inner[1][1].value, inner[1][2].value)
        ELSE IF first = Invalid THEN NoKey
        ELSE IF first[1][1].value = 0
        THEN IF private = Invalid THEN NoKey
             ELSE [type |-> "PK_PRIVATE"] @@ [f \in ToSet(PrivateFields) |->
                     private[1][1 + (CHOOSE i \in 1 .. 8 : PrivateFields[i] = f)].value]
        ELSE IF first[1][1].value = 1 \/ public = Invalid THEN NoKey
        ELSE PublicKey(public[1][1].value, public[1][2].value)
----------------------------------------------------------------------------
(* Padding, PKCS #1 version 1.5.                                           *)

LTC_LTC_PKCS_1_EMSA == 1        \* also LTC_LTC_PKCS_1_V1_5
LTC_LTC_PKCS_1_EME  == 2

\* `random` is what the generator gives, drawn again where it is 0.
pkcs_1_v1_5_encode(msg, block_type, modulus_bitlen, random) ==
    LET modulus_len == Bytes(modulus_bitlen)
        ps == [i \in 1 .. modulus_len - Len(msg) - 3 |-> IF block_type = LTC_LTC_PKCS_1_EME THEN random[i] ELSE 255]
    IN  IF block_type \notin {LTC_LTC_PKCS_1_EMSA, LTC_LTC_PKCS_1_EME} \/ Len(msg) + 11 > modulus_len THEN Invalid
        ELSE <<0, block_type>> \o ps \o <<0>> \o msg

\* Random octets must be eight at least; there may be any number of 255.
pkcs_1_v1_5_decode(msg, block_type, modulus_bitlen, outlen) ==
    LET modulus_len == Bytes(modulus_bitlen)
        eme         == block_type = LTC_LTC_PKCS_1_EME
        ends        == {i \in 3 .. modulus_len : IF eme THEN msg[i] = 0 ELSE msg[i] # 255}
        at          == IF ends = {} THEN modulus_len ELSE Min(ends)
    IN  IF Len(msg) > modulus_len \/ modulus_len < 11 THEN Invalid
        ELSE IF msg[1] # 0 \/ msg[2] # block_type THEN Invalid
        ELSE IF eme /\ (at = modulus_len \/ at - 3 < 8) THEN Invalid
        ELSE IF msg[at] # 0 \/ Len(msg) - at > outlen THEN Invalid
        ELSE <<SubSeq(msg, at + 1, Len(msg))>>

rsa_decrypt_puplickey_nnj(in, outlen, key) ==
    IF Len(in) # Bytes(key.bits) THEN Invalid
    ELSE pkcs_1_v1_5_decode(RsaMe(in, "PK_PUBLIC", key), LTC_LTC_PKCS_1_EMSA, key.bits, outlen)
----------------------------------------------------------------------------
(* The check.  cod4xpem is the key the program comes with; a text ends at  *)
(* its first 0, and texts are compared without regard to case.             *)

DerCert    == 16384
ClearText  == 16384
CipherText == 131072

Text(s)    == IF \E i \in DOMAIN s : s[i] = 0 THEN SubSeq(s, 1, Min({i \in DOMAIN s : s[i] = 0}) - 1) ELSE s
Upper(s)   == [i \in DOMAIN s |-> IF s[i] \in 97 .. 122 THEN s[i] - 32 ELSE s[i]]
Sec_VerifyMemory(cod4xpem, expectedb64hash, memory) ==
    LET dercert    == Sec_Pem2Der(cod4xpem, DerCert)
        ciphertext == base64_decode(expectedb64hash, CipherText)
        rsakey     == Import(dercert[1])
        cleartext  == rsa_decrypt_puplickey_nnj(ciphertext[1], ClearText - 1, rsakey)
    IN  /\ dercert # Invalid /\ ciphertext # Invalid
        /\ rsakey.type # "none"
        /\ cleartext # Invalid
        /\ Digest(memory) # << >>
        /\ Upper(Digest(memory)) = Upper(Text(cleartext[1]))

\* `read` is what reading the file's `data` gave.
Sec_VerifyFile(cod4xpem, expectedb64hash, data, read) ==
    /\ data # << >> /\ Len(read) = Len(data)
    /\ Sec_VerifyMemory(cod4xpem, expectedb64hash, read)
=============================================================================
