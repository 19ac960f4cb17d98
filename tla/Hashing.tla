------------------------------- MODULE Hashing ------------------------------
(***************************************************************************)
(* Hashes (src/tomcrypt/hashes, src/sec_crypto.c): how a message that      *)
(* comes in pieces is cut into blocks and padded.  What a block does to    *)
(* the state of SHA-1, SHA-256 or Tiger is a parameter.                    *)
(***************************************************************************)
EXTENDS Integers, Sequences
LOCAL INSTANCE SequencesExt

CONSTANTS
    Start,          \* the state a hash starts from
    Compress(_, _), \* what a state becomes with a block
    Output(_)       \* the digest of a state

Block == 64
Buff  == 1024                       \* what Sec_HashFile reads at once
NoDigest == << >>

hash_init == [state |-> Start, buf |-> << >>, length |-> 0]

\* (variant) The length of a block that was collected is not counted.
RECURSIVE ProcessUncounted(_, _)
ProcessUncounted(md, in) ==
    LET n   == IF Len(md.buf) + Len(in) < Block THEN Len(in) ELSE Block - Len(md.buf)
        buf == md.buf \o SubSeq(in, 1, n)
    IN  IF in = << >> THEN md
        ELSE IF Len(buf) < Block THEN [md EXCEPT !.buf = buf]
        ELSE ProcessUncounted([state |-> Compress(md.state, buf), buf |-> << >>,
                               length |-> md.length + (IF md.buf = << >> THEN 8 * Block ELSE 0)], SubSeq(in, n + 1, Len(in)))

\* Whole blocks are taken from the input, what is not one is collected in buf.
RECURSIVE HASH_PROCESS(_, _)
HASH_PROCESS(md, in) ==
    LET n    == IF Len(md.buf) + Len(in) < Block THEN Len(in) ELSE Block - Len(md.buf)
        buf  == md.buf \o SubSeq(in, 1, n)
        rest == SubSeq(in, n + 1, Len(in))
    IN  IF in = << >> THEN md
        ELSE IF Len(buf) < Block THEN [md EXCEPT !.buf = buf]
        ELSE HASH_PROCESS([state |-> Compress(md.state, buf), buf |-> << >>, length |-> md.length + 8 * Block], rest)

Zeros(n)     == [i \in 1 .. n |-> 0]
\* The 64 bits of a length; STORE64H starts with the highest octet, STORE64L with the lowest.
STORE64L(n)  == [i \in 1 .. 8 |-> IF i > 4 THEN 0 ELSE (n \div 256^(i - 1)) % 256]
STORE64H(n)  == Reverse(STORE64L(n))

\* A mark, zeros up to the last eight octets of a block and the length in bits.
Finished(md, mark, length) ==
    LET marked == Append(md.buf, mark)
        full   == Len(marked) > Block - 8
        state  == IF full THEN Compress(md.state, marked \o Zeros(Block - Len(marked))) ELSE md.state
        last   == IF full THEN Zeros(Block - 8) ELSE marked \o Zeros(Block - 8 - Len(marked))
    IN  IF Len(md.buf) >= Block THEN NoDigest ELSE Output(Compress(state, last \o length))
BitLength(md)   == md.length + 8 * Len(md.buf)
sha1_done(md)   == Finished(md, 128, STORE64H(BitLength(md)))
sha256_done(md) == Finished(md, 128, STORE64H(BitLength(md)))
tiger_done(md)  == Finished(md, 1, STORE64L(BitLength(md)))

\* The algorithms Sec_Init enters, each only after its self-test.
Algorithms == {"SEC_HASH_SHA1", "SEC_HASH_SHA256", "SEC_HASH_TIGER"}
hashsize   == [SEC_HASH_SHA1 |-> 20, SEC_HASH_SHA256 |-> 32, SEC_HASH_TIGER |-> 24]
Sec_Init(testing) == testing = Algorithms       \* initialized, given those whose test succeeds
done(algo, md) ==
    CASE algo = "SEC_HASH_SHA1" -> sha1_done(md) [] algo = "SEC_HASH_SHA256" -> sha256_done(md) [] OTHER -> tiger_done(md)

hex == [i \in 1 .. 16 |-> IF i <= 10 THEN i + 47 ELSE i + 86]
Sec_BinaryToHex(in, outSize) ==
    IF outSize < 2 * Len(in) + 1 THEN NoDigest
    ELSE [i \in 1 .. 2 * Len(in) |-> LET c == in[(i + 1) \div 2] IN hex[1 + (IF i % 2 = 1 THEN c \div 16 ELSE c % 16)]]

\* The digest, as text or as it is; none of an empty message, and none in too
\* small a buffer.
Size(algo, binaryOutput) == IF binaryOutput THEN hashsize[algo] \div 4 ELSE hashsize[algo]
Sec_HashMemory(initialized, algo, in, outSize, binaryOutput) ==
    LET digest == done(algo, HASH_PROCESS(hash_init, in))
    IN  IF outSize < 1 \/ in = << >> \/ ~initialized \/ Size(algo, binaryOutput) > outSize THEN NoDigest
        ELSE IF binaryOutput THEN digest ELSE Sec_BinaryToHex(digest, outSize)

\* A file is read until a read comes back short; an empty one has a digest.  The
\* digest as it is stays in the buffer of the reads.
RECURSIVE ReadOn(_, _)
ReadOn(md, file) ==
    LET x == HASH_PROCESS(md, SubSeq(file, 1, IF Len(file) < Buff THEN Len(file) ELSE Buff))
    IN  IF Len(file) < Buff THEN x ELSE ReadOn(x, SubSeq(file, Buff + 1, Len(file)))
Sec_HashFile(initialized, algo, file, outSize, binaryOutput) ==
    IF outSize < 1 \/ ~initialized \/ Size(algo, binaryOutput) > outSize \/ binaryOutput THEN NoDigest
    ELSE Sec_BinaryToHex(done(algo, ReadOn(hash_init, file)), outSize)
=============================================================================
