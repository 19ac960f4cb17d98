------------------------- MODULE HttpReadingProofs -------------------------
(***************************************************************************)
(* What the operators of HttpTransfer that read an answer return, however  *)
(* much of the answer has arrived: where the lines of the header end, when *)
(* the header is found, which chunks are complete and what their data is.  *)
(* The operators are recursive functions and these facts are proved by     *)
(* induction (SetInduction).  HttpTransferProofs uses HeaderLinesOf,       *)
(* HeaderSearchOf, ChunksRead and ChunksDone.                              *)
(***************************************************************************)
EXTENDS HttpTransfer, SetInduction, SequenceTheorems
LOCAL INSTANCE FiniteSetsExt
LOCAL INSTANCE SequencesExt
----------------------------------------------------------------------------
(* Joining sequences.                                                      *)

\* FlattenSeq, which the answers are put together with, ends in the last element
\* of the function it defines by recursion.
LEMMA FlattenIs ==
  ASSUME NEW ss, Len(ss) \in Nat, Len(ss) # 0
  PROVE  \E f : Accumulates(f, Len(ss), ss) /\ FlattenSeq(ss) = f[Len(ss)]
<1> DEFINE F == CHOOSE f : f = [i \in 1 .. Len(ss) |-> IF i = 1 THEN ss[i] ELSE f[i - 1] \o ss[i]]
<1>1. FlattenSeq(ss) = F[Len(ss)]
  BY DEF FlattenSeq
<1>2. F = CHOOSE f : Accumulates(f, Len(ss), ss)
  BY DEF Accumulates
<1> HIDE DEF F
<1>3. Accumulates(F, Len(ss), ss)
  BY <1>2, AccumulatorExists
<1> QED BY <1>1, <1>3

\* Nothing joined is nothing.
LEMMA FlattenEmpty == FlattenSeq(<< >>) = << >>
BY DEF FlattenSeq

\* One sequence more is joined to the end.
LEMMA FlattenStep ==
  ASSUME NEW S, NEW ss \in Seq(Seq(S)), NEW tt \in Seq(Seq(S)), Len(tt) = Len(ss) + 1,
         \A i \in 1 .. Len(ss) : tt[i] = ss[i]
  PROVE  FlattenSeq(tt) = FlattenSeq(ss) \o tt[Len(tt)]
<1> DEFINE n == Len(ss)
<1>0. n \in Nat /\ Len(tt) = n + 1 /\ \A i \in 1 .. n + 1 : tt[i] \in Seq(S)
  OBVIOUS
<1>1. PICK g : Accumulates(g, n + 1, tt) /\ FlattenSeq(tt) = g[n + 1]
  BY <1>0, FlattenIs
<1>2. CASE n = 0
  <2>1. ss = << >>
    BY <1>2
  <2>2. g[1] = tt[1]
    BY <1>1, <1>2 DEF Accumulates
  <2> QED BY <1>0, <1>1, <1>2, <2>1, <2>2, FlattenEmpty
<1>3. CASE n # 0
  <2>1. PICK f : Accumulates(f, n, ss) /\ FlattenSeq(ss) = f[n]
    BY <1>0, <1>3, FlattenIs
  <2>2. Accumulates(f, n, tt)
    BY <2>1 DEF Accumulates
  <2>3. f[n] = g[n]
    <3>1. /\ n \in Nat /\ n + 1 \in Nat /\ n <= n + 1 /\ n \in 1 .. n
          /\ \A i \in 1 .. n + 1 : tt[i] \in Seq(S)
          /\ Accumulates(f, n, tt) /\ Accumulates(g, n + 1, tt)
      BY <1>0, <1>1, <1>3, <2>2
    <3> HIDE DEF n
    <3>2. \A i \in 1 .. n : f[i] = g[i] /\ f[i] \in Seq(S)
      BY <3>1, AccumulatorsAgree
    <3> QED BY <3>1, <3>2
  <2>4. g[n + 1] = g[n] \o tt[n + 1]
    <3> DEFINE J(i, y) == y \o tt[i]
    <3>1. g = [i \in 1 .. n + 1 |-> IF i = 1 THEN tt[i] ELSE J(i, g[i - 1])]
      BY <1>1 DEF Accumulates
    <3>2. n + 1 \in 1 .. n + 1 /\ n + 1 # 1 /\ (n + 1) - 1 = n
      BY <1>0, <1>3
    <3> HIDE DEF J, n
    <3>3. g[n + 1] = J(n + 1, g[n])
      BY <3>1, <3>2
    <3> QED BY <3>3 DEF J
  <2> QED BY <1>0, <1>1, <2>1, <2>3, <2>4
<1> QED BY <1>2, <1>3
----------------------------------------------------------------------------
(* Lines (ReadStringLine).                                                 *)

\* Min, which looks for the end of a line, takes the smallest number.
LEMMA MinIs ==
  ASSUME NEW S, S \subseteq Nat, S # {}
  PROVE  Min(S) \in S /\ \A n \in S : Min(S) <= n
<1>1. \E m \in S : \A n \in S : m <= n
  BY SmallestNumber
<1> QED BY <1>1 DEF Min

\* What is below all others is the smallest.
LEMMA MinIsThis ==
  ASSUME NEW S, S \subseteq Nat, NEW m \in S, \A n \in S : m <= n
  PROVE  Min(S) = m
<1>1. Min(S) \in S /\ \A n \in S : Min(S) <= n
  BY MinIs
<1>2. Min(S) <= m /\ m <= Min(S) /\ Min(S) \in Nat /\ m \in Nat
  BY <1>1
<1> QED BY <1>2

EndsLine(x) == x \in {LF, NUL}

\* MSG_ReadStringLine, where the line has an end.
LEMMA LineEnds ==
  ASSUME NEW s, Len(s) \in Nat, NEW p \in 0 .. Len(s), NEW e \in p + 1 .. Len(s),
         EndsLine(s[e]), \A i \in p + 1 .. e - 1 : ~EndsLine(s[i])
  PROVE  ReadStringLine(s, p) = [text |-> SubSeq(s, p + 1, e - 1), next |-> e]
<1> DEFINE ends == {i \in p + 1 .. Len(s) : s[i] \in {LF, NUL}}
<1>1. ends \subseteq Nat /\ e \in ends
  BY DEF EndsLine
<1>2. \A n \in ends : e <= n
  BY DEF EndsLine
<1>3. Min(ends) = e /\ ends # {}
  <2> HIDE DEF ends
  <2> QED BY <1>1, <1>2, MinIsThis
<1> QED BY <1>3 DEF ReadStringLine

\* MSG_ReadStringLine, where the data ends before the line does.
LEMMA LineOpen ==
  ASSUME NEW s, Len(s) \in Nat, NEW p \in 0 .. Len(s),
         \A i \in p + 1 .. Len(s) : ~EndsLine(s[i])
  PROVE  ReadStringLine(s, p) = [text |-> SubSeq(s, p + 1, Len(s)), next |-> Len(s)]
<1>1. {i \in p + 1 .. Len(s) : s[i] \in {LF, NUL}} = {}
  BY DEF EndsLine
<1>2. (Len(s) + 1) - 1 = Len(s)
  OBVIOUS
<1> QED BY <1>1, <1>2 DEF ReadStringLine

\* There are no other lines.
LEMMA LineForms ==
  ASSUME NEW s, Len(s) \in Nat, NEW p \in 0 .. Len(s)
  PROVE  \/ \E e \in p + 1 .. Len(s) :
              /\ EndsLine(s[e]) /\ \A i \in p + 1 .. e - 1 : ~EndsLine(s[i])
              /\ ReadStringLine(s, p) = [text |-> SubSeq(s, p + 1, e - 1), next |-> e]
         \/ /\ \A i \in p + 1 .. Len(s) : ~EndsLine(s[i])
            /\ ReadStringLine(s, p) = [text |-> SubSeq(s, p + 1, Len(s)), next |-> Len(s)]
<1> DEFINE ends == {i \in p + 1 .. Len(s) : EndsLine(s[i])}
<1>1. CASE ends = {}
  BY <1>1, LineOpen
<1>2. CASE ends # {}
  <2>1. ends \subseteq Nat
    OBVIOUS
  <2>2. PICK e \in ends : \A n \in ends : e <= n
    <3> HIDE DEF ends
    <3> QED BY <1>2, <2>1, SmallestNumber
  <2>3. e \in p + 1 .. Len(s) /\ EndsLine(s[e]) /\ \A i \in p + 1 .. e - 1 : ~EndsLine(s[i])
    BY <2>2
  <2> QED BY <2>3, LineEnds
<1> QED BY <1>1, <1>2

\* A line is inside the data, and one that is not empty moves readcount.
LEMMA LineForward ==
  ASSUME NEW s \in Seq(Symbol), NEW p \in 0 .. Len(s)
  PROVE  /\ ReadStringLine(s, p).next \in p .. Len(s)
         /\ ReadStringLine(s, p).text \in Seq(Symbol)
         /\ ReadStringLine(s, p).text # << >> => ReadStringLine(s, p).next \in p + 1 .. Len(s)
<1>0. Len(s) \in Nat
  OBVIOUS
<1>1. ASSUME NEW e \in p + 1 .. Len(s),
             ReadStringLine(s, p) = [text |-> SubSeq(s, p + 1, e - 1), next |-> e]
      PROVE  /\ ReadStringLine(s, p).next \in p + 1 .. Len(s)
             /\ ReadStringLine(s, p).text \in Seq(Symbol)
  <2>1. SubSeq(s, p + 1, e - 1) \in Seq(Symbol)
    OBVIOUS
  <2> QED BY <1>1, <2>1
<1>2. ASSUME ReadStringLine(s, p) = [text |-> SubSeq(s, p + 1, Len(s)), next |-> Len(s)]
      PROVE  /\ ReadStringLine(s, p).next \in p .. Len(s)
             /\ ReadStringLine(s, p).text \in Seq(Symbol)
             /\ ReadStringLine(s, p).text # << >> => ReadStringLine(s, p).next \in p + 1 .. Len(s)
  <2>1. SubSeq(s, p + 1, Len(s)) \in Seq(Symbol)
    OBVIOUS
  <2>2. p = Len(s) => SubSeq(s, p + 1, Len(s)) = << >>
    OBVIOUS
  <2> QED BY <1>2, <2>1, <2>2
<1>3. CASE \E e \in p + 1 .. Len(s) :
              ReadStringLine(s, p) = [text |-> SubSeq(s, p + 1, e - 1), next |-> e]
  <2>1. PICK e \in p + 1 .. Len(s) :
              ReadStringLine(s, p) = [text |-> SubSeq(s, p + 1, e - 1), next |-> e]
    BY <1>3
  <2>2. p + 1 .. Len(s) \subseteq p .. Len(s)
    OBVIOUS
  <2> QED BY <1>1, <2>1, <2>2
<1> QED BY <1>0, <1>2, <1>3, LineForms
----------------------------------------------------------------------------
(* The loops over lines and over chunks.                                   *)

\* The loops over header lines, from one line to the next.
LEMMA ReadHeaderStep ==
  ASSUME NEW s \in Seq(Symbol), NEW p \in 0 .. Len(s)
  PROVE  ReadHeader(s, p) =
           IF ReadStringLine(s, p).text = << >>
           THEN [found |-> FALSE, at |-> ReadStringLine(s, p).next]
           ELSE IF ReadStringLine(s, p).text[1] = CR
           THEN [found |-> TRUE, at |-> ReadStringLine(s, p).next]
           ELSE ReadHeader(s, ReadStringLine(s, p).next)
<1> DEFINE L == Len(s)
           T(q) == ReadStringLine(s, q).text
           N(q) == ReadStringLine(s, q).next
           Is(f) == f = [q \in 0 .. L |->
                           IF T(q) = << >> THEN [found |-> FALSE, at |-> N(q)]
                           ELSE IF T(q)[1] = CR THEN [found |-> TRUE, at |-> N(q)]
                           ELSE f[N(q)]]
           Stop == {q \in 0 .. L : T(q) = << >> \/ T(q)[1] = CR}
           val  == [q \in 0 .. L |-> [found |-> T(q) # << >>, at |-> N(q)]]
           nxt  == [q \in 0 .. L |-> N(q)]
           F    == CHOOSE f : Is(f)
<1>0. L \in Nat
  OBVIOUS
<1>1. \A q : ReadHeader(s, q) = F[q]
  BY DEF ReadHeader
<1>2. Forward(L, Stop, nxt)
  <2>1. \A q \in 0 .. L : T(q) # << >> => N(q) \in q + 1 .. L
    BY LineForward
  <2> HIDE DEF T, N
  <2> QED BY <2>1 DEF Forward
<1>3. PICK f : Follows(f, L, Stop, val, nxt)
  <2> HIDE DEF L, Stop, val, nxt
  <2> QED BY <1>0, <1>2, FollowerExists
<1>4. Is(f)
  <2>1. f = [q \in 0 .. L |-> IF q \in Stop THEN val[q] ELSE f[nxt[q]]]
    BY <1>3 DEF Follows
  <2> HIDE DEF T, N, L
  <2>2. \A q \in 0 .. L : (IF q \in Stop THEN val[q] ELSE f[nxt[q]]) =
                          IF T(q) = << >> THEN [found |-> FALSE, at |-> N(q)]
                          ELSE IF T(q)[1] = CR THEN [found |-> TRUE, at |-> N(q)]
                          ELSE f[N(q)]
    <3> SUFFICES ASSUME NEW q \in 0 .. L
                 PROVE  (IF q \in Stop THEN val[q] ELSE f[nxt[q]]) =
                          IF T(q) = << >> THEN [found |-> FALSE, at |-> N(q)]
                          ELSE IF T(q)[1] = CR THEN [found |-> TRUE, at |-> N(q)]
                          ELSE f[N(q)]
      OBVIOUS
    <3>1. CASE T(q) = << >>
      BY <3>1
    <3>2. CASE T(q) # << >> /\ T(q)[1] = CR
      BY <3>2
    <3>3. CASE T(q) # << >> /\ T(q)[1] # CR
      BY <3>3
    <3> QED BY <3>1, <3>2, <3>3
  <2> HIDE DEF Stop, val, nxt
  <2> QED BY <2>1, <2>2
<1>5. Is(F)
  <2> HIDE DEF Is
  <2> QED BY <1>4
<1> HIDE DEF F
<1>6. F[p] = IF T(p) = << >> THEN [found |-> FALSE, at |-> N(p)]
             ELSE IF T(p)[1] = CR THEN [found |-> TRUE, at |-> N(p)]
             ELSE F[N(p)]
  <2> HIDE DEF T, N
  <2> QED BY <1>5
<1> QED BY <1>1, <1>6

\* They stay inside the data.
LEMMA ReadHeaderForward ==
  ASSUME NEW s \in Seq(Symbol), NEW p \in 0 .. Len(s)
  PROVE  ReadHeader(s, p).at \in p .. Len(s) /\ ReadHeader(s, p).found \in BOOLEAN
<1> DEFINE L == Len(s)
           T(q) == ReadStringLine(s, q).text
           N(q) == ReadStringLine(s, q).next
           H(q) == ReadHeader(s, q)
           G == {q \in 0 .. L : H(q).at \in q .. L /\ H(q).found \in BOOLEAN}
<1>0. L \in Nat
  OBVIOUS
<1>1. ASSUME NEW q \in 0 .. L, \A x \in q + 1 .. L : x \in G PROVE q \in G
  <2>1. N(q) \in q .. L /\ (T(q) # << >> => N(q) \in q + 1 .. L)
    BY LineForward
  <2>2. H(q) = IF T(q) = << >> THEN [found |-> FALSE, at |-> N(q)]
               ELSE IF T(q)[1] = CR THEN [found |-> TRUE, at |-> N(q)]
               ELSE H(N(q))
    BY ReadHeaderStep
  <2> HIDE DEF T, N, H, L
  <2>3. CASE T(q) # << >> /\ T(q)[1] # CR
    <3>1. N(q) \in G
      BY <1>1, <2>1, <2>3
    <3>2. H(N(q)).at \in N(q) .. L /\ H(N(q)).found \in BOOLEAN /\ N(q) \in q + 1 .. L
      BY <3>1, <2>1, <2>3
    <3>3. H(N(q)).at \in q .. L
      BY <3>2, <1>0
    <3> QED BY <2>2, <2>3, <3>2, <3>3
  <2>4. CASE T(q) = << >>
    <3>1. H(q) = [found |-> FALSE, at |-> N(q)]
      BY <2>2, <2>4
    <3>2. H(q).at = N(q) /\ H(q).found \in BOOLEAN
      BY <3>1
    <3> QED BY <3>2, <2>1
  <2>5. CASE T(q) # << >> /\ T(q)[1] = CR
    <3>1. H(q) = [found |-> TRUE, at |-> N(q)]
      BY <2>2, <2>5
    <3>2. H(q).at = N(q) /\ H(q).found \in BOOLEAN
      BY <3>1
    <3> QED BY <3>2, <2>1
  <2> QED BY <2>3, <2>4, <2>5
<1>2. \A q \in 0 .. L : q \in G
  <2> HIDE DEF L, G
  <2> QED BY <1>0, <1>1, DownwardInduction
<1> QED BY <1>2

\* A chunk that is complete is inside the data and moves the offset.
LEMMA ChunkForward ==
  ASSUME NEW s \in Seq(Symbol), NEW p \in 0 .. Len(s)
  PROVE  /\ HasSizeLine(s, p) => ChunkSize(s, p) \in Nat
         /\ ChunkStart(s, p) \in p .. Len(s)
         /\ HasSizeLine(s, p) => ChunkStart(s, p) \in p + 1 .. Len(s)
         /\ ChunkComplete(s, p) => ChunkEnd(s, p) + 2 \in p + 1 .. Len(s)
<1> DEFINE text == ReadStringLine(s, p).text
<1>1. /\ ChunkStart(s, p) \in p .. Len(s) /\ text \in Seq(Symbol)
      /\ text # << >> => ChunkStart(s, p) \in p + 1 .. Len(s)
  BY LineForward DEF ChunkStart
<1>2. HasSizeLine(s, p) => text # << >> /\ 1 \in DOMAIN text
  BY <1>1 DEF HasSizeLine
<1>3. HasSizeLine(s, p) => ChunkSize(s, p) \in Nat
  <2> SUFFICES ASSUME HasSizeLine(s, p) PROVE ChunkSize(s, p) \in Nat
    OBVIOUS
  <2>1. text[1] \in Symbol
    BY <1>1, <1>2
  <2>2. text[1][2] \in Nat
    BY <2>1 DEF Symbol
  <2> QED BY <2>2 DEF ChunkSize
<1>4. ASSUME ChunkComplete(s, p) PROVE ChunkEnd(s, p) + 2 \in p + 1 .. Len(s)
  <2>1. HasSizeLine(s, p) /\ Len(s) >= ChunkEnd(s, p) + 2
    BY <1>4 DEF ChunkComplete
  <2>2. ChunkEnd(s, p) = ChunkStart(s, p) + ChunkSize(s, p)
    BY DEF ChunkEnd
  <2>3. ChunkStart(s, p) \in p + 1 .. Len(s) /\ ChunkSize(s, p) \in Nat
    BY <1>1, <1>2, <1>3, <2>1
  <2> QED BY <2>1, <2>2, <2>3
<1> QED BY <1>1, <1>2, <1>3, <1>4

\* HTTP_ProcessChunkedEncoding, from one chunk to the next: where it stops ...
LEMMA LastChunkStep ==
  ASSUME NEW s \in Seq(Symbol), NEW p \in 0 .. Len(s)
  PROVE  LastChunk(s, p) = IF ChunkComplete(s, p) THEN LastChunk(s, ChunkEnd(s, p) + 2) ELSE p
<1> DEFINE L == Len(s)
           Is(f) == f = [q \in 0 .. L |-> IF ChunkComplete(s, q) THEN f[ChunkEnd(s, q) + 2] ELSE q]
           Stop == {q \in 0 .. L : ~ChunkComplete(s, q)}
           val  == [q \in 0 .. L |-> q]
           nxt  == [q \in 0 .. L |-> ChunkEnd(s, q) + 2]
           F    == CHOOSE g : Is(g)
<1>1. Forward(L, Stop, nxt)
  BY ChunkForward DEF Forward
<1>2. PICK f : Follows(f, L, Stop, val, nxt)
  <2>1. L \in Nat
    OBVIOUS
  <2> HIDE DEF L, Stop, val, nxt
  <2> QED BY <1>1, <2>1, FollowerExists
<1>3. Is(f)
  BY <1>2 DEF Follows
<1>4. Is(F)
  <2> HIDE DEF Is
  <2> QED BY <1>3
<1>5. \A q : LastChunk(s, q) = F[q]
  BY DEF LastChunk
<1> HIDE DEF F
<1>6. F[p] = IF ChunkComplete(s, p) THEN F[ChunkEnd(s, p) + 2] ELSE p
  BY <1>4
<1> QED BY <1>5, <1>6

\* ... and the data it moves together.
LEMMA ChunkDataStep ==
  ASSUME NEW s \in Seq(Symbol), NEW p \in 0 .. Len(s)
  PROVE  ChunkData(s, p) =
           IF ChunkComplete(s, p)
           THEN SubSeq(s, ChunkStart(s, p) + 1, ChunkEnd(s, p)) \o ChunkData(s, ChunkEnd(s, p) + 2)
           ELSE << >>
<1> DEFINE L == Len(s)
           P(q) == SubSeq(s, ChunkStart(s, q) + 1, ChunkEnd(s, q))
           Is(f) == f = [q \in 0 .. L |->
                           IF ChunkComplete(s, q) THEN P(q) \o f[ChunkEnd(s, q) + 2] ELSE << >>]
           Stop == {q \in 0 .. L : ~ChunkComplete(s, q)}
           pre  == [q \in 0 .. L |-> P(q)]
           nxt  == [q \in 0 .. L |-> ChunkEnd(s, q) + 2]
           F    == CHOOSE g : Is(g)
<1>1. Forward(L, Stop, nxt)
  BY ChunkForward DEF Forward
<1>2. PICK f : Collects(f, L, Stop, pre, nxt)
  <2>1. L \in Nat
    OBVIOUS
  <2> HIDE DEF L, Stop, pre, nxt
  <2> QED BY <1>1, <2>1, CollectorExists
<1>3. Is(f)
  <2> HIDE DEF P
  <2> QED BY <1>2 DEF Collects
<1>4. Is(F)
  <2> HIDE DEF Is
  <2> QED BY <1>3
<1>5. \A q : ChunkData(s, q) = F[q]
  BY DEF ChunkData
<1> HIDE DEF F
<1>6. F[p] = IF ChunkComplete(s, p) THEN P(p) \o F[ChunkEnd(s, p) + 2] ELSE << >>
  <2> HIDE DEF P
  <2> QED BY <1>4
<1>7. CASE ChunkComplete(s, p)
  <2>1. F[p] = P(p) \o F[ChunkEnd(s, p) + 2]
    BY <1>6, <1>7
  <2>2. ChunkData(s, p) = F[p] /\ ChunkData(s, ChunkEnd(s, p) + 2) = F[ChunkEnd(s, p) + 2]
    BY <1>5
  <2>3. ChunkData(s, p) = P(p) \o ChunkData(s, ChunkEnd(s, p) + 2)
    <3> HIDE DEF P
    <3> QED BY <2>1, <2>2, Zenon
  <2> QED BY <1>7, <2>3, Zenon
<1>8. CASE ~ChunkComplete(s, p)
  <2>1. ChunkData(s, p) = << >>
    BY <1>5, <1>6, <1>8
  <2> QED BY <1>8, <2>1, Zenon
<1> QED BY <1>7, <1>8
----------------------------------------------------------------------------
(* The answers (Wire).                                                     *)

\* What is joined has the symbols of both.
LEMMA Joined ==
  ASSUME NEW s \in Seq(Symbol), NEW t \in Seq(Symbol)
  PROVE  /\ s \o t \in Seq(Symbol) /\ Len(s \o t) = Len(s) + Len(t)
         /\ \A i \in 1 .. Len(s) : (s \o t)[i] = s[i]
         /\ \A i \in 1 .. Len(t) : (s \o t)[Len(s) + i] = t[i]
OBVIOUS

\* Sequences of symbols are joined to one.
LEMMA FlattenTyped ==
  ASSUME NEW S, NEW ss \in Seq(Seq(S))
  PROVE  FlattenSeq(ss) \in Seq(S)
<1>1. CASE Len(ss) = 0
  <2>1. ss = << >>
    BY <1>1
  <2>2. << >> \in Seq(S)
    OBVIOUS
  <2> QED BY <2>1, <2>2, FlattenEmpty
<1>2. CASE Len(ss) # 0
  <2> DEFINE n == Len(ss)
  <2>1. n \in Nat /\ n <= n /\ n \in 1 .. n /\ \A i \in 1 .. n : ss[i] \in Seq(S)
    BY <1>2
  <2>2. PICK f : Accumulates(f, n, ss) /\ FlattenSeq(ss) = f[n]
    BY <1>2, <2>1, FlattenIs
  <2> HIDE DEF n
  <2>3. \A i \in 1 .. n : f[i] = f[i] /\ f[i] \in Seq(S)
    BY <2>1, <2>2, AccumulatorsAgree
  <2> QED BY <2>1, <2>2, <2>3
<1> QED BY <1>1, <1>2

\* The first k chunks of an answer, as data and as they are sent, and where
\* the chunk after them begins in the answer.
Decoded(r, k) == FlattenSeq(SubSeq(r.chunks, 1, k))
Encoded(r, k) == FlattenSeq([i \in 1 .. k |-> Chunk(r.chunks[i])])
Boundary(r, k) == 8 + Len(Encoded(r, k))

\* The symbols of a chunk as it is sent.
LEMMA ChunkTyped ==
  ASSUME NEW c \in Seq(Symbol)
  PROVE  /\ Chunk(c) \in Seq(Symbol) /\ Len(Chunk(c)) = Len(c) + 5
         /\ Chunk(c)[1] = <<"size", Len(c)>> /\ Chunk(c)[2] = CR /\ Chunk(c)[3] = LF
         /\ \A i \in 1 .. Len(c) : Chunk(c)[3 + i] = c[i]
         /\ Chunk(c)[Len(c) + 4] = CR /\ Chunk(c)[Len(c) + 5] = LF
<1> DEFINE a == <<<<"size", Len(c)>>, CR, LF>>
           b == <<CR, LF>>
<1>1. Len(c) \in Nat /\ CR \in Symbol /\ LF \in Symbol /\ <<"size", Len(c)>> \in Symbol
  <2>1. Len(c) \in Nat
    OBVIOUS
  <2> QED BY <2>1 DEF CR, LF, Symbol
<1>2. a \in Seq(Symbol) /\ b \in Seq(Symbol) /\ Len(a) = 3 /\ Len(b) = 2
      /\ a[1] = <<"size", Len(c)>> /\ a[2] = CR /\ a[3] = LF /\ b[1] = CR /\ b[2] = LF
  BY <1>1
<1> HIDE DEF a, b
<1>3. a \o c \in Seq(Symbol) /\ Len(a \o c) = 3 + Len(c)
      /\ (\A i \in 1 .. 3 : (a \o c)[i] = a[i]) /\ \A i \in 1 .. Len(c) : (a \o c)[3 + i] = c[i]
  <2>1. a \in Seq(Symbol) /\ c \in Seq(Symbol) /\ Len(a) = 3
    BY <1>2
  <2>2. /\ a \o c \in Seq(Symbol) /\ Len(a \o c) = Len(a) + Len(c)
        /\ \A i \in 1 .. Len(a) : (a \o c)[i] = a[i]
        /\ \A i \in 1 .. Len(c) : (a \o c)[Len(a) + i] = c[i]
    BY <2>1, Joined
  <2> QED BY <2>1, <2>2
<1> DEFINE ac == a \o c
<1> HIDE DEF ac
<1>4. ac \in Seq(Symbol) /\ Len(ac) = 3 + Len(c)
      /\ (\A i \in 1 .. 3 : ac[i] = a[i]) /\ \A i \in 1 .. Len(c) : ac[3 + i] = c[i]
  BY <1>3 DEF ac
<1>5. ac \o b \in Seq(Symbol) /\ Len(ac \o b) = Len(c) + 5
      /\ (\A i \in 1 .. Len(c) + 3 : (ac \o b)[i] = ac[i])
      /\ (ac \o b)[Len(c) + 4] = b[1] /\ (ac \o b)[Len(c) + 5] = b[2]
  <2>1. /\ ac \o b \in Seq(Symbol) /\ Len(ac \o b) = Len(ac) + Len(b)
        /\ \A i \in 1 .. Len(ac) : (ac \o b)[i] = ac[i]
        /\ \A i \in 1 .. Len(b) : (ac \o b)[Len(ac) + i] = b[i]
    <3>1. ac \in Seq(Symbol) /\ b \in Seq(Symbol)
      BY <1>2, <1>4
    <3> QED BY <3>1, Joined
  <2>2. 1 \in 1 .. Len(b) /\ 2 \in 1 .. Len(b) /\ Len(ac) + 1 = Len(c) + 4
        /\ Len(ac) + 2 = Len(c) + 5 /\ Len(ac) + Len(b) = Len(c) + 5 /\ Len(ac) = Len(c) + 3
    BY <1>1, <1>2, <1>4
  <2>3. (ac \o b)[Len(ac) + 1] = b[1] /\ (ac \o b)[Len(ac) + 2] = b[2]
    BY <2>1, <2>2
  <2> QED BY <2>1, <2>2, <2>3
<1>6. Chunk(c) = ac \o b
  BY DEF Chunk, ac, a, b
<1>7. \A i \in 1 .. Len(c) : 3 + i \in 1 .. Len(c) + 3
  BY <1>1
<1>8. 1 \in 1 .. Len(c) + 3 /\ 2 \in 1 .. Len(c) + 3 /\ 3 \in 1 .. Len(c) + 3
  BY <1>1
<1> QED BY <1>1, <1>2, <1>4, <1>5, <1>6, <1>7, <1>8

\* The chunks of an answer, from the assumption about the servers.
LEMMA ChunksOf ==
  ASSUME NEW r \in Responses
  PROVE  /\ Len(r.chunks) \in Nat
         /\ r.chunks \in Seq(Seq(Symbol))
         /\ \A i \in 1 .. Len(r.chunks) :
              /\ r.chunks[i] \in Seq(Symbol) /\ Chunk(r.chunks[i]) \in Seq(Symbol)
              /\ Len(Chunk(r.chunks[i])) = Len(r.chunks[i]) + 5
              /\ r.kind = "chunked" => r.chunks[i] # << >> /\ Len(r.chunks[i]) \in Nat \ {0}
<1>1. r.chunks \in Seq(Seq(Symbol)) /\ (r.kind = "chunked" => \A i \in DOMAIN r.chunks : r.chunks[i] # << >>)
  BY HttpAssumption
<1>2. ASSUME NEW i \in 1 .. Len(r.chunks)
      PROVE /\ r.chunks[i] \in Seq(Symbol)
            /\ r.kind = "chunked" => r.chunks[i] # << >>
  BY <1>1
<1>3. ASSUME NEW i \in 1 .. Len(r.chunks)
      PROVE  r.kind = "chunked" => Len(r.chunks[i]) \in Nat \ {0}
  <2> DEFINE c == r.chunks[i]
  <2>1. c \in Seq(Symbol) /\ (r.kind = "chunked" => c # << >>)
    BY <1>2
  <2> HIDE DEF c
  <2>2. Len(c) = 0 => c = << >>
    BY <2>1
  <2>3. Len(c) \in Nat
    BY <2>1
  <2>4. r.kind = "chunked" => Len(c) \in Nat \ {0}
    BY <2>1, <2>2, <2>3
  <2> QED BY <2>4 DEF c
<1>4. Len(r.chunks) \in Nat
  BY <1>1
<1> QED BY <1>1, <1>2, <1>3, <1>4, ChunkTyped

\* The data of the chunks, from one to the next, up to the body.
LEMMA DecodedSteps ==
  ASSUME NEW r \in Responses
  PROVE  /\ Decoded(r, 0) = << >> /\ Decoded(r, Len(r.chunks)) = Body(r)
         /\ \A k \in 0 .. Len(r.chunks) : Decoded(r, k) \in Seq(Symbol)
         /\ \A k \in 0 .. Len(r.chunks) - 1 : Decoded(r, k + 1) = Decoded(r, k) \o r.chunks[k + 1]
<1> DEFINE cs == r.chunks
           n == Len(cs)
           sub(k) == SubSeq(cs, 1, k)
<1>1. n \in Nat /\ cs \in Seq(Seq(Symbol))
  BY ChunksOf
<1> HIDE DEF cs
<1>2. sub(0) = << >> /\ sub(n) = cs
  BY <1>1
<1>3. \A k \in 0 .. n : sub(k) \in Seq(Seq(Symbol)) /\ Len(sub(k)) = k
  BY <1>1
<1>4. \A k \in 0 .. n : \A i \in 1 .. k : sub(k)[i] = cs[i]
  BY <1>1
<1> HIDE DEF sub, n
<1>5. ASSUME NEW k \in 0 .. n - 1
      PROVE  FlattenSeq(sub(k + 1)) = FlattenSeq(sub(k)) \o cs[k + 1]
  <2>1. k \in 0 .. n /\ k + 1 \in 0 .. n /\ k \in Nat
    BY <1>1
  <2>2. /\ sub(k) \in Seq(Seq(Symbol)) /\ sub(k + 1) \in Seq(Seq(Symbol))
        /\ Len(sub(k + 1)) = Len(sub(k)) + 1 /\ Len(sub(k)) = k
    BY <1>3, <2>1
  <2>3. \A i \in 1 .. k : sub(k + 1)[i] = sub(k)[i]
    BY <1>4, <2>1
  <2>4. sub(k + 1)[k + 1] = cs[k + 1]
    BY <1>4, <2>1
  <2> QED BY <2>2, <2>3, <2>4, FlattenStep
<1>6. \A k \in 0 .. n : FlattenSeq(sub(k)) \in Seq(Symbol)
  BY <1>3, FlattenTyped
<1> QED BY <1>2, <1>5, <1>6, FlattenEmpty DEF Decoded, Body, sub, n, cs

\* The same of the chunks as they are sent.
LEMMA EncodedSteps ==
  ASSUME NEW r \in Responses
  PROVE  /\ Encoded(r, 0) = << >>
         /\ \A k \in 0 .. Len(r.chunks) : Encoded(r, k) \in Seq(Symbol)
         /\ \A k \in 0 .. Len(r.chunks) - 1 : Encoded(r, k + 1) = Encoded(r, k) \o Chunk(r.chunks[k + 1])
<1> DEFINE cs == r.chunks
           n == Len(cs)
           sub(k) == [i \in 1 .. k |-> Chunk(cs[i])]
<1>1. n \in Nat /\ \A i \in 1 .. n : Chunk(cs[i]) \in Seq(Symbol)
  BY ChunksOf
<1> HIDE DEF cs
<1>2. sub(0) = << >>
  OBVIOUS
<1>3. \A k \in 0 .. n : sub(k) \in Seq(Seq(Symbol)) /\ Len(sub(k)) = k
  BY <1>1
<1>4. \A k \in 0 .. n : \A i \in 1 .. k : sub(k)[i] = Chunk(cs[i])
  OBVIOUS
<1> HIDE DEF sub, n
<1>5. ASSUME NEW k \in 0 .. n - 1
      PROVE  FlattenSeq(sub(k + 1)) = FlattenSeq(sub(k)) \o Chunk(cs[k + 1])
  <2>1. k \in 0 .. n /\ k + 1 \in 0 .. n /\ k \in Nat
    BY <1>1
  <2>2. /\ sub(k) \in Seq(Seq(Symbol)) /\ sub(k + 1) \in Seq(Seq(Symbol))
        /\ Len(sub(k + 1)) = Len(sub(k)) + 1 /\ Len(sub(k)) = k
    BY <1>3, <2>1
  <2>3. \A i \in 1 .. k : sub(k + 1)[i] = sub(k)[i]
    BY <1>4, <2>1
  <2>4. sub(k + 1)[k + 1] = Chunk(cs[k + 1])
    BY <1>4, <2>1
  <2> QED BY <2>2, <2>3, <2>4, FlattenStep
<1>6. \A k \in 0 .. n : FlattenSeq(sub(k)) \in Seq(Symbol)
  BY <1>3, FlattenTyped
<1> QED BY <1>2, <1>5, <1>6, FlattenEmpty DEF Encoded, sub, n, cs

\* What is joined step by step begins with what was there before.
LEMMA PrefixesGrow ==
  ASSUME NEW n \in Nat, NEW F, NEW P,
         \A k \in 0 .. n : F[k] \in Seq(Symbol), \A k \in 1 .. n : P[k] \in Seq(Symbol),
         \A k \in 0 .. n - 1 : F[k + 1] = F[k] \o P[k + 1],
         NEW j \in 0 .. n, NEW m \in j .. n
  PROVE  Len(F[j]) <= Len(F[m]) /\ \A i \in 1 .. Len(F[j]) : F[m][i] = F[j][i]
<1> DEFINE G(k) == Len(F[j]) <= Len(F[k]) /\ \A i \in 1 .. Len(F[j]) : F[k][i] = F[j][i]
           T == {d \in Nat : j + d <= n => G(j + d)}
<1>1. 0 \in T
  <2>1. j + 0 = j /\ Len(F[j]) \in Nat
    OBVIOUS
  <2> QED BY <2>1
<1>2. ASSUME NEW d \in Nat, d \in T PROVE d + 1 \in T
  <2> SUFFICES ASSUME j + (d + 1) <= n PROVE G(j + (d + 1))
    OBVIOUS
  <2> DEFINE k == j + d
  <2>1. k \in 0 .. n /\ k \in 0 .. n - 1 /\ k + 1 \in 1 .. n /\ j + (d + 1) = k + 1 /\ G(k)
    BY <1>2
  <2> HIDE DEF k, T
  <2>2. F[k] \in Seq(Symbol) /\ P[k + 1] \in Seq(Symbol) /\ F[k + 1] = F[k] \o P[k + 1] /\ F[j] \in Seq(Symbol)
    BY <2>1
  <2>3. /\ Len(F[k + 1]) = Len(F[k]) + Len(P[k + 1])
        /\ \A i \in 1 .. Len(F[k]) : F[k + 1][i] = F[k][i]
    <3> DEFINE x == F[k]
               y == P[k + 1]
    <3>1. x \in Seq(Symbol) /\ y \in Seq(Symbol) /\ F[k + 1] = x \o y
      BY <2>2
    <3> HIDE DEF x, y
    <3>2. /\ Len(x \o y) = Len(x) + Len(y)
          /\ \A i \in 1 .. Len(x) : (x \o y)[i] = x[i]
      BY <3>1, Joined
    <3>3. Len(F[k + 1]) = Len(x) + Len(y) /\ \A i \in 1 .. Len(x) : F[k + 1][i] = x[i]
      BY <3>1, <3>2
    <3> QED BY <3>3 DEF x, y
  <2>4. Len(F[k]) \in Nat /\ Len(P[k + 1]) \in Nat /\ Len(F[j]) \in Nat
    BY <2>2
  <2>5. Len(F[j]) <= Len(F[k + 1])
    <3>1. Len(F[j]) <= Len(F[k])
      BY <2>1
    <3>2. \A x, y, z \in Nat : x <= y => x <= y + z
      OBVIOUS
    <3>3. Len(F[k + 1]) = Len(F[k]) + Len(P[k + 1])
      BY <2>3
    <3> QED BY <3>1, <3>2, <3>3, <2>4
  <2>6. \A i \in 1 .. Len(F[j]) : F[k + 1][i] = F[j][i]
    BY <2>1, <2>3, <2>4
  <2> QED BY <2>1, <2>5, <2>6
<1>3. m - j \in T
  <2> HIDE DEF T
  <2>1. m - j \in Nat
    OBVIOUS
  <2> QED BY <1>1, <1>2, <2>1, NumberInduction
<1>4. m - j \in Nat /\ j + (m - j) = m /\ m <= n
  OBVIOUS
<1>5. G(m)
  BY <1>3, <1>4
<1> QED BY <1>5

\* The first chunks as they are sent begin those of the whole answer ...
LEMMA EncodedPrefix ==
  ASSUME NEW r \in Responses, NEW j \in 0 .. Len(r.chunks), NEW m \in j .. Len(r.chunks)
  PROVE  /\ Len(Encoded(r, j)) <= Len(Encoded(r, m))
         /\ \A i \in 1 .. Len(Encoded(r, j)) : Encoded(r, m)[i] = Encoded(r, j)[i]
<1> DEFINE n == Len(r.chunks)
           F == [k \in 0 .. n |-> Encoded(r, k)]
           P == [k \in 1 .. n |-> Chunk(r.chunks[k])]
<1>1. /\ n \in Nat /\ (\A k \in 0 .. n : F[k] \in Seq(Symbol)) /\ \A k \in 1 .. n : P[k] \in Seq(Symbol)
  BY ChunksOf, EncodedSteps
<1>2. \A k \in 0 .. n - 1 : k \in 0 .. n /\ k + 1 \in 0 .. n /\ k + 1 \in 1 .. n
  BY <1>1
<1>3. \A k \in 0 .. n - 1 : F[k + 1] = F[k] \o P[k + 1]
  BY <1>2, EncodedSteps
<1>4. j \in 0 .. n /\ m \in j .. n /\ m \in 0 .. n
  BY <1>1
<1>5. F[j] = Encoded(r, j) /\ F[m] = Encoded(r, m)
  BY <1>4
<1> HIDE DEF n, F, P
<1>6. Len(F[j]) <= Len(F[m]) /\ \A i \in 1 .. Len(F[j]) : F[m][i] = F[j][i]
  BY <1>1, <1>3, <1>4, PrefixesGrow, ZenonT(60)
<1> QED BY <1>5, <1>6

\* ... and their data begins the body.
LEMMA DecodedPrefix ==
  ASSUME NEW r \in Responses, NEW j \in 0 .. Len(r.chunks)
  PROVE  /\ Len(Decoded(r, j)) <= Len(Body(r))
         /\ \A i \in 1 .. Len(Decoded(r, j)) : Body(r)[i] = Decoded(r, j)[i]
<1> DEFINE n == Len(r.chunks)
           F == [k \in 0 .. n |-> Decoded(r, k)]
           P == [k \in 1 .. n |-> r.chunks[k]]
<1>1. /\ n \in Nat /\ (\A k \in 0 .. n : F[k] \in Seq(Symbol)) /\ \A k \in 1 .. n : P[k] \in Seq(Symbol)
  BY ChunksOf, DecodedSteps
<1>2. \A k \in 0 .. n - 1 : k \in 0 .. n /\ k + 1 \in 0 .. n /\ k + 1 \in 1 .. n
  BY <1>1
<1>3. \A k \in 0 .. n - 1 : F[k + 1] = F[k] \o P[k + 1]
  BY <1>2, DecodedSteps
<1>4. j \in 0 .. n /\ n \in j .. n /\ n \in 0 .. n
  BY <1>1
<1>5. F[j] = Decoded(r, j) /\ F[n] = Body(r)
  BY <1>4, DecodedSteps
<1> HIDE DEF n, F, P
<1>6. Len(F[j]) <= Len(F[n]) /\ \A i \in 1 .. Len(F[j]) : F[n][i] = F[j][i]
  BY <1>1, <1>3, <1>4, PrefixesGrow, ZenonT(60)
<1> QED BY <1>5, <1>6

\* ... and their data is no longer than they are.
LEMMA DecodedShorter ==
  ASSUME NEW r \in Responses, NEW j \in 0 .. Len(r.chunks)
  PROVE  Len(Decoded(r, j)) <= Len(Encoded(r, j))
<1> DEFINE n == Len(r.chunks)
           D(k) == Decoded(r, k)
           E(k) == Encoded(r, k)
           T == {k \in Nat : k <= n => Len(D(k)) <= Len(E(k))}
<1>1. n \in Nat
  BY ChunksOf
<1>2. 0 \in T
  BY DecodedSteps, EncodedSteps
<1>3. ASSUME NEW k \in Nat, k \in T PROVE k + 1 \in T
  <2> SUFFICES ASSUME k + 1 <= n PROVE Len(D(k + 1)) <= Len(E(k + 1))
    OBVIOUS
  <2>1. k \in 0 .. n /\ k \in 0 .. n - 1 /\ k + 1 \in 1 .. n /\ Len(D(k)) <= Len(E(k))
    BY <1>1, <1>3
  <2> DEFINE c == r.chunks[k + 1]
             z == Chunk(c)
             x == D(k)
             y == E(k)
  <2>2. c \in Seq(Symbol) /\ z \in Seq(Symbol) /\ Len(z) = Len(c) + 5
    BY <2>1, ChunksOf, ChunkTyped
  <2>3. x \in Seq(Symbol) /\ y \in Seq(Symbol) /\ D(k + 1) = x \o c /\ E(k + 1) = y \o z
    BY <2>1, DecodedSteps, EncodedSteps
  <2>4. Len(x) <= Len(y)
    BY <2>1
  <2> HIDE DEF c, x, y, z, D, E
  <2>5. Len(x \o c) = Len(x) + Len(c) /\ Len(y \o z) = Len(y) + Len(z)
    BY <2>2, <2>3, Joined
  <2>6. Len(x) \in Nat /\ Len(y) \in Nat /\ Len(c) \in Nat
    BY <2>2, <2>3
  <2> QED BY <2>2, <2>3, <2>4, <2>5, <2>6
<1> HIDE DEF T
<1>4. j \in Nat /\ j <= n /\ j \in T
  BY <1>1, <1>2, <1>3, NumberInduction
<1> QED BY <1>4 DEF T

\* The symbols of a header.
FirstSymbol(r) == IF r.kind = "garbage" THEN <<"other", 0>> ELSE <<"status", r.code>>
FieldSymbol(r) == CASE r.kind = "length"   -> <<"length", Len(Body(r))>>
                    [] r.kind = "chunked"  -> <<"chunked", 0>>
                    [] r.kind = "redirect" -> <<"location", 0>>
                    [] OTHER               -> <<"other", 0>>

IsHeader(s, r) == /\ s[1] = FirstSymbol(r) /\ s[2] = CR /\ s[3] = LF
                  /\ s[4] = FieldSymbol(r) /\ s[5] = CR /\ s[6] = LF
                  /\ s[7] = CR /\ s[8] = LF

\* The header has eight symbols.
LEMMA HeaderIs ==
  ASSUME NEW r \in Responses
  PROVE  /\ IsHeader(Header(r), r) /\ Header(r) \in Seq(Symbol) /\ Len(Header(r)) = 8
         /\ Body(r) \in Seq(Symbol)
<1> DEFINE f == FirstSymbol(r)
           g == FieldSymbol(r)
           a == <<f, CR, LF>>
           b == <<g, CR, LF>>
           c == <<CR, LF>>
           ab == a \o b
<1>1. Len(Body(r)) \in Nat /\ Body(r) \in Seq(Symbol)
  <2>1. Body(r) \in Seq(Symbol)
    BY ChunksOf, FlattenTyped DEF Body
  <2> QED BY <2>1
<1>2. f \in Symbol /\ g \in Symbol /\ CR \in Symbol /\ LF \in Symbol
  BY <1>1, HttpAssumption DEF FirstSymbol, FieldSymbol, CR, LF, Symbol
<1>3. StatusLine(r) = a
  BY DEF StatusLine, FirstSymbol
<1>4. Field(r) = b
  BY DEF Field, FieldSymbol
<1> HIDE DEF f, g
<1>5. /\ a \in Seq(Symbol) /\ Len(a) = 3 /\ a[1] = f /\ a[2] = CR /\ a[3] = LF
      /\ b \in Seq(Symbol) /\ Len(b) = 3 /\ b[1] = g /\ b[2] = CR /\ b[3] = LF
      /\ c \in Seq(Symbol) /\ Len(c) = 2 /\ c[1] = CR /\ c[2] = LF
  BY <1>2
<1>6. Header(r) = ab \o c
  BY <1>3, <1>4 DEF Header
<1> HIDE DEF a, b, c
<1>7. /\ ab \in Seq(Symbol) /\ Len(ab) = 6
      /\ ab[1] = a[1] /\ ab[2] = a[2] /\ ab[3] = a[3]
      /\ ab[4] = b[1] /\ ab[5] = b[2] /\ ab[6] = b[3]
  <2>1. /\ ab \in Seq(Symbol) /\ Len(ab) = Len(a) + Len(b)
        /\ \A i \in 1 .. Len(a) : ab[i] = a[i]
        /\ \A i \in 1 .. Len(b) : ab[Len(a) + i] = b[i]
    BY <1>5, Joined
  <2> HIDE DEF ab
  <2>2. ab[3 + 1] = b[1] /\ ab[3 + 2] = b[2] /\ ab[3 + 3] = b[3]
    BY <2>1, <1>5
  <2> QED BY <2>1, <2>2, <1>5
<1> HIDE DEF ab
<1> DEFINE h == ab \o c
<1>8. /\ h \in Seq(Symbol) /\ Len(h) = 8
      /\ h[1] = ab[1] /\ h[2] = ab[2] /\ h[3] = ab[3] /\ h[4] = ab[4] /\ h[5] = ab[5] /\ h[6] = ab[6]
      /\ h[7] = c[1] /\ h[8] = c[2]
  <2>1. /\ h \in Seq(Symbol) /\ Len(h) = Len(ab) + Len(c)
        /\ \A i \in 1 .. Len(ab) : h[i] = ab[i]
        /\ \A i \in 1 .. Len(c) : h[Len(ab) + i] = c[i]
    BY <1>5, <1>7, Joined
  <2> HIDE DEF h
  <2>2. h[6 + 1] = c[1] /\ h[6 + 2] = c[2]
    BY <2>1, <1>5, <1>7
  <2> QED BY <2>1, <2>2, <1>5, <1>7
<1> HIDE DEF h
<1>9. Header(r) = h
  BY <1>6 DEF h
<1> QED BY <1>1, <1>5, <1>7, <1>8, <1>9 DEF IsHeader, f, g

\* An answer without chunks is its header and its body.
LEMMA WireOfBody ==
  ASSUME NEW r \in Responses, r.kind # "chunked"
  PROVE  /\ Wire[r] \in Seq(Symbol) /\ Len(Wire[r]) = 8 + Len(Body(r)) /\ IsHeader(Wire[r], r)
         /\ \A i \in 1 .. Len(Body(r)) : Wire[r][8 + i] = Body(r)[i]
<1> DEFINE h == Header(r)
           b == Body(r)
<1>1. h \in Seq(Symbol) /\ b \in Seq(Symbol) /\ Len(h) = 8 /\ IsHeader(h, r)
  BY HeaderIs
<1>2. Wire[r] = h \o b
  BY DEF Wire
<1> HIDE DEF h, b
<1>3. /\ h \o b \in Seq(Symbol) /\ Len(h \o b) = Len(h) + Len(b)
      /\ \A i \in 1 .. Len(h) : (h \o b)[i] = h[i]
      /\ \A i \in 1 .. Len(b) : (h \o b)[Len(h) + i] = b[i]
  BY <1>1, Joined
<1>4. /\ Wire[r] \in Seq(Symbol) /\ Len(Wire[r]) = 8 + Len(b)
      /\ \A i \in 1 .. 8 : Wire[r][i] = h[i]
      /\ \A i \in 1 .. Len(b) : Wire[r][8 + i] = b[i]
  BY <1>1, <1>2, <1>3
<1>5. IsHeader(Wire[r], r)
  BY <1>1, <1>4 DEF IsHeader
<1> QED BY <1>4, <1>5 DEF b

\* What ends a chunked answer.
IsEnd(s, p) == /\ s[p + 1] = <<"size", 0>> /\ s[p + 2] = CR /\ s[p + 3] = LF
               /\ s[p + 4] = CR /\ s[p + 5] = LF

\* One with chunks is its header, the chunks and an end.
LEMMA WireOfChunks ==
  ASSUME NEW r \in Responses, r.kind = "chunked"
  PROVE  LET n == Len(r.chunks) IN
         /\ Wire[r] \in Seq(Symbol) /\ Len(Wire[r]) = Boundary(r, n) + 5 /\ IsHeader(Wire[r], r)
         /\ \A i \in 1 .. Len(Encoded(r, n)) : Wire[r][8 + i] = Encoded(r, n)[i]
         /\ IsEnd(Wire[r], Boundary(r, n))
<1> DEFINE n == Len(r.chunks)
           h == Header(r)
           b == Encoded(r, n)
           c == Chunk(<< >>)
           hb == h \o b
<1>0. n \in Nat /\ n \in 0 .. n /\ r.chunks \in Seq(Seq(Symbol))
  BY ChunksOf
<1>1. h \in Seq(Symbol) /\ b \in Seq(Symbol) /\ Len(h) = 8 /\ IsHeader(h, r) /\ Len(b) \in Nat
  BY <1>0, HeaderIs, EncodedSteps
<1>2. /\ c \in Seq(Symbol) /\ Len(c) = 5 /\ c[1] = <<"size", 0>> /\ c[2] = CR /\ c[3] = LF
      /\ c[4] = CR /\ c[5] = LF
  <2> DEFINE e == << >>
  <2>1. e \in Seq(Symbol) /\ Len(e) = 0
    OBVIOUS
  <2> HIDE DEF e
  <2>2. /\ Chunk(e) \in Seq(Symbol) /\ Len(Chunk(e)) = Len(e) + 5
        /\ Chunk(e)[1] = <<"size", Len(e)>> /\ Chunk(e)[2] = CR /\ Chunk(e)[3] = LF
        /\ Chunk(e)[Len(e) + 4] = CR /\ Chunk(e)[Len(e) + 5] = LF
    BY <2>1, ChunkTyped
  <2>3. Len(e) + 4 = 4 /\ Len(e) + 5 = 5
    BY <2>1
  <2> QED BY <2>1, <2>2, <2>3 DEF e
<1>3. Wire[r] = hb \o c
  <2>1. DOMAIN r.chunks = 1 .. n
    BY <1>0
  <2> QED BY <2>1 DEF Wire, Encoded
<1> HIDE DEF h, b, c
<1>4. /\ hb \in Seq(Symbol) /\ Len(hb) = Len(h) + Len(b)
      /\ \A i \in 1 .. Len(h) : hb[i] = h[i]
      /\ \A i \in 1 .. Len(b) : hb[Len(h) + i] = b[i]
  BY <1>1, Joined
<1> HIDE DEF hb
<1> DEFINE w == hb \o c
<1>5. /\ w \in Seq(Symbol) /\ Len(w) = Len(hb) + Len(c)
      /\ \A i \in 1 .. Len(hb) : w[i] = hb[i]
      /\ \A i \in 1 .. Len(c) : w[Len(hb) + i] = c[i]
  BY <1>2, <1>4, Joined
<1> HIDE DEF w
<1>6. Len(hb) = 8 + Len(b) /\ Len(w) = 8 + Len(b) + 5
  BY <1>1, <1>2, <1>4, <1>5
<1>7. \A i \in 1 .. 8 : w[i] = h[i]
  BY <1>1, <1>4, <1>5, <1>6, SMTT(30)
<1>8. \A i \in 1 .. Len(b) : w[8 + i] = b[i]
  BY <1>1, <1>4, <1>5, <1>6, SMTT(30)
<1>9. IsHeader(w, r)
  BY <1>1, <1>7 DEF IsHeader
<1>10. IsEnd(w, 8 + Len(b))
  <2>1. \A i \in 1 .. 5 : w[(8 + Len(b)) + i] = c[i]
    BY <1>2, <1>5, <1>6
  <2> QED BY <1>2, <2>1 DEF IsEnd
<1>11. Wire[r] = w
  BY <1>3 DEF w
<1>12. Boundary(r, n) = 8 + Len(b)
  BY DEF Boundary, b
<1> HIDE DEF n
<1> QED BY <1>5, <1>6, <1>8, <1>9, <1>10, <1>11, <1>12 DEF n, b

\* Each begins with its header.
LEMMA WireIs ==
  ASSUME NEW r \in Responses
  PROVE  Wire[r] \in Seq(Symbol) /\ Len(Wire[r]) \in Nat /\ Len(Wire[r]) >= 8 /\ IsHeader(Wire[r], r)
<1>1. CASE r.kind # "chunked"
  <2>1. Len(Body(r)) \in Nat
    BY HeaderIs
  <2> QED BY <1>1, <2>1, WireOfBody
<1>2. CASE r.kind = "chunked"
  <2> DEFINE n == Len(r.chunks)
  <2>1. Len(Encoded(r, n)) \in Nat
    BY ChunksOf, EncodedSteps
  <2>2. Wire[r] \in Seq(Symbol) /\ Len(Wire[r]) = Boundary(r, n) + 5 /\ IsHeader(Wire[r], r)
    BY <1>2, WireOfChunks
  <2>3. Boundary(r, n) = 8 + Len(Encoded(r, n))
    BY DEF Boundary
  <2> HIDE DEF n
  <2> QED BY <2>1, <2>2, <2>3
<1> QED BY <1>1, <1>2

\* The chunk that begins at p is c.
IsChunk(s, p, c) ==
  /\ s[p + 1] = <<"size", Len(c)>> /\ s[p + 2] = CR /\ s[p + 3] = LF
  /\ \A i \in 1 .. Len(c) : s[p + 3 + i] = c[i]
  /\ s[p + Len(c) + 4] = CR /\ s[p + Len(c) + 5] = LF

\* Each chunk is in the answer, at its boundary.
LEMMA ChunkInWire ==
  ASSUME NEW r \in Responses, r.kind = "chunked", NEW k \in 0 .. Len(r.chunks) - 1
  PROVE  LET c == r.chunks[k + 1] IN
         /\ Boundary(r, k) \in Nat /\ Boundary(r, k) >= 8
         /\ Boundary(r, k + 1) = Boundary(r, k) + Len(c) + 5
         /\ Boundary(r, k + 1) + 5 <= Len(Wire[r])
         /\ IsChunk(Wire[r], Boundary(r, k), c)
<1> DEFINE n == Len(r.chunks)
           c == r.chunks[k + 1]
           d == Chunk(c)
           E(j) == Encoded(r, j)
           W == Wire[r]
<1>0. n \in Nat /\ k \in 0 .. n /\ k + 1 \in 0 .. n /\ k + 1 \in 1 .. n /\ n \in (k + 1) .. n
      /\ c \in Seq(Symbol) /\ Len(c) \in Nat
  BY ChunksOf
<1>1. /\ d \in Seq(Symbol) /\ Len(d) = Len(c) + 5
      /\ d[1] = <<"size", Len(c)>> /\ d[2] = CR /\ d[3] = LF
      /\ (\A i \in 1 .. Len(c) : d[3 + i] = c[i])
      /\ d[Len(c) + 4] = CR /\ d[Len(c) + 5] = LF
  BY <1>0, ChunkTyped
<1>2. E(k) \in Seq(Symbol) /\ E(k + 1) = E(k) \o d /\ Len(E(k)) \in Nat
  BY <1>0, EncodedSteps
<1>3. /\ Len(E(k + 1)) <= Len(E(n))
      /\ \A i \in 1 .. Len(E(k + 1)) : E(n)[i] = E(k + 1)[i]
  BY <1>0, EncodedPrefix
<1>4. /\ Len(W) = Boundary(r, n) + 5
      /\ \A i \in 1 .. Len(E(n)) : W[8 + i] = E(n)[i]
  BY WireOfChunks
<1>5. E(n) \in Seq(Symbol) /\ Len(E(n)) \in Nat
  <2>1. n \in 0 .. n
    BY <1>0
  <2>2. E(n) \in Seq(Symbol)
    BY <2>1, EncodedSteps
  <2> QED BY <2>2
<1>6. Boundary(r, k) = 8 + Len(E(k)) /\ Boundary(r, k + 1) = 8 + Len(E(k + 1)) /\ Boundary(r, n) = 8 + Len(E(n))
  BY DEF Boundary
<1> HIDE DEF d, E, W, n, c
<1>7. Len(E(k + 1)) = Len(E(k)) + Len(d) /\ \A i \in 1 .. Len(d) : E(k + 1)[Len(E(k)) + i] = d[i]
  BY <1>1, <1>2, Joined, SMTT(30)
<1> DEFINE e == Len(E(k))
           b == Boundary(r, k)
<1> HIDE DEF e, b
<1>8. e \in Nat /\ b = 8 + e /\ Len(E(k + 1)) = e + Len(c) + 5
  BY <1>0, <1>1, <1>2, <1>6, <1>7 DEF e, b
<1>9. ASSUME NEW i \in 1 .. Len(c) + 5 PROVE W[b + i] = d[i]
  <2>1. e + i \in 1 .. Len(E(k + 1)) /\ e + i \in 1 .. Len(E(n)) /\ b + i = 8 + (e + i)
    BY <1>0, <1>3, <1>5, <1>8
  <2>2. E(k + 1)[e + i] = d[i]
    BY <1>1, <1>7 DEF e
  <2> QED BY <2>1, <2>2, <1>3, <1>4
<1>10. W[b + 1] = d[1] /\ W[b + 2] = d[2] /\ W[b + 3] = d[3]
       /\ W[b + (Len(c) + 4)] = d[Len(c) + 4] /\ W[b + (Len(c) + 5)] = d[Len(c) + 5]
  BY <1>0, <1>9
<1>11. \A i \in 1 .. Len(c) : W[b + (3 + i)] = d[3 + i]
  <2>1. \A i \in 1 .. Len(c) : 3 + i \in 1 .. Len(c) + 5
    BY <1>0
  <2> QED BY <1>9, <2>1
<1>12. \A i \in 1 .. Len(c) : b + 3 + i = b + (3 + i)
  BY <1>0, <1>8
<1>13. b + Len(c) + 4 = b + (Len(c) + 4) /\ b + Len(c) + 5 = b + (Len(c) + 5)
  BY <1>0, <1>8
<1>14. IsChunk(W, b, c)
  BY <1>1, <1>10, <1>11, <1>12, <1>13 DEF IsChunk
<1>15. /\ b \in Nat /\ b >= 8 /\ Boundary(r, k + 1) = b + Len(c) + 5
       /\ Boundary(r, k + 1) + 5 <= Len(W)
  <2>1. Boundary(r, k + 1) = 8 + (e + Len(c) + 5)
    BY <1>6, <1>8
  <2>2. b \in Nat /\ b >= 8 /\ Boundary(r, k + 1) = b + Len(c) + 5
    BY <1>0, <1>8, <2>1
  <2> DEFINE x == Len(E(k + 1))
             y == Len(E(n))
  <2>3. x \in Nat /\ y \in Nat /\ x <= y
    BY <1>0, <1>3, <1>5, <1>8
  <2>4. Boundary(r, k + 1) = 8 + x /\ Len(W) = 8 + y + 5
    BY <1>4, <1>6
  <2> HIDE DEF x, y
  <2> QED BY <2>2, <2>3, <2>4
<1> QED BY <1>14, <1>15 DEF b, W, c
----------------------------------------------------------------------------
(* A header that is read while it arrives.                                 *)

\* What a buffer holds of an answer.
LEMMA PrefixIs ==
  ASSUME NEW w \in Seq(Symbol), NEW t \in 0 .. Len(w)
  PROVE  /\ SubSeq(w, 1, t) \in Seq(Symbol) /\ Len(SubSeq(w, 1, t)) = t
         /\ \A i \in 1 .. t : SubSeq(w, 1, t)[i] = w[i]
OBVIOUS

\* At the end there is an empty line.
LEMMA LineAtEnd ==
  ASSUME NEW s \in Seq(Symbol)
  PROVE  ReadStringLine(s, Len(s)) = [text |-> << >>, next |-> Len(s)]
<1>1. Len(s) \in Nat /\ Len(s) \in 0 .. Len(s) /\ SubSeq(s, Len(s) + 1, Len(s)) = << >>
  OBVIOUS
<1>2. \A i \in Len(s) + 1 .. Len(s) : ~EndsLine(s[i])
  BY <1>1
<1> QED BY <1>1, <1>2, LineOpen

\* A line that goes on to e, or to the end of the data.
LEMMA LineTo ==
  ASSUME NEW s \in Seq(Symbol), NEW p \in 0 .. Len(s) - 1, NEW e \in p + 1 .. Len(s),
         p + 1 < e \/ ~EndsLine(s[e]), \A i \in p + 1 .. e - 1 : ~EndsLine(s[i]),
         EndsLine(s[e]) \/ e = Len(s)
  PROVE  /\ ReadStringLine(s, p).next = e /\ ReadStringLine(s, p).text # << >>
         /\ ReadStringLine(s, p).text[1] = s[p + 1]
<1>0. Len(s) \in Nat /\ p \in 0 .. Len(s) /\ p \in Nat /\ e \in Nat
  OBVIOUS
<1>1. ASSUME NEW m \in p + 1 .. Len(s)
      PROVE  SubSeq(s, p + 1, m) # << >> /\ SubSeq(s, p + 1, m)[1] = s[p + 1]
  <2>1. Len(SubSeq(s, p + 1, m)) = m - p
    BY <1>0
  <2>2. m - p # 0
    BY <1>0
  <2>3. SubSeq(s, p + 1, m)[1] = s[p + 1]
    BY <1>0
  <2>4. Len(<< >>) = 0
    OBVIOUS
  <2> QED BY <2>1, <2>2, <2>3, <2>4
<1>2. CASE EndsLine(s[e])
  <2>1. ReadStringLine(s, p) = [text |-> SubSeq(s, p + 1, e - 1), next |-> e]
    BY <1>0, <1>2, LineEnds
  <2>2. e - 1 \in p + 1 .. Len(s)
    BY <1>0, <1>2
  <2>3. ReadStringLine(s, p).text = SubSeq(s, p + 1, e - 1) /\ ReadStringLine(s, p).next = e
    BY <2>1
  <2> QED BY <1>1, <2>2, <2>3
<1>3. CASE ~EndsLine(s[e])
  <2>1. e = Len(s)
    BY <1>3
  <2>2. \A i \in p + 1 .. Len(s) : i \in p + 1 .. e - 1 \/ i = e
    BY <1>0, <2>1
  <2>3. ReadStringLine(s, p) = [text |-> SubSeq(s, p + 1, Len(s)), next |-> Len(s)]
    BY <1>0, <1>3, <2>2, LineOpen
  <2>4. Len(s) \in p + 1 .. Len(s)
    BY <1>0, <2>1
  <2>5. ReadStringLine(s, p).text = SubSeq(s, p + 1, Len(s)) /\ ReadStringLine(s, p).next = e
    BY <2>1, <2>3
  <2> QED BY <1>1, <2>4, <2>5
<1> QED BY <1>2, <1>3

\* No line of a header begins with its own end.
LEMMA HeaderSymbolsAre ==
  ASSUME NEW r \in Responses
  PROVE  /\ ~EndsLine(FirstSymbol(r)) /\ FirstSymbol(r) # CR
         /\ ~EndsLine(FieldSymbol(r)) /\ FieldSymbol(r) # CR
         /\ ~EndsLine(CR) /\ EndsLine(LF)
BY HttpAssumption DEF FirstSymbol, FieldSymbol, EndsLine, CR, LF, NUL

\* The line that begins the header, or its fields, as far as it has arrived.
LEMMA HeaderLine ==
  ASSUME NEW r \in Responses, NEW t \in 0 .. Len(Wire[r]), NEW q \in {0, 3}, q < t
  PROVE  LET s == SubSeq(Wire[r], 1, t)
             e == IF t >= q + 3 THEN q + 3 ELSE t
         IN  /\ ReadStringLine(s, q).next = e /\ e \in q + 1 .. t
             /\ ReadStringLine(s, q).text # << >> /\ ReadStringLine(s, q).text[1] # CR
<1> DEFINE W == Wire[r]
           s == SubSeq(W, 1, t)
           e == IF t >= q + 3 THEN q + 3 ELSE t
<1>1. W \in Seq(Symbol) /\ Len(W) \in Nat /\ IsHeader(W, r) /\ t \in Nat
  BY WireIs
<1>2. s \in Seq(Symbol) /\ Len(s) = t /\ \A i \in 1 .. t : s[i] = W[i]
  BY <1>1, PrefixIs
<1>3. /\ ~EndsLine(W[q + 1]) /\ W[q + 1] # CR /\ ~EndsLine(W[q + 2]) /\ EndsLine(W[q + 3])
  <2>1. CASE q = 0
    BY <1>1, <2>1, HeaderSymbolsAre DEF IsHeader
  <2>2. CASE q = 3
    BY <1>1, <2>2, HeaderSymbolsAre DEF IsHeader
  <2> QED BY <2>1, <2>2
<1> HIDE DEF W, s
<1>4. q \in Nat /\ q \in 0 .. Len(s) - 1 /\ e \in q + 1 .. Len(s) /\ e \in q + 1 .. t
  BY <1>1, <1>2
<1>5. \A i \in q + 1 .. e : i = q + 1 \/ i = q + 2 \/ i = q + 3
  BY <1>1, <1>2
<1>6. \A i \in q + 1 .. e - 1 : i = q + 1 \/ i = q + 2
  BY <1>1, <1>2
<1>7. \A i \in q + 1 .. e : i \in 1 .. t
  BY <1>4
<1>8. \A i \in q + 1 .. e - 1 : ~EndsLine(s[i])
  <2>1. \A i \in q + 1 .. e - 1 : i \in q + 1 .. e
    BY <1>4
  <2> QED BY <1>2, <1>3, <1>6, <1>7, <2>1
<1>9. q + 1 \in 1 .. t /\ s[q + 1] = W[q + 1]
  BY <1>1, <1>2, <1>4
<1>10. q + 1 < e \/ ~EndsLine(s[e])
  <2>1. CASE e = q + 1
    BY <1>3, <1>9, <2>1
  <2>2. CASE e # q + 1
    <3> HIDE DEF e
    <3> QED BY <1>4, <2>2
  <2> QED BY <2>1, <2>2
<1>11. EndsLine(s[e]) \/ e = Len(s)
  <2>1. CASE t >= q + 3
    <3>1. e = q + 3 /\ e \in 1 .. t
      BY <1>4, <2>1
    <3> QED BY <1>2, <1>3, <3>1
  <2>2. CASE ~(t >= q + 3)
    BY <1>2, <2>2
  <2> QED BY <2>1, <2>2
<1>12. /\ ReadStringLine(s, q).next = e /\ ReadStringLine(s, q).text # << >>
       /\ ReadStringLine(s, q).text[1] = s[q + 1]
  <2> HIDE DEF e
  <2> QED BY <1>2, <1>4, <1>8, <1>10, <1>11, LineTo
<1> QED BY <1>3, <1>4, <1>9, <1>12 DEF s, W

\* The empty line that ends the header.
LEMMA LastHeaderLine ==
  ASSUME NEW r \in Responses, NEW t \in 0 .. Len(Wire[r]), t >= 7
  PROVE  LET s == SubSeq(Wire[r], 1, t)
             e == IF t >= 8 THEN 8 ELSE 7
         IN  /\ ReadStringLine(s, 6).next = e
             /\ ReadStringLine(s, 6).text # << >> /\ ReadStringLine(s, 6).text[1] = CR
<1> DEFINE W == Wire[r]
           s == SubSeq(W, 1, t)
           e == IF t >= 8 THEN 8 ELSE 7
<1>1. W \in Seq(Symbol) /\ Len(W) \in Nat /\ t \in Nat /\ W[7] = CR /\ W[8] = LF
  BY WireIs DEF IsHeader
<1>2. s \in Seq(Symbol) /\ Len(s) = t /\ \A i \in 1 .. t : s[i] = W[i]
  BY <1>1, PrefixIs
<1> HIDE DEF W, s
<1>3. s[7] = CR /\ (t >= 8 => s[8] = LF)
  BY <1>1, <1>2
<1>4. 6 \in 0 .. Len(s) - 1 /\ e \in 6 + 1 .. Len(s)
  BY <1>1, <1>2
<1>5. \A i \in 6 + 1 .. e - 1 : ~EndsLine(s[i])
  <2>1. \A i \in 6 + 1 .. e - 1 : i = 7
    BY <1>1
  <2> QED BY <1>3, <2>1, HeaderSymbolsAre
<1>6. (6 + 1 < e \/ ~EndsLine(s[e])) /\ (EndsLine(s[e]) \/ e = Len(s))
  BY <1>1, <1>2, <1>3, HeaderSymbolsAre
<1>7. /\ ReadStringLine(s, 6).next = e /\ ReadStringLine(s, 6).text # << >>
      /\ ReadStringLine(s, 6).text[1] = s[6 + 1]
  <2> HIDE DEF e
  <2> QED BY <1>2, <1>4, <1>5, <1>6, LineTo
<1> QED BY <1>3, <1>7 DEF s, W

\* The header is read line by line, each of them as far as it has arrived.
LEMMA ReadHeaderAlong ==
  ASSUME NEW r \in Responses, NEW t \in 0 .. Len(Wire[r])
  PROVE  LET s == SubSeq(Wire[r], 1, t) IN
         /\ ReadHeader(s, t) = [found |-> FALSE, at |-> t]
         /\ \A q \in {0, 3} : q < t =>
              ReadHeader(s, q) = ReadHeader(s, IF t >= q + 3 THEN q + 3 ELSE t)
         /\ t >= 7 => ReadHeader(s, 6) = [found |-> TRUE, at |-> IF t >= 8 THEN 8 ELSE 7]
<1> DEFINE s == SubSeq(Wire[r], 1, t)
<1>1. s \in Seq(Symbol) /\ Len(s) = t /\ t \in Nat
  BY WireIs, PrefixIs
<1>2. ReadHeader(s, t) = [found |-> FALSE, at |-> t]
  <2>1. ReadStringLine(s, t) = [text |-> << >>, next |-> t]
    BY <1>1, LineAtEnd
  <2>2. ReadStringLine(s, t).text = << >> /\ ReadStringLine(s, t).next = t /\ t \in 0 .. Len(s)
    BY <1>1, <2>1
  <2> HIDE DEF s
  <2> QED BY <1>1, <2>2, ReadHeaderStep
<1>3. ASSUME NEW q \in {0, 3}, q < t
      PROVE  ReadHeader(s, q) = ReadHeader(s, IF t >= q + 3 THEN q + 3 ELSE t)
  <2>1. /\ ReadStringLine(s, q).next = IF t >= q + 3 THEN q + 3 ELSE t
        /\ ReadStringLine(s, q).text # << >> /\ ReadStringLine(s, q).text[1] # CR
    BY <1>3, HeaderLine
  <2>2. q \in 0 .. Len(s)
    BY <1>1, <1>3
  <2> HIDE DEF s
  <2> QED BY <1>1, <2>1, <2>2, ReadHeaderStep
<1>4. ASSUME t >= 7
      PROVE  ReadHeader(s, 6) = [found |-> TRUE, at |-> IF t >= 8 THEN 8 ELSE 7]
  <2>1. /\ ReadStringLine(s, 6).next = IF t >= 8 THEN 8 ELSE 7
        /\ ReadStringLine(s, 6).text # << >> /\ ReadStringLine(s, 6).text[1] = CR
    BY <1>4, LastHeaderLine
  <2>2. 6 \in 0 .. Len(s)
    BY <1>1, <1>4
  <2> HIDE DEF s
  <2> QED BY <1>1, <2>1, <2>2, ReadHeaderStep
<1> QED BY <1>2, <1>3, <1>4

\* The second reading, from after the status line.
LEMMA HeaderLinesOf ==
  ASSUME NEW r \in Responses, NEW t \in 1 .. Len(Wire[r])
  PROVE  LET s == SubSeq(Wire[r], 1, t)
             h == ReadHeader(s, ReadStringLine(s, 0).next)
         IN  (h.found <=> t >= 7) /\ h.at = IF t >= 8 THEN 8 ELSE t
<1> DEFINE s == SubSeq(Wire[r], 1, t)
           h == ReadHeader(s, ReadStringLine(s, 0).next)
<1>1. t \in 0 .. Len(Wire[r]) /\ t \in Nat /\ t >= 1
  BY WireIs
<1>2. /\ ReadHeader(s, t) = [found |-> FALSE, at |-> t]
      /\ 3 < t => ReadHeader(s, 3) = ReadHeader(s, IF t >= 6 THEN 6 ELSE t)
      /\ t >= 7 => ReadHeader(s, 6) = [found |-> TRUE, at |-> IF t >= 8 THEN 8 ELSE 7]
  BY <1>1, ReadHeaderAlong
<1>3. ReadStringLine(s, 0).next = IF t >= 3 THEN 3 ELSE t
  BY <1>1, HeaderLine
<1>4. CASE t <= 6
  <2>1. h = ReadHeader(s, t)
    <3>1. CASE t <= 3
      <4>1. ReadStringLine(s, 0).next = t
        BY <1>1, <1>3, <3>1
      <4> QED BY <4>1
    <3>2. CASE t > 3
      <4>1. ReadStringLine(s, 0).next = 3
        BY <1>1, <1>3, <3>2
      <4>2. ReadHeader(s, 3) = ReadHeader(s, t)
        BY <1>1, <1>2, <1>4, <3>2
      <4> QED BY <4>1, <4>2
    <3> QED BY <1>1, <3>1, <3>2
  <2> HIDE DEF s, h
  <2>2. h.found = FALSE /\ h.at = t
    BY <1>2, <2>1
  <2>3. ~(t >= 7) /\ ~(t >= 8)
    BY <1>1, <1>4
  <2> QED BY <2>2, <2>3 DEF s, h
<1>5. CASE t >= 7
  <2>1. h = ReadHeader(s, 6)
    <3>1. ReadStringLine(s, 0).next = 3 /\ ReadHeader(s, 3) = ReadHeader(s, 6)
      <4> HIDE DEF s
      <4> QED BY <1>1, <1>2, <1>3, <1>5
    <3> QED BY <3>1
  <2> HIDE DEF s, h
  <2>2. h.found = TRUE /\ h.at = IF t >= 8 THEN 8 ELSE 7
    BY <1>2, <1>5, <2>1
  <2>3. t >= 8 \/ t = 7
    BY <1>1, <1>5
  <2> QED BY <1>5, <2>2, <2>3 DEF s, h
<1> QED BY <1>1, <1>4, <1>5

\* The first reading, when no segment has ended inside a line.
LEMMA HeaderSearchOf ==
  ASSUME NEW r \in Responses, NEW t \in 0 .. Len(Wire[r]), t \in {0, 3, 6} \/ t >= 8,
         NEW q \in {0, 3, 6}, q <= t
  PROVE  LET h == ReadHeader(SubSeq(Wire[r], 1, t), q)
         IN  (h.found <=> t >= 8) /\ h.at = IF t >= 8 THEN 8 ELSE t
<1> DEFINE s == SubSeq(Wire[r], 1, t)
           H(p) == ReadHeader(s, p)
           V(h) == (h.found <=> t >= 8) /\ h.at = IF t >= 8 THEN 8 ELSE t
<1>1. t \in Nat
  BY WireIs
<1>2. /\ H(t) = [found |-> FALSE, at |-> t]
      /\ 0 < t => H(0) = H(IF t >= 3 THEN 3 ELSE t)
      /\ 3 < t => H(3) = H(IF t >= 6 THEN 6 ELSE t)
      /\ t >= 7 => H(6) = [found |-> TRUE, at |-> IF t >= 8 THEN 8 ELSE 7]
  BY ReadHeaderAlong
<1> HIDE DEF s, H
<1>3. t < 8 => V(H(t))
  BY <1>1, <1>2
<1>4. t >= 8 => V(H(6))
  BY <1>1, <1>2
<1> HIDE DEF V
<1>5. t >= 6 => V(H(6))
  BY <1>1, <1>3, <1>4
<1>6. t >= 3 => V(H(3))
  <2>1. CASE t = 3
    BY <1>3, <2>1
  <2>2. CASE t >= 6
    <3>1. H(3) = H(6)
      BY <1>1, <1>2, <2>2
    <3> QED BY <1>5, <2>2, <3>1
  <2> QED BY <1>1, <2>1, <2>2
<1>7. V(H(0))
  <2>1. CASE t = 0
    BY <1>3, <2>1
  <2>2. CASE t >= 3
    <3>1. H(0) = H(3)
      BY <1>1, <1>2, <2>2
    <3> QED BY <1>6, <2>2, <3>1
  <2> QED BY <1>1, <2>1, <2>2
<1>8. V(H(q))
  BY <1>1, <1>5, <1>6, <1>7
<1> QED BY <1>8 DEF s, H, V
----------------------------------------------------------------------------
(* Chunks that are read while they arrive.                                 *)

\* The size line of a chunk, as far as it has arrived.
LEMMA SizeLine ==
  ASSUME NEW s \in Seq(Symbol), NEW b \in 0 .. Len(s), NEW m \in Nat,
         Len(s) >= b + 1 => s[b + 1] = <<"size", m>>,
         Len(s) >= b + 2 => s[b + 2] = CR,
         Len(s) >= b + 3 => s[b + 3] = LF
  PROVE  /\ HasSizeLine(s, b) <=> Len(s) >= b + 2
         /\ HasSizeLine(s, b) => ChunkSize(s, b) = m
         /\ ChunkStart(s, b) = IF Len(s) >= b + 3 THEN b + 3 ELSE Len(s)
<1> DEFINE t == Len(s)
           text == ReadStringLine(s, b).text
           size == <<"size", m>>
<1>0. t \in Nat /\ b \in Nat /\ b <= t
  OBVIOUS
<1>1. ~EndsLine(size) /\ ~EndsLine(CR) /\ EndsLine(LF) /\ size # CR
  BY DEF EndsLine, LF, NUL, CR
<1>2. size[1] = "size" /\ size[2] = m
  OBVIOUS
<1> HIDE DEF size
<1>3. CASE t = b
  <2>1. text = << >> /\ ReadStringLine(s, b).next = t
    BY <1>3, LineAtEnd
  <2>2. ~HasSizeLine(s, b)
    BY <2>1 DEF HasSizeLine
  <2> QED BY <1>0, <1>3, <2>1, <2>2 DEF ChunkStart
<1>4. CASE t = b + 1
  <2>1. \A i \in b + 1 .. t : ~EndsLine(s[i])
    BY <1>0, <1>1, <1>4 DEF size
  <2>2. text = SubSeq(s, b + 1, t) /\ ReadStringLine(s, b).next = t
    BY <1>0, <2>1, LineOpen
  <2>3. Len(SubSeq(s, b + 1, t)) = 1 /\ SubSeq(s, b + 1, t)[1] = s[b + 1]
        /\ DOMAIN SubSeq(s, b + 1, t) = 1 .. 1
    BY <1>0, <1>4
  <2>4. text[1] # CR
    BY <1>0, <1>1, <1>4, <2>2, <2>3 DEF size
  <2>5. \A i \in 1 .. 1 : i = 1
    OBVIOUS
  <2>6. ~HasSizeLine(s, b)
    BY <2>2, <2>3, <2>4, <2>5 DEF HasSizeLine
  <2> QED BY <1>0, <1>4, <2>2, <2>6 DEF ChunkStart
<1>5. CASE t >= b + 2
  <2>0. s[b + 1] = size /\ s[b + 2] = CR
    BY <1>0, <1>5 DEF size
  <2>1. text = SubSeq(s, b + 1, b + 2) /\ ReadStringLine(s, b).next = IF t >= b + 3 THEN b + 3 ELSE t
    <3>1. CASE t >= b + 3
      <4>1. b + 3 \in b + 1 .. Len(s) /\ EndsLine(s[b + 3]) /\ (b + 3) - 1 = b + 2
        BY <1>0, <1>1, <3>1
      <4>2. \A i \in b + 1 .. (b + 3) - 1 : i = b + 1 \/ i = b + 2
        BY <1>0
      <4>3. \A i \in b + 1 .. (b + 3) - 1 : ~EndsLine(s[i])
        BY <1>1, <2>0, <4>2
      <4>4. ReadStringLine(s, b) = [text |-> SubSeq(s, b + 1, (b + 3) - 1), next |-> b + 3]
        BY <1>0, <4>1, <4>3, LineEnds
      <4>5. text = SubSeq(s, b + 1, b + 2) /\ ReadStringLine(s, b).next = b + 3
        <5>1. SubSeq(s, b + 1, (b + 3) - 1) = SubSeq(s, b + 1, b + 2)
          BY <4>1
        <5>2. text = SubSeq(s, b + 1, (b + 3) - 1) /\ ReadStringLine(s, b).next = b + 3
          BY <4>4
        <5> QED BY <5>1, <5>2
      <4> QED BY <3>1, <4>5
    <3>2. CASE t = b + 2
      <4>1. \A i \in b + 1 .. t : i = b + 1 \/ i = b + 2
        BY <1>0, <3>2
      <4>2. \A i \in b + 1 .. t : ~EndsLine(s[i])
        BY <1>1, <2>0, <4>1
      <4>3. ReadStringLine(s, b) = [text |-> SubSeq(s, b + 1, Len(s)), next |-> Len(s)]
        BY <1>0, <4>2, LineOpen
      <4>4. text = SubSeq(s, b + 1, Len(s)) /\ ReadStringLine(s, b).next = Len(s)
        <5> DEFINE T == SubSeq(s, b + 1, Len(s))
                   L == Len(s)
        <5>1. ReadStringLine(s, b) = [text |-> T, next |-> L]
          BY <4>3
        <5> HIDE DEF T, L
        <5>2. ReadStringLine(s, b).text = T /\ ReadStringLine(s, b).next = L
          BY <5>1
        <5> QED BY <5>2 DEF T, L
      <4>5. Len(s) = b + 2 /\ ~(t >= b + 3)
        BY <1>0, <3>2
      <4> QED BY <4>4, <4>5
    <3> QED BY <1>0, <1>5, <3>1, <3>2
  <2>2. /\ DOMAIN SubSeq(s, b + 1, b + 2) = 1 .. 2
        /\ SubSeq(s, b + 1, b + 2)[1] = s[b + 1] /\ SubSeq(s, b + 1, b + 2)[2] = s[b + 2]
    <3>1. b + 1 \in 1 .. Len(s) /\ b + 2 \in b + 1 .. Len(s) /\ b + 2 = (b + 1) + 1
      BY <1>0, <1>5
    <3> DEFINE p == b + 1
               q == b + 2
    <3>2. p \in 1 .. Len(s) /\ q \in 1 .. Len(s) /\ q = p + 1
      BY <3>1
    <3> HIDE DEF p, q, text
    <3>3. SubSeq(s, p, q) = [i \in 1 .. 2 |-> s[p + i - 1]]
      BY <3>2, SMTT(30)
    <3>4. p + 1 - 1 = p /\ p + 2 - 1 = q
      BY <3>2
    <3>5. /\ DOMAIN SubSeq(s, p, q) = 1 .. 2
          /\ SubSeq(s, p, q)[1] = s[p] /\ SubSeq(s, p, q)[2] = s[q]
      BY <3>3, <3>4
    <3> QED BY <3>5 DEF p, q
  <2>3. HasSizeLine(s, b)
    <3>1. 2 \in DOMAIN text /\ text[2] = CR
      BY <2>0, <2>1, <2>2
    <3> QED BY <3>1 DEF HasSizeLine
  <2>4. text[1] = size
    BY <2>0, <2>1, <2>2
  <2>5. ChunkSize(s, b) = m
    BY <1>2, <2>4 DEF ChunkSize
  <2> QED BY <1>5, <2>1, <2>3, <2>5 DEF ChunkStart
<1> QED BY <1>0, <1>3, <1>4, <1>5

\* A boundary is behind the header.
LEMMA BoundaryTyped ==
  ASSUME NEW r \in Responses, NEW k \in 0 .. Len(r.chunks)
  PROVE  Boundary(r, k) \in Nat /\ Boundary(r, k) >= 8
<1>1. Len(Encoded(r, k)) \in Nat
  BY EncodedSteps
<1> QED BY <1>1 DEF Boundary

\* A chunk of the answer, as far as it has arrived.
LEMMA ChunkAt ==
  ASSUME NEW r \in Responses, r.kind = "chunked", NEW t \in 0 .. Len(Wire[r]),
         NEW k \in 0 .. Len(r.chunks) - 1, Boundary(r, k) <= t
  PROVE  LET s == SubSeq(Wire[r], 1, t)
             b == Boundary(r, k)
             c == r.chunks[k + 1]
         IN  /\ ChunkComplete(s, b) <=> t >= Boundary(r, k + 1)
             /\ ChunkComplete(s, b) => /\ ChunkEnd(s, b) + 2 = Boundary(r, k + 1)
                                       /\ SubSeq(s, ChunkStart(s, b) + 1, ChunkEnd(s, b)) = c
             /\ HasSizeLine(s, b) => ChunkSize(s, b) # 0
<1> DEFINE W == Wire[r]
           s == SubSeq(W, 1, t)
           b == Boundary(r, k)
           c == r.chunks[k + 1]
           m == Len(c)
           G == /\ ChunkComplete(s, b) <=> t >= Boundary(r, k + 1)
                /\ ChunkComplete(s, b) => /\ ChunkEnd(s, b) + 2 = Boundary(r, k + 1)
                                          /\ SubSeq(s, ChunkStart(s, b) + 1, ChunkEnd(s, b)) = c
                /\ HasSizeLine(s, b) => ChunkSize(s, b) # 0
<1>1. W \in Seq(Symbol) /\ Len(W) \in Nat /\ t \in Nat
  BY WireIs
<1>2. s \in Seq(Symbol) /\ Len(s) = t /\ \A i \in 1 .. t : s[i] = W[i]
  BY <1>1, PrefixIs
<1>3. /\ b \in Nat /\ b >= 8 /\ Boundary(r, k + 1) = b + m + 5 /\ IsChunk(W, b, c)
  BY ChunkInWire
<1>4. c \in Seq(Symbol) /\ m \in Nat \ {0}
  <2>1. k + 1 \in 1 .. Len(r.chunks)
    BY ChunksOf
  <2> QED BY <2>1, ChunksOf
<1> HIDE DEF W, s, b, c
<1>5. /\ t >= b + 1 => s[b + 1] = <<"size", m>>
      /\ t >= b + 2 => s[b + 2] = CR
      /\ t >= b + 3 => s[b + 3] = LF
  <2>1. t >= b + 1 => s[b + 1] = W[b + 1]
    BY <1>1, <1>2, <1>3
  <2>2. t >= b + 2 => s[b + 2] = W[b + 2]
    BY <1>1, <1>2, <1>3
  <2>3. t >= b + 3 => s[b + 3] = W[b + 3]
    BY <1>1, <1>2, <1>3
  <2> QED BY <1>3, <2>1, <2>2, <2>3 DEF IsChunk
<1>6. b \in 0 .. Len(s)
  BY <1>1, <1>2, <1>3 DEF b
<1>7. /\ HasSizeLine(s, b) <=> t >= b + 2
      /\ HasSizeLine(s, b) => ChunkSize(s, b) = m
      /\ ChunkStart(s, b) = IF t >= b + 3 THEN b + 3 ELSE t
  <2> HIDE DEF m
  <2> QED BY <1>2, <1>4, <1>5, <1>6, SizeLine
<1> HIDE DEF m
<1>8. ASSUME t >= b + 3 PROVE G
  <2>1. HasSizeLine(s, b) /\ ChunkSize(s, b) = m /\ ChunkStart(s, b) = b + 3
    BY <1>1, <1>3, <1>7, <1>8
  <2>2. ChunkEnd(s, b) = b + 3 + m
    BY <2>1 DEF ChunkEnd
  <2>3. t >= b + m + 5 => s[ChunkEnd(s, b) + 1] = CR /\ s[ChunkEnd(s, b) + 2] = LF
    <3>1. SUFFICES ASSUME t >= b + m + 5
                   PROVE  s[ChunkEnd(s, b) + 1] = CR /\ s[ChunkEnd(s, b) + 2] = LF
      OBVIOUS
    <3>2. ChunkEnd(s, b) + 1 = b + m + 4 /\ ChunkEnd(s, b) + 2 = b + m + 5
      BY <1>3, <1>4, <2>2
    <3>3. b + m + 4 \in 1 .. t /\ b + m + 5 \in 1 .. t
      BY <1>1, <1>3, <1>4, <3>1
    <3>4. W[b + m + 4] = CR /\ W[b + m + 5] = LF
      BY <1>3 DEF IsChunk, m
    <3> QED BY <1>2, <3>2, <3>3, <3>4
  <2>4. ChunkEnd(s, b) + 2 = b + m + 5
    BY <1>3, <1>4, <2>2
  <2>5. ChunkSize(s, b) > 0
    BY <1>4, <2>1
  <2>6. ChunkComplete(s, b) <=> t >= b + m + 5
    BY <1>2, <2>1, <2>3, <2>4, <2>5 DEF ChunkComplete
  <2>7. ASSUME t >= b + m + 5 PROVE SubSeq(s, ChunkStart(s, b) + 1, ChunkEnd(s, b)) = c
    <3> DEFINE u == SubSeq(s, (b + 3) + 1, (b + 3) + m)
    <3>1. u \in Seq(Symbol) /\ Len(u) = m /\ \A i \in 1 .. m : u[i] = s[(b + 3) + i]
      BY <1>1, <1>2, <1>3, <1>4, <2>7
    <3>2. \A i \in 1 .. m : (b + 3) + i \in 1 .. t /\ b + 3 + i = (b + 3) + i
      BY <1>1, <1>3, <1>4, <2>7
    <3>3. \A i \in 1 .. m : W[(b + 3) + i] = c[i]
      BY <1>3, <3>2 DEF IsChunk, m
    <3>4. \A i \in 1 .. m : u[i] = c[i]
      BY <1>2, <3>1, <3>2, <3>3
    <3>5. u = c
      <4> HIDE DEF u
      <4> QED BY <1>4, <3>1, <3>4 DEF m
    <3> QED BY <2>1, <2>2, <3>5
  <2> QED BY <1>3, <1>4, <2>1, <2>4, <2>6, <2>7
<1>9. ASSUME t < b + 3 PROVE G
  <2>1. ChunkStart(s, b) = t
    BY <1>1, <1>3, <1>7, <1>9
  <2>2. ~ChunkComplete(s, b)
    <3> SUFFICES ASSUME HasSizeLine(s, b), Len(s) >= ChunkEnd(s, b) + 2 PROVE FALSE
      BY DEF ChunkComplete
    <3>1. ChunkEnd(s, b) = t + m
      BY <1>7, <2>1 DEF ChunkEnd
    <3> QED BY <1>1, <1>2, <1>4, <3>1
  <2>3. ~(t >= b + m + 5)
    BY <1>1, <1>3, <1>4, <1>9
  <2>4. HasSizeLine(s, b) => ChunkSize(s, b) # 0
    BY <1>4, <1>7
  <2>5. ~(t >= Boundary(r, k + 1))
    BY <1>3, <2>3
  <2> QED BY <2>2, <2>4, <2>5
<1>10. t >= b + 3 \/ t < b + 3
  BY <1>1, <1>3
<1>11. G
  <2> HIDE DEF G
  <2> QED BY <1>8, <1>9, <1>10
<1> QED BY <1>11 DEF s, b, c, W

\* The end of a chunked answer, as far as it has arrived.
LEMMA EndAt ==
  ASSUME NEW r \in Responses, r.kind = "chunked", NEW t \in 0 .. Len(Wire[r]),
         Boundary(r, Len(r.chunks)) <= t
  PROVE  ~ChunkComplete(SubSeq(Wire[r], 1, t), Boundary(r, Len(r.chunks)))
<1> DEFINE W == Wire[r]
           s == SubSeq(W, 1, t)
           b == Boundary(r, Len(r.chunks))
<1>1. W \in Seq(Symbol) /\ Len(W) \in Nat /\ t \in Nat
  BY WireIs
<1>2. s \in Seq(Symbol) /\ Len(s) = t /\ \A i \in 1 .. t : s[i] = W[i]
  BY <1>1, PrefixIs
<1>3. IsEnd(W, b)
  BY WireOfChunks
<1>4. b \in Nat
  <2>1. Len(r.chunks) \in 0 .. Len(r.chunks)
    BY ChunksOf
  <2> QED BY <2>1, BoundaryTyped
<1> HIDE DEF W, s
<1>5. b \in 0 .. Len(s)
  BY <1>1, <1>2, <1>4
<1> HIDE DEF b
<1>6. /\ t >= b + 1 => s[b + 1] = <<"size", 0>>
      /\ t >= b + 2 => s[b + 2] = CR
      /\ t >= b + 3 => s[b + 3] = LF
  <2>1. t >= b + 1 => s[b + 1] = W[b + 1]
    BY <1>1, <1>2, <1>4
  <2>2. t >= b + 2 => s[b + 2] = W[b + 2]
    BY <1>1, <1>2, <1>4
  <2>3. t >= b + 3 => s[b + 3] = W[b + 3]
    BY <1>1, <1>2, <1>4
  <2> QED BY <1>3, <2>1, <2>2, <2>3 DEF IsEnd
<1>7. HasSizeLine(s, b) => ChunkSize(s, b) = 0
  BY <1>2, <1>5, <1>6, SizeLine
<1>8. ~ChunkComplete(s, b)
  BY <1>7 DEF ChunkComplete
<1> QED BY <1>8 DEF s, b, W

\* From the start of a chunk the code goes to the first chunk that is not
\* complete, and moves the data of the chunks it passes together.
LEMMA ChunksRead ==
  ASSUME NEW r \in Responses, r.kind = "chunked", NEW t \in 0 .. Len(Wire[r]),
         NEW k \in 0 .. Len(r.chunks), Boundary(r, k) <= t
  PROVE  LET s == SubSeq(Wire[r], 1, t) IN
         \E j \in k .. Len(r.chunks) :
            /\ LastChunk(s, Boundary(r, k)) = Boundary(r, j) /\ Boundary(r, j) <= t
            /\ Decoded(r, k) \o ChunkData(s, Boundary(r, k)) = Decoded(r, j)
            /\ ~ChunkComplete(s, Boundary(r, j))
<1> DEFINE s == SubSeq(Wire[r], 1, t)
           n == Len(r.chunks)
           B(i) == Boundary(r, i)
           D(i) == Decoded(r, i)
           X(i) == ChunkData(s, B(i))
           G(i) == /\ X(i) \in Seq(Symbol)
                   /\ \E j \in i .. n : /\ LastChunk(s, B(i)) = B(j) /\ B(j) <= t
                                        /\ D(i) \o X(i) = D(j)
                                        /\ ~ChunkComplete(s, B(j))
           T == {i \in 0 .. n : B(i) <= t => G(i)}
<1>1. n \in Nat /\ r.chunks \in Seq(Seq(Symbol))
  BY ChunksOf
<1>2. s \in Seq(Symbol) /\ Len(s) = t /\ t \in Nat
  BY WireIs, PrefixIs
<1>3. \A i \in 0 .. n : B(i) \in Nat /\ D(i) \in Seq(Symbol)
  BY BoundaryTyped, DecodedSteps
<1>4. ASSUME NEW i \in 0 .. n, B(i) <= t, ~ChunkComplete(s, B(i)) PROVE G(i)
  <2>1. B(i) \in 0 .. Len(s)
    BY <1>2, <1>3, <1>4
  <2>2. LastChunk(s, B(i)) = B(i)
    BY <1>2, <1>4, <2>1, LastChunkStep
  <2>3. X(i) = << >>
    BY <1>2, <1>4, <2>1, ChunkDataStep
  <2>4. D(i) \in Seq(Symbol)
    BY <1>3
  <2>5. D(i) \o << >> = D(i)
    BY <2>4, ConcatEmptySeq
  <2>6. << >> \in Seq(Symbol) /\ i \in i .. n
    BY <1>1
  <2> HIDE DEF s, n, B, D
  <2> QED BY <1>4, <2>2, <2>3, <2>5, <2>6
<1>5. ASSUME NEW i \in 0 .. n, \A x \in i + 1 .. n : x \in T PROVE i \in T
  <2> SUFFICES ASSUME B(i) <= t PROVE G(i)
    OBVIOUS
  <2>1. CASE ~ChunkComplete(s, B(i))
    <3> HIDE DEF s, n, B, G
    <3> QED BY <1>4, <2>1
  <2>2. CASE ChunkComplete(s, B(i))
    <3>1. i \in 0 .. n - 1
      <4>1. i # n
        BY <2>2, EndAt
      <4> HIDE DEF n
      <4> QED BY <1>1, <4>1
    <3>2. B(i + 1) <= t /\ ChunkEnd(s, B(i)) + 2 = B(i + 1)
          /\ SubSeq(s, ChunkStart(s, B(i)) + 1, ChunkEnd(s, B(i))) = r.chunks[i + 1]
      <4>1. /\ ChunkComplete(s, B(i)) <=> t >= B(i + 1)
            /\ ChunkComplete(s, B(i)) =>
                 /\ ChunkEnd(s, B(i)) + 2 = B(i + 1)
                 /\ SubSeq(s, ChunkStart(s, B(i)) + 1, ChunkEnd(s, B(i))) = r.chunks[i + 1]
        BY <3>1, ChunkAt
      <4>2. B(i + 1) \in Nat
        BY <1>1, <1>3, <3>1
      <4> HIDE DEF s, B, n
      <4> QED BY <1>2, <2>2, <4>1, <4>2
    <3>3. i + 1 \in i + 1 .. n /\ i + 1 \in 0 .. n
      BY <1>1, <3>1
    <3> HIDE DEF s, n
    <3>4. G(i + 1)
      <4>1. i + 1 \in T
        BY <1>5, <3>3
      <4> HIDE DEF G, B
      <4> QED BY <3>2, <4>1
    <3>5. B(i) \in 0 .. Len(s)
      BY <1>2, <1>3
    <3>6. LastChunk(s, B(i)) = LastChunk(s, B(i + 1))
      <4> HIDE DEF B
      <4> QED BY <1>2, <2>2, <3>2, <3>5, LastChunkStep
    <3>7. X(i) = r.chunks[i + 1] \o X(i + 1)
      <4>1. X(i) = SubSeq(s, ChunkStart(s, B(i)) + 1, ChunkEnd(s, B(i))) \o ChunkData(s, ChunkEnd(s, B(i)) + 2)
        <5> HIDE DEF B
        <5> QED BY <1>2, <2>2, <3>5, ChunkDataStep
      <4> HIDE DEF B
      <4> QED BY <3>2, <4>1
    <3>8. D(i + 1) = D(i) \o r.chunks[i + 1]
      BY <3>1, DecodedSteps DEF n
    <3>9. r.chunks[i + 1] \in Seq(Symbol) /\ D(i) \in Seq(Symbol) /\ X(i + 1) \in Seq(Symbol)
      <4>1. i + 1 \in 1 .. n
        BY <1>1, <3>1
      <4> QED BY <1>3, <3>4, <4>1, ChunksOf DEF n
    <3> DEFINE c == r.chunks[i + 1]
               y == X(i + 1)
               d == D(i)
    <3>10. c \o y \in Seq(Symbol) /\ (d \o c) \o y = d \o (c \o y)
      <4> HIDE DEF c, y, d
      <4>1. c \in Seq(Symbol) /\ y \in Seq(Symbol) /\ d \in Seq(Symbol)
        BY <3>9 DEF c, y, d
      <4>2. c \o y \in Seq(Symbol)
        BY <4>1, Joined
      <4>3. (d \o c) \o y = d \o (c \o y)
        BY <4>1, ConcatAssociative, SMTT(30)
      <4> QED BY <4>2, <4>3
    <3>11. X(i) \in Seq(Symbol) /\ D(i) \o X(i) = D(i + 1) \o X(i + 1)
      BY <3>7, <3>8, <3>10
    <3>12. PICK j \in i + 1 .. n : /\ LastChunk(s, B(i + 1)) = B(j) /\ B(j) <= t
                                   /\ D(i + 1) \o X(i + 1) = D(j)
                                   /\ ~ChunkComplete(s, B(j))
      BY <3>4
    <3>13. j \in i .. n
      BY <1>1
    <3> HIDE DEF B, D, X
    <3>14. LastChunk(s, B(i)) = B(j) /\ D(i) \o X(i) = D(j)
      BY <3>6, <3>11, <3>12
    <3> QED BY <3>11, <3>12, <3>13, <3>14
  <2> QED BY <2>1, <2>2
<1>6. \A i \in 0 .. n : i \in T
  <2> HIDE DEF n, T
  <2> QED BY <1>1, <1>5, DownwardInduction
<1>7. G(k)
  <2> HIDE DEF G
  <2> QED BY <1>6
<1> QED BY <1>7 DEF s, n, B, D, X

\* A call that finds the chunks complete has put all of the body together.
LEMMA ChunksDone ==
  ASSUME NEW r \in Responses, r.kind = "chunked", NEW t \in 0 .. Len(Wire[r]),
         NEW j \in 0 .. Len(r.chunks), Boundary(r, j) <= t, NEW closed,
         ChunkResult(SubSeq(Wire[r], 1, t), Boundary(r, j), closed) = "done"
  PROVE  Decoded(r, j) = Body(r)
<1> DEFINE s == SubSeq(Wire[r], 1, t)
           n == Len(r.chunks)
<1>1. HasSizeLine(s, Boundary(r, j)) /\ ChunkSize(s, Boundary(r, j)) = 0
  BY DEF ChunkResult
<1>2. j = n
  <2> SUFFICES ASSUME j # n PROVE FALSE
    OBVIOUS
  <2>1. j \in 0 .. n - 1
    <3>1. n \in Nat
      BY ChunksOf
    <3> QED BY <3>1
  <2> QED BY <1>1, <2>1, ChunkAt
<1> QED BY <1>2, DecodedSteps
=============================================================================
