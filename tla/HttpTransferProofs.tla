------------------------ MODULE HttpTransferProofs -------------------------
(***************************************************************************)
(* What an HTTP download keeps to, for all answers a server may give, all  *)
(* ways they may be cut into segments and chains of redirects of any       *)
(* length.                                                                 *)
(*                                                                         *)
(* The properties are not inductive: that a completed transfer holds the   *)
(* body follows from what has been read of the answer at every call before *)
(* it.  HttpInv says what that is: how the sockets and the connection are  *)
(* (Sockets, Peers), what a known length or header implies (Known), which  *)
(* chunks have been taken (InChunks), and where a reading that no segment  *)
(* has torn stands (InBody).                                               *)
(***************************************************************************)
EXTENDS HttpReadingProofs
LOCAL INSTANCE SequencesExt
----------------------------------------------------------------------------
(* The invariant.                                                          *)

\* All of the answer.
Size == Len(Wire[response])

\* The buffer has some size, and no answer redirects beyond the bound.
Typed == TypeOK /\ maxsize # 0 /\ response \in Answers(hop)

\* Only the request's socket is open, and none after it is freed.
Sockets == open \subseteq {sock} /\ (freed => open = {} /\ result # "wait")

\* What has failed is noted, and a connection that was seen closed gave all it had.
Peers ==
  /\ ~peerOpen /\ arrived < Size => broken
  /\ response.kind = "garbage" => broken
  /\ result = "wait" /\ sock = 0 => cursize = arrived /\ ~peerOpen

\* What is known of the header was read from it, and a length is not reached yet.
Known ==
  /\ finallen = -1 \/ finallen > 0
  /\ result = "wait" /\ finallen # -1 => cursize < finallen
  /\ headerLength \in {0, 7, 8} /\ (headerLength = 7 => torn)
  /\ finallen # -1 \/ chunkedEncoding =>
       code = response.code /\ headerLength # 0 /\ headerLength <= cursize

\* k chunks have been taken.
Taken(k) ==
  /\ currentChunkReadOffset = Len(Encoded(response, k)) /\ decoded = Decoded(response, k)
  /\ k > 0 /\ result # "done" => Boundary(response, k) <= cursize

\* Of a chunked answer whole chunks are taken; its length is known when it ends.
InChunks ==
  response.kind = "chunked" =>
    /\ \E k \in 0 .. Len(response.chunks) : Taken(k)
    /\ result # "done" => finallen = -1 /\ (chunkedEncoding /\ headerLength = 7 => cursize = 7)

\* What is known of a body that is delimited by its length, or by the segment
\* that its header came with.
Lengths ==
  /\ headerLength = 8 /\ response.kind \in {"length", "plain"}
  /\ response.kind = "length" =>
       /\ contentLength = Size - 8
       /\ finallen = Size \/ (Size > MaxFinal /\ finallen = 8)
  /\ response.kind = "plain" =>
       finallen = cursize /\ contentLength = cursize - 8 /\ result # "wait"

\* Of another the header has been read up to the end of a line, or all of it.
InBody ==
  response.kind # "chunked" =>
    /\ ~chunkedEncoding
    /\ ~torn /\ result = "wait" /\ finallen = -1 => cursize \in {0, 3, 6} /\ readcount = cursize
    /\ ~torn /\ finallen # -1 => Lengths

\* What a result says.
Ended ==
  /\ result = "done" =>
       /\ finallen # -1 /\ finallen <= cursize
       /\ response.kind = "chunked" => chunkedEncoding
       /\ chunkedEncoding =>
            /\ decoded = Body(response) /\ contentLength = Len(Body(response))
            /\ headerLength + contentLength <= cursize
  /\ FailureIsReal

HttpInv == Typed /\ Sockets /\ Peers /\ Known /\ InChunks /\ InBody /\ Ended
----------------------------------------------------------------------------
(* One call's data.                                                        *)

\* The server's answer, whatever it is.
LEMMA AnswerIs ==
  ASSUME Typed
  PROVE  /\ response \in Responses /\ Size \in Nat /\ Size >= 8
         /\ Wire[response] \in Seq(Symbol) /\ IsHeader(Wire[response], response)
         /\ arrived \in 0 .. Size /\ cursize \in 0 .. arrived
BY WireIs DEF Typed, TypeOK, Size

\* The buffer has room, and holds what it held and a part of what has arrived
\* since; a call that sees the connection closed has all of it.
LEMMA CallReads ==
  ASSUME Typed, Known, Peers, result = "wait"
  PROVE  /\ BufferSize \in Nat \ {0} /\ Total <= BufferSize
         /\ Total \in cursize .. arrived /\ Total \in 0 .. Size
         /\ SeesClose => Total = arrived
         /\ sock = 0 => Total = cursize
<1>1. /\ cursize \in Nat /\ maxsize \in Nat \ {0} /\ cursize <= maxsize /\ finallen \in Int
      /\ arrived \in Nat /\ cursize <= arrived /\ arrived <= Size /\ Size \in Nat
  BY AnswerIs DEF Typed, TypeOK
<1>2. BufferSize \in Nat \ {0} /\ cursize <= BufferSize
  <2>1. CASE cursize < maxsize
    BY <1>1, <2>1 DEF BufferSize
  <2>2. CASE cursize >= maxsize /\ finallen > 0 /\ 2 * maxsize > finallen
    <3>1. BufferSize = finallen
      BY <1>1, <2>2 DEF BufferSize
    <3>2. cursize < finallen
      BY <1>1, <2>2 DEF Known
    <3> QED BY <1>1, <2>2, <3>1, <3>2
  <2>3. CASE cursize >= maxsize /\ ~(finallen > 0 /\ 2 * maxsize > finallen)
    <3>1. BufferSize = 2 * maxsize
      BY <1>1, <2>3 DEF BufferSize
    <3> QED BY <1>1, <3>1
  <2> QED BY <1>1, <2>1, <2>2, <2>3
<1>3. Total \in {arrived, BufferSize} /\ Total <= arrived /\ Total <= BufferSize
  <2>1. {arrived, BufferSize} \subseteq Nat /\ {arrived, BufferSize} # {}
    BY <1>1, <1>2
  <2> HIDE DEF BufferSize
  <2>2. Total \in {arrived, BufferSize} /\ \A n \in {arrived, BufferSize} : Total <= n
    BY <2>1, MinIs DEF Total
  <2> QED BY <2>2
<1>4. Total \in cursize .. arrived
  BY <1>1, <1>2, <1>3
<1>5. SeesClose => Total = arrived
  BY <1>1, <1>2, <1>3 DEF SeesClose
<1>6. sock = 0 => Total = cursize
  BY <1>1, <1>4 DEF Peers
<1> QED BY <1>1, <1>2, <1>3, <1>4, <1>5, <1>6

\* What has been received of the answer.
LEMMA DataIs ==
  ASSUME Typed, Total \in 0 .. Size
  PROVE  /\ Data \in Seq(Symbol) /\ Len(Data) = Total
         /\ \A i \in 1 .. Total : Data[i] = Wire[response][i]
BY AnswerIs, PrefixIs DEF Data, Size

\* A segment that ends inside the header ends a line or tears one.
LEMMA Tearing ==
  ASSUME Typed, NEW t \in 0 .. Size
  PROVE  (t \in 1 .. Len(Header(response)) - 1 /\ Wire[response][t] # LF) <=> t \in {1, 2, 4, 5, 7}
<1>1. /\ response \in Responses /\ Len(Header(response)) - 1 = 7
      /\ IsHeader(Wire[response], response)
  BY AnswerIs, HeaderIs
<1>2. FirstSymbol(response) # LF /\ FieldSymbol(response) # LF /\ CR # LF
  BY <1>1, HeaderSymbolsAre DEF EndsLine
<1>3. /\ Wire[response][1] # LF /\ Wire[response][2] # LF /\ Wire[response][3] = LF
      /\ Wire[response][4] # LF /\ Wire[response][5] # LF /\ Wire[response][6] = LF
      /\ Wire[response][7] # LF
  BY <1>1, <1>2 DEF IsHeader
<1>4. t \in 1 .. 7 <=> t \in {1, 2, 3, 4, 5, 6, 7}
  OBVIOUS
<1> QED BY <1>1, <1>3, <1>4

\* The buffer, the sockets and the connection after a call.
LEMMA CallTakes ==
  ASSUME Typed, Sockets, Known, Peers, result = "wait", TakeNothing, UNCHANGED <<peer, freed, broken>>,
         cursize' = Total \/ (result' # "wait" /\ cursize' \in 0 .. Total)
  PROVE  /\ Total \in cursize .. arrived /\ Total \in 0 .. Size
         /\ cursize' \in 0 .. arrived' /\ maxsize' \in Nat /\ maxsize' # 0 /\ cursize' <= maxsize'
         /\ sock' \in 0 .. MaxHops /\ open' \subseteq 1 .. MaxHops
         /\ torn' \in BOOLEAN /\ (torn => torn')
         /\ sock # 0 /\ ~torn' => Total \in {0, 3, 6} \/ Total >= 8
         /\ Sockets' /\ Peers' /\ Size' = Size
<1>0. /\ cursize \in Nat /\ maxsize \in Nat /\ maxsize # 0 /\ cursize <= maxsize /\ arrived \in Nat
      /\ sock \in 0 .. MaxHops /\ open \subseteq 1 .. MaxHops /\ torn \in BOOLEAN
      /\ cursize \in 0 .. arrived /\ Size \in Nat /\ MaxHops \in Nat
  BY AnswerIs, HttpAssumption DEF Typed, TypeOK
<1>1. /\ BufferSize \in Nat \ {0} /\ Total <= BufferSize
      /\ Total \in cursize .. arrived /\ Total \in 0 .. Size
      /\ SeesClose => Total = arrived
      /\ sock = 0 => Total = cursize
  BY CallReads
<1>2. /\ arrived' = arrived /\ response' = response /\ peerOpen' = peerOpen /\ hop' = hop
      /\ freed' = freed /\ broken' = broken /\ Size' = Size
  BY DEF peer, Size
<1>5. cursize' \in 0 .. arrived' /\ cursize' <= Total
  <2>1. Total \in Nat /\ Total <= arrived
    BY <1>0, <1>1
  <2> HIDE DEF Total
  <2> QED BY <1>0, <1>2, <2>1
<1>3. CASE sock # 0
  <2>1. TakeData
    BY <1>3 DEF TakeNothing
  <2>2. /\ maxsize' = BufferSize
        /\ torn' = (torn \/ (Total \in 1 .. Len(Header(response)) - 1 /\ Wire[response][Total] # LF))
        /\ IF SeesClose THEN sock' = 0 /\ open' = open \ {sock} ELSE UNCHANGED <<sock, open>>
    BY <2>1 DEF TakeData
  <2>3. \/ SeesClose /\ sock' = 0 /\ open' = open \ {sock}
        \/ ~SeesClose /\ sock' = sock /\ open' = open
    BY <2>2
  <2>4. torn' = (torn \/ Total \in {1, 2, 4, 5, 7})
    BY <1>1, <2>2, Tearing, Zenon
  <2>5. torn' \in BOOLEAN /\ (torn => torn') /\ (~torn' => Total \in {0, 3, 6} \/ Total >= 8)
    <3>1. Total \in Nat /\ (Total \in {1, 2, 4, 5, 7} \/ Total \in {0, 3, 6} \/ Total >= 8)
      BY <1>0, <1>1
    <3> HIDE DEF Total
    <3> QED BY <2>4, <3>1
  <2>6. cursize' \in 0 .. arrived' /\ maxsize' \in Nat /\ maxsize' # 0 /\ cursize' <= maxsize'
    <3> HIDE DEF Total, BufferSize
    <3> QED BY <1>0, <1>1, <1>5, <2>2
  <2>7. sock' \in 0 .. MaxHops /\ open' \subseteq 1 .. MaxHops
    <3>1. sock' \in {0, sock} /\ open' \subseteq open
      BY <2>3
    <3>2. 0 \in 0 .. MaxHops
      BY <1>0
    <3> QED BY <1>0, <3>1, <3>2
  <2>8. Sockets'
    <3>1. open' \subseteq {sock'}
      BY <2>3 DEF Sockets
    <3>2. ~freed'
      BY <1>2 DEF Sockets
    <3> QED BY <3>1, <3>2 DEF Sockets
  <2>9. Peers'
    <3>1. sock' = 0 /\ result' = "wait" => cursize' = arrived' /\ ~peerOpen'
      <4>1. sock' = 0 => SeesClose
        BY <1>3, <2>3
      <4>2. SeesClose => Total = arrived /\ ~peerOpen
        BY <1>1 DEF SeesClose
      <4> QED BY <1>2, <2>2, <4>1, <4>2
    <3>2. /\ ~peerOpen' /\ arrived' < Size' => broken'
          /\ response'.kind = "garbage" => broken'
      BY <1>2 DEF Peers
    <3> QED BY <3>1, <3>2 DEF Peers
  <2> QED BY <1>1, <1>2, <1>3, <2>2, <2>5, <2>6, <2>7, <2>8, <2>9
<1>4. CASE sock = 0
  <2>1. maxsize' = maxsize /\ sock' = sock /\ open' = open /\ torn' = torn
    BY <1>4 DEF TakeNothing, sockets
  <2>2. Total = cursize
    BY <1>1, <1>4
  <2>3. Sockets'
    BY <1>2, <2>1 DEF Sockets
  <2>4. Peers'
    <3>1. result' = "wait" => cursize' = arrived' /\ ~peerOpen'
      BY <1>2, <1>4, <2>2 DEF Peers
    <3>2. /\ ~peerOpen' /\ arrived' < Size' => broken'
          /\ response'.kind = "garbage" => broken'
      BY <1>2 DEF Peers
    <3> QED BY <3>1, <3>2 DEF Peers
  <2>5. cursize' <= maxsize'
    <3> HIDE DEF Total
    <3> QED BY <1>0, <1>5, <2>1, <2>2
  <2> QED BY <1>0, <1>1, <1>2, <1>4, <1>5, <2>1, <2>3, <2>4, <2>5
<1> QED BY <1>3, <1>4
----------------------------------------------------------------------------
(* What a call reads.                                                      *)

\* What the reading of a header finds in it, whole or not.
LEMMA HeaderRead ==
  ASSUME Typed, Known, Peers, HeaderFound
  PROVE  /\ Total \in 1 .. Size /\ Total > cursize /\ result = "wait" /\ sock # 0
         /\ HeaderLines.found <=> Total >= 7
         /\ HeaderLines.at = IF Total >= 8 THEN 8 ELSE Total
         /\ IsAnswer <=> response.kind # "garbage"
         /\ IsAnswer => Data[1][2] = response.code
         /\ Redirected => response.kind = "redirect"
         /\ HeaderLines.found /\ response.kind = "redirect" => Redirected
         /\ HeaderLines.found => ((\E f \in Fields : f[1] = "length") <=> response.kind = "length")
         /\ HeaderLines.found => ((\E f \in Fields : f[1] = "chunked") <=> response.kind = "chunked")
         /\ HeaderLines.found /\ response.kind = "length" =>
              (CHOOSE f \in Fields : f[1] = "length")[2] = Len(Body(response))
<1> DEFINE r == response
           w == Wire[response]
<1>1. /\ result = "wait" /\ sock # 0 /\ Total > cursize
  BY DEF HeaderFound, Reading, Receiving, GotData
<1>2. /\ r \in Responses /\ Size \in Nat /\ cursize \in Nat /\ w \in Seq(Symbol)
      /\ Total \in 0 .. Size /\ Size = Len(w) /\ IsHeader(w, r)
  BY <1>1, AnswerIs, CallReads DEF Size
<1>3. Total \in 1 .. Size
  BY <1>1, <1>2
<1>4. Len(Data) = Total /\ \A i \in 1 .. Total : Data[i] = w[i]
  BY <1>2, DataIs
<1>5. /\ HeaderLines.found <=> Total >= 7
      /\ HeaderLines.at = IF Total >= 8 THEN 8 ELSE Total
  <2>1. Total \in 1 .. Len(Wire[r])
    BY <1>2, <1>3
  <2>2. LET h == ReadHeader(SubSeq(Wire[r], 1, Total),
                            ReadStringLine(SubSeq(Wire[r], 1, Total), 0).next)
        IN  (h.found <=> Total >= 7) /\ h.at = IF Total >= 8 THEN 8 ELSE Total
    BY <1>2, <2>1, HeaderLinesOf
  <2> HIDE DEF Total
  <2> QED BY <2>2 DEF HeaderLines, Data
<1>6. /\ w[1] = FirstSymbol(r) /\ w[2] = CR /\ w[3] = LF /\ w[4] = FieldSymbol(r)
      /\ w[5] = CR /\ w[6] = LF /\ w[7] = CR /\ w[8] = LF
  BY <1>2 DEF IsHeader
<1> HIDE DEF w
<1>7. /\ FirstSymbol(r)[1] = IF r.kind = "garbage" THEN "other" ELSE "status"
      /\ r.kind # "garbage" => FirstSymbol(r)[2] = r.code
  BY DEF FirstSymbol
<1>8. FieldSymbol(r)[1] = CASE r.kind = "length"   -> "length"
                            [] r.kind = "chunked"  -> "chunked"
                            [] r.kind = "redirect" -> "location"
                            [] OTHER               -> "other"
  BY DEF FieldSymbol
<1>9. /\ IsAnswer <=> r.kind # "garbage"
      /\ IsAnswer => Data[1][2] = r.code
  <2>1. Data[1] = FirstSymbol(r)
    BY <1>2, <1>3, <1>4, <1>6
  <2> QED BY <1>7, <2>1 DEF IsAnswer
<1>10. Fields \subseteq {FirstSymbol(r), CR, LF, FieldSymbol(r)}
  <2> SUFFICES ASSUME NEW i \in 1 .. HeaderLines.at
               PROVE  Data[i] \in {FirstSymbol(r), CR, LF, FieldSymbol(r)}
    BY DEF Fields
  <2>1. i \in {1, 2, 3, 4, 5, 6, 7, 8} /\ i \in 1 .. Total
    <3> HIDE DEF Total, HeaderLines
    <3> QED BY <1>2, <1>3, <1>5
  <2>2. Data[i] = w[i]
    BY <1>4, <2>1
  <2> QED BY <1>6, <2>1, <2>2
<1>11. HeaderLines.found => FieldSymbol(r) \in Fields
  <2> SUFFICES ASSUME HeaderLines.found PROVE FieldSymbol(r) \in Fields
    OBVIOUS
  <2>1. 4 \in 1 .. HeaderLines.at /\ 4 \in 1 .. Total
    <3> HIDE DEF Total, HeaderLines
    <3> QED BY <1>2, <1>3, <1>5
  <2>2. Data[4] = FieldSymbol(r)
    BY <1>4, <1>6, <2>1
  <2> QED BY <2>1, <2>2 DEF Fields
<1>12. CR[1] = "CR" /\ LF[1] = "LF"
  BY DEF CR, LF
<1>13. \A f \in Fields : f[1] \in {"length", "chunked", "location"} => f = FieldSymbol(r)
  BY <1>7, <1>10, <1>12
<1>14. /\ Redirected => r.kind = "redirect"
       /\ HeaderLines.found /\ r.kind = "redirect" => Redirected
  BY <1>8, <1>11, <1>13 DEF Redirected
<1>15. HeaderLines.found => ((\E f \in Fields : f[1] = "length") <=> r.kind = "length")
  BY <1>8, <1>11, <1>13
<1>16. HeaderLines.found => ((\E f \in Fields : f[1] = "chunked") <=> r.kind = "chunked")
  BY <1>8, <1>11, <1>13
<1>17. HeaderLines.found /\ r.kind = "length" =>
         (CHOOSE f \in Fields : f[1] = "length")[2] = Len(Body(r))
  <2> SUFFICES ASSUME HeaderLines.found, r.kind = "length"
               PROVE  (CHOOSE f \in Fields : f[1] = "length")[2] = Len(Body(r))
    OBVIOUS
  <2>1. \E f \in Fields : f[1] = "length"
    BY <1>15
  <2>2. (CHOOSE f \in Fields : f[1] = "length") = FieldSymbol(r)
    BY <1>13, <2>1
  <2>3. FieldSymbol(r) = <<"length", Len(Body(r))>>
    BY DEF FieldSymbol
  <2> DEFINE f == CHOOSE g \in Fields : g[1] = "length"
  <2>4. f = <<"length", Len(Body(r))>>
    BY <2>2, <2>3
  <2> HIDE DEF f
  <2>5. f[2] = Len(Body(r))
    BY <2>4
  <2> QED BY <2>5 DEF f
<1> HIDE DEF Total, HeaderLines, Fields
<1> QED BY <1>1, <1>3, <1>5, <1>9, <1>14, <1>15, <1>16, <1>17

\* HTTP_ProcessChunkedEncoding: chunks that were taken before are followed by
\* the next ones, and a 1 says that all are taken.
LEMMA ChunksTaken ==
  ASSUME Typed, InChunks, response.kind = "chunked", result = "wait",
         NEW t \in 7 .. Size, t >= cursize, Total = t,
         NEW header, header = IF t >= 8 THEN 8 ELSE 7,
         NEW closed, TakeChunks(header, closed)
  PROVE  /\ result' \in {"wait", "done", "fail"} /\ readcount' \in 0 .. cursize' /\ contentLength' \in Int
         /\ currentChunkReadOffset' \in Nat
         /\ cursize' \in header .. t
         /\ result' # "done" => cursize' = t /\ finallen' = finallen
         /\ result' = "done" => cursize' = header + contentLength' /\ finallen' = cursize'
         /\ \E k \in 0 .. Len(response.chunks) :
              /\ currentChunkReadOffset' = Len(Encoded(response, k))
              /\ decoded' = Decoded(response, k) /\ (k > 0 => Boundary(response, k) <= t)
         /\ result' = "done" => decoded' = Body(response) /\ contentLength' = Len(Body(response))
<1> DEFINE r == response
           n == Len(r.chunks)
           first == header + currentChunkReadOffset
           last == LastChunk(Data, first)
<1>0. /\ r \in Responses /\ Size \in Nat /\ t \in 0 .. Len(Wire[r]) /\ t \in 0 .. Size /\ cursize \in Nat
      /\ n \in Nat
  BY AnswerIs, ChunksOf DEF Size
<1>1. /\ result' = ChunkResult(Data, last, closed)
      /\ decoded' = decoded \o ChunkData(Data, first)
      /\ currentChunkReadOffset' = last - header
      /\ result' = "done" =>
           /\ readcount' = 0 /\ contentLength' = Len(decoded')
           /\ cursize' = header + Len(decoded') /\ finallen' = header + Len(decoded')
      /\ result' # "done" =>
           /\ readcount' = ChunkStart(Data, last) /\ contentLength' = 0
           /\ cursize' = t /\ finallen' = finallen
  BY DEF TakeChunks, Complete, KeepData
<1>2. Data = SubSeq(Wire[r], 1, t) /\ Data \in Seq(Symbol) /\ Len(Data) = t
  BY <1>0, DataIs DEF Data
<1>3. PICK k \in 0 .. n : Taken(k)
  BY DEF InChunks
<1> DEFINE Reads(j) ==
             /\ last - header = Len(Encoded(r, j)) /\ last \in 0 .. t
             /\ decoded \o ChunkData(Data, first) = Decoded(r, j)
             /\ j > 0 => Boundary(r, j) <= t
             /\ result' = "done" => Decoded(r, j) = Body(r)
<1>4. \E j \in 0 .. n : Reads(j)
  <2>1. CASE t >= 8
    <3>1. first = Boundary(r, k) /\ header = 8 /\ Boundary(r, k) <= t
      <4>1. header = 8 /\ first = 8 + Len(Encoded(r, k))
        BY <1>3, <2>1 DEF Taken
      <4>2. k = 0 => Len(Encoded(r, k)) = 0
        BY <1>0, EncodedSteps
      <4>3. k = 0 \/ Boundary(r, k) <= cursize
        BY <1>3 DEF Taken
      <4>4. Boundary(r, k) \in Nat
        BY <1>0, <1>3, BoundaryTyped
      <4> QED BY <1>0, <2>1, <4>1, <4>2, <4>3, <4>4 DEF Boundary
    <3>2. PICK j \in k .. n :
            /\ LastChunk(Data, Boundary(r, k)) = Boundary(r, j) /\ Boundary(r, j) <= t
            /\ Decoded(r, k) \o ChunkData(Data, Boundary(r, k)) = Decoded(r, j)
      BY <1>0, <1>2, <1>3, <3>1, ChunksRead
    <3>3. j \in 0 .. n
      BY <1>0
    <3>4. last = Boundary(r, j) /\ Boundary(r, j) \in Nat /\ Boundary(r, j) = 8 + Len(Encoded(r, j))
      BY <1>0, <3>1, <3>2, <3>3, BoundaryTyped DEF Boundary
    <3>5. decoded \o ChunkData(Data, first) = Decoded(r, j)
      BY <1>3, <3>1, <3>2 DEF Taken
    <3>6. Len(Encoded(r, j)) \in Nat
      BY <1>0, <3>3, EncodedSteps
    <3>7. result' = "done" => Decoded(r, j) = Body(r)
      <4>1. result' = ChunkResult(SubSeq(Wire[r], 1, t), Boundary(r, j), closed)
        BY <1>1, <1>2, <3>4
      <4> QED BY <1>0, <3>2, <3>3, <4>1, ChunksDone
    <3>8. last - header = Len(Encoded(r, j)) /\ last \in 0 .. t
      BY <1>0, <3>1, <3>2, <3>4, <3>6
    <3> QED BY <3>2, <3>3, <3>5, <3>7, <3>8
  <2>2. CASE t = 7
    <3>1. k = 0
      <4>1. Boundary(r, k) \in Nat /\ Boundary(r, k) >= 8
        BY <1>0, <1>3, BoundaryTyped
      <4> QED BY <1>0, <1>3, <2>2, <4>1 DEF Taken
    <3>2. header = 7 /\ first = 7 /\ decoded = << >> /\ Encoded(r, 0) = << >> /\ Decoded(r, 0) = << >>
      <4>1. Encoded(r, 0) = << >> /\ Decoded(r, 0) = << >>
        BY <1>0, EncodedSteps, DecodedSteps
      <4>2. Len(<< >>) = 0
        OBVIOUS
      <4> QED BY <1>3, <2>2, <3>1, <4>1, <4>2 DEF Taken
    <3>3. ~HasSizeLine(Data, 7)
      <4>1. ReadStringLine(Data, 7) = [text |-> << >>, next |-> 7]
        BY <1>2, <2>2, LineAtEnd
      <4> QED BY <4>1 DEF HasSizeLine
    <3>4. ~ChunkComplete(Data, 7)
      BY <3>3 DEF ChunkComplete
    <3>5. last = 7 /\ ChunkData(Data, first) = << >>
      <4>1. 7 \in 0 .. Len(Data)
        BY <1>2, <2>2
      <4> QED BY <1>2, <3>2, <3>4, <4>1, LastChunkStep, ChunkDataStep
    <3>6. result' # "done"
      <4>1. result' = ChunkResult(Data, 7, closed)
        BY <1>1, <3>5
      <4> QED BY <3>3, <4>1 DEF ChunkResult
    <3>7. decoded \o ChunkData(Data, first) = Decoded(r, 0)
      BY <3>2, <3>5
    <3>8. last - header = Len(Encoded(r, 0)) /\ last \in 0 .. t
      BY <2>2, <3>2, <3>5
    <3>9. 0 \in 0 .. n
      BY <1>0
    <3>10. Reads(0)
      BY <3>6, <3>7, <3>8
    <3> QED BY <3>9, <3>10
  <2>3. t >= 8 \/ t = 7
    OBVIOUS
  <2> HIDE DEF Reads
  <2> QED BY <2>1, <2>2, <2>3
<1>5. PICK j \in 0 .. n : Reads(j)
  BY <1>4
<1>6. ChunkStart(Data, last) \in 0 .. t
  <2>1. last \in 0 .. Len(Data)
    BY <1>2, <1>5
  <2>2. ChunkStart(Data, last) \in last .. t
    BY <1>2, <2>1, ChunkForward
  <2> QED BY <1>0, <1>5, <2>2
<1>7. Len(Encoded(r, j)) \in Nat /\ decoded' \in Seq(Symbol) /\ Len(decoded') \in Nat
  <2>1. Encoded(r, j) \in Seq(Symbol) /\ decoded' \in Seq(Symbol)
    BY <1>0, <1>1, <1>5, EncodedSteps, DecodedSteps
  <2> QED BY <2>1
<1>8. result' \in {"wait", "done", "fail"}
  BY <1>1 DEF ChunkResult
<1>9. /\ readcount' \in 0 .. cursize' /\ contentLength' \in Int /\ cursize' \in header .. t
      /\ result' = "done" => cursize' = header + contentLength' /\ finallen' = cursize'
  <2>1. header + Len(decoded') <= t
    <3>1. Len(decoded') <= Len(Encoded(r, j))
      BY <1>0, <1>1, <1>5, DecodedShorter
    <3>2. j > 0 => 8 + Len(Encoded(r, j)) <= t
      BY <1>5 DEF Boundary
    <3>3. j = 0 => Len(Encoded(r, j)) = 0
      BY <1>0, EncodedSteps
    <3>4. header \in {7, 8} /\ header <= t /\ header \in Nat
      BY <1>0
    <3> QED BY <1>0, <1>7, <3>1, <3>2, <3>3, <3>4
  <2>2. header \in Nat /\ header <= t /\ t \in Nat
    BY <1>0
  <2> HIDE DEF last
  <2>3. CASE result' = "done"
    BY <1>1, <1>7, <2>1, <2>2, <2>3
  <2>4. CASE result' # "done"
    BY <1>1, <1>6, <2>2, <2>4
  <2> QED BY <2>3, <2>4
<1>10. /\ currentChunkReadOffset' = Len(Encoded(r, j)) /\ decoded' = Decoded(r, j)
       /\ currentChunkReadOffset' \in Nat
  BY <1>1, <1>5, <1>7
<1>11. result' = "done" => decoded' = Body(r) /\ contentLength' = Len(Body(r))
  BY <1>1, <1>5, <1>10
<1> QED BY <1>1, <1>5, <1>8, <1>9, <1>10, <1>11
----------------------------------------------------------------------------
(* The ways through a call.                                                *)

\* A call keeps what is typed, if what it computes is.
LEMMA CallTyped ==
  ASSUME Typed, Sockets, Known, Peers, result = "wait", TakeNothing,
         UNCHANGED <<peer, freed, left, broken>>,
         cursize' = Total \/ (result' # "wait" /\ cursize' \in 0 .. Total),
         result' \in {"wait", "done", "fail"}, readcount' \in 0 .. cursize', finallen' \in Int,
         code' \in Nat, headerLength' \in Nat, contentLength' \in Int,
         currentChunkReadOffset' \in Nat,
         contentLengthArrived' \in BOOLEAN, chunkedEncoding' \in BOOLEAN
  PROVE  Typed'
<1>1. /\ cursize' \in 0 .. arrived' /\ maxsize' \in Nat /\ maxsize' # 0 /\ cursize' <= maxsize'
      /\ sock' \in 0 .. MaxHops /\ open' \subseteq 1 .. MaxHops
      /\ torn' \in BOOLEAN
  BY CallTakes
<1>2. /\ left' \in 0 .. Request /\ hop' \in 1 .. MaxHops /\ freed' \in BOOLEAN
      /\ peerOpen' \in BOOLEAN /\ broken' \in BOOLEAN
      /\ response' \in Responses /\ arrived' \in 0 .. Len(Wire[response'])
      /\ response' \in Answers(hop')
  BY DEF Typed, TypeOK, peer
<1> HIDE DEF Total
<1> QED BY <1>1, <1>2 DEF Typed, TypeOK

\* Where nothing is read and the connection is not closed, the state is the
\* same; where it is, all has arrived, and without a failure that is more than a
\* call would wait for.
LEMMA ReceiveNothingKeeps ==
  ASSUME HttpInv, ReceiveNothing
  PROVE  HttpInv'
<1>0. Typed /\ Sockets /\ Peers /\ Known /\ InChunks /\ InBody /\ Ended
  BY DEF HttpInv
<1>1. /\ result = "wait" /\ ~GotData /\ result' = (IF Closed THEN "fail" ELSE "wait") /\ TakeNothing
      /\ UNCHANGED <<freed, left, readcount, answer, peer, broken>> /\ cursize' = cursize
  BY DEF ReceiveNothing, Receiving
<1>2. /\ freed' = freed /\ left' = left /\ readcount' = readcount /\ broken' = broken
      /\ finallen' = finallen /\ code' = code /\ headerLength' = headerLength
      /\ contentLength' = contentLength /\ contentLengthArrived' = contentLengthArrived
      /\ chunkedEncoding' = chunkedEncoding
      /\ currentChunkReadOffset' = currentChunkReadOffset /\ decoded' = decoded
      /\ UNCHANGED <<peer, freed, left, broken>> /\ UNCHANGED <<peer, freed, broken>>
      /\ response' = response /\ arrived' = arrived
  BY <1>1 DEF answer, peer
<1>4. Total = cursize /\ cursize \in Nat /\ Size \in Nat /\ arrived \in 0 .. Size /\ finallen \in Int
  <2>1. cursize \in Nat /\ Size \in Nat /\ arrived \in 0 .. Size /\ finallen \in Int
    BY <1>0, AnswerIs DEF Typed, TypeOK
  <2>2. Total \in cursize .. arrived /\ (sock = 0 => Total = cursize)
    BY <1>0, <1>1, CallReads
  <2>3. sock # 0 => ~(Total > cursize)
    BY <1>1 DEF GotData
  <2> HIDE DEF Total
  <2> QED BY <2>1, <2>2, <2>3
<1>3. /\ cursize' = Total /\ Total \in 0 .. Size
      /\ torn => torn'
      /\ Sockets' /\ Peers' /\ Size' = Size
  BY <1>0, <1>1, <1>2, <1>4, CallTakes
<1>5. result' \in {"wait", "fail"}
  BY <1>1
<1>6. Typed'
  <2>1. /\ readcount' \in 0 .. cursize' /\ finallen' \in Int /\ code' \in Nat
        /\ headerLength' \in Nat /\ contentLength' \in Int /\ currentChunkReadOffset' \in Nat
        /\ contentLengthArrived' \in BOOLEAN /\ chunkedEncoding' \in BOOLEAN
    BY <1>0, <1>1, <1>2, <1>4 DEF Typed, TypeOK
  <2>2. result' \in {"wait", "done", "fail"}
    BY <1>5
  <2> QED BY <1>0, <1>1, <1>2, <1>3, <2>1, <2>2, CallTyped
<1>7. cursize' = cursize
  BY <1>1
<1>8. Known'
  BY <1>0, <1>1, <1>2, <1>3, <1>7 DEF Known
<1>9. InChunks'
  <2> SUFFICES ASSUME response.kind = "chunked" PROVE InChunks'
    BY <1>2 DEF InChunks
  <2>1. PICK k \in 0 .. Len(response.chunks) : Taken(k)
    BY <1>0 DEF InChunks
  <2>2. Taken(k)'
    BY <1>1, <1>2, <1>7, <2>1 DEF Taken
  <2>3. k \in 0 .. Len(response'.chunks)
    BY <1>2
  <2> QED BY <1>0, <1>1, <1>2, <1>7, <2>2, <2>3 DEF InChunks
<1>10. InBody'
  <2> SUFFICES ASSUME response.kind # "chunked" PROVE InBody'
    BY <1>2 DEF InBody
  <2>1. ~torn /\ finallen # -1 => Lengths
    BY <1>0 DEF InBody
  <2>2. Lengths => Lengths'
    BY <1>1, <1>2, <1>3, <1>7 DEF Lengths
  <2>3. ~torn' /\ finallen' # -1 => Lengths'
    BY <1>2, <1>3, <2>1, <2>2
  <2>4. ~torn' /\ result' = "wait" /\ finallen' = -1 => cursize' \in {0, 3, 6} /\ readcount' = cursize'
    BY <1>0, <1>1, <1>2, <1>3, <1>7 DEF InBody
  <2>5. ~chunkedEncoding'
    BY <1>0, <1>2 DEF InBody
  <2> QED BY <2>3, <2>4, <2>5 DEF InBody
<1>11. FailureIsReal'
  <2> SUFFICES ASSUME result' = "fail", response.kind # "chunked", ~broken, ~torn' PROVE FALSE
    BY <1>2 DEF FailureIsReal
  <2>1. Closed
    BY <1>1
  <2>2. cursize = arrived /\ ~peerOpen
    <3>1. CASE sock = 0
      BY <1>0, <1>1, <3>1 DEF Peers
    <3>2. CASE SeesClose
      BY <1>0, <1>1, <1>4, <3>2, CallReads DEF SeesClose
    <3> QED BY <2>1, <3>1, <3>2 DEF Closed
  <2>3. cursize = Size /\ Size >= 8
    <3>1. ~(arrived < Size)
      BY <1>0, <2>2 DEF Peers
    <3> QED BY <1>0, <1>4, <2>2, <3>1, AnswerIs
  <2>4. ~torn
    BY <1>3
  <2>5. finallen # -1
    BY <1>0, <1>1, <2>3, <2>4 DEF InBody
  <2>6. Lengths /\ cursize < finallen
    BY <1>0, <1>1, <2>4, <2>5 DEF InBody, Known
  <2> QED BY <1>1, <1>4, <2>3, <2>6 DEF Lengths
<1>12. Ended'
  BY <1>5, <1>11 DEF Ended
<1> QED BY <1>3, <1>6, <1>8, <1>9, <1>10, <1>12 DEF HttpInv

\* What is there already of a chunked answer is read again.
LEMMA RetryChunksKeeps ==
  ASSUME HttpInv, RetryChunks
  PROVE  HttpInv'
<1>0. Typed /\ Sockets /\ Peers /\ Known /\ InChunks /\ InBody /\ Ended
  BY DEF HttpInv
<1>1. /\ result = "wait" /\ ~GotData /\ chunkedEncoding /\ headerLength > 0
      /\ TakeNothing /\ TakeChunks(headerLength, Closed)
      /\ UNCHANGED <<peer, freed, left, broken>> /\ UNCHANGED <<peer, freed, broken>>
      /\ code' = code /\ headerLength' = headerLength
      /\ contentLengthArrived' = contentLengthArrived /\ chunkedEncoding' = chunkedEncoding
      /\ response' = response
  BY DEF RetryChunks, Receiving, peer
<1>2. response.kind = "chunked" /\ finallen = -1
  BY <1>0, <1>1 DEF InBody, InChunks
<1>3. Total \in cursize .. arrived /\ Total \in 0 .. Size /\ (sock = 0 => Total = cursize)
  BY <1>0, <1>1, CallReads
<1>4. cursize \in Nat /\ Size \in Nat /\ arrived \in 0 .. Size
  BY <1>0, AnswerIs
<1>5. Total = cursize
  <2>1. sock # 0 => ~(Total > cursize)
    BY <1>1 DEF GotData
  <2> HIDE DEF Total
  <2> QED BY <1>3, <1>4, <2>1
<1> HIDE DEF Total
<1>6. /\ headerLength \in {7, 8} /\ headerLength <= cursize /\ (headerLength = 7 => cursize = 7)
      /\ code = response.code
  BY <1>0, <1>1, <1>2 DEF Known, InChunks
<1>7. /\ Total \in 7 .. Size /\ Total >= cursize
      /\ headerLength = IF Total >= 8 THEN 8 ELSE 7
  BY <1>3, <1>4, <1>5, <1>6
<1>8. /\ result' \in {"wait", "done", "fail"} /\ readcount' \in 0 .. cursize' /\ contentLength' \in Int
      /\ currentChunkReadOffset' \in Nat
      /\ cursize' \in headerLength .. Total
      /\ result' # "done" => cursize' = Total /\ finallen' = finallen
      /\ result' = "done" => cursize' = headerLength + contentLength' /\ finallen' = cursize'
      /\ \E k \in 0 .. Len(response.chunks) :
           /\ currentChunkReadOffset' = Len(Encoded(response, k))
           /\ decoded' = Decoded(response, k) /\ (k > 0 => Boundary(response, k) <= Total)
      /\ result' = "done" => decoded' = Body(response) /\ contentLength' = Len(Body(response))
  BY <1>0, <1>1, <1>2, <1>7, ChunksTaken
<1>14. cursize' = Total \/ (result' # "wait" /\ cursize' \in 0 .. Total)
  BY <1>6, <1>8
<1>16. /\ cursize' \in Nat /\ cursize' >= 7 /\ finallen' \in Int
       /\ finallen' = -1 \/ (finallen' > 0 /\ result' # "wait")
  <2>1. Total \in Nat /\ cursize' \in Nat /\ cursize' >= 7
    BY <1>4, <1>6, <1>7, <1>8
  <2> QED BY <1>2, <1>8, <2>1
<1>15. (torn => torn') /\ Sockets' /\ Peers'
  BY <1>0, <1>1, <1>14, CallTakes
<1>9. Typed'
  <2>1. /\ finallen' \in Int /\ code' \in Nat /\ headerLength' \in Nat
        /\ contentLengthArrived' \in BOOLEAN /\ chunkedEncoding' \in BOOLEAN
    BY <1>0, <1>1, <1>16 DEF Typed, TypeOK
  <2> QED BY <1>0, <1>1, <1>8, <1>14, <2>1, CallTyped
<1>10. Known'
  <2>1. /\ finallen' = -1 \/ (finallen' > 0 /\ result' # "wait")
        /\ headerLength' # 0 /\ headerLength' <= cursize' /\ headerLength' \in {0, 7, 8}
        /\ code' = response'.code
    BY <1>1, <1>6, <1>8, <1>16
  <2>2. headerLength' = 7 => torn'
    BY <1>0, <1>1, <1>15 DEF Known
  <2> QED BY <2>1, <2>2 DEF Known
<1>11. InChunks'
  <2>1. \E k \in 0 .. Len(response'.chunks) : Taken(k)'
    BY <1>1, <1>8 DEF Taken
  <2>2. result' # "done" => finallen' = -1 /\ (headerLength' = 7 => cursize' = 7)
    BY <1>1, <1>2, <1>5, <1>6, <1>8
  <2> QED BY <2>1, <2>2 DEF InChunks
<1>12. InBody'
  BY <1>1, <1>2 DEF InBody
<1>13. Ended'
  <2>1. FailureIsReal'
    BY <1>1, <1>2 DEF FailureIsReal
  <2>2. chunkedEncoding' /\ Body(response') = Body(response)
    BY <1>1, <1>2
  <2>3. result' = "done" =>
          finallen' # -1 /\ finallen' <= cursize' /\ headerLength' + contentLength' <= cursize'
    BY <1>1, <1>8, <1>16
  <2> QED BY <1>8, <2>1, <2>2, <2>3 DEF Ended
<1> QED BY <1>9, <1>10, <1>11, <1>12, <1>13, <1>15 DEF HttpInv

\* A body that is delimited by its length grows towards it.
LEMMA ReceiveBodyKeeps ==
  ASSUME HttpInv, ReceiveBody
  PROVE  HttpInv'
<1>0. Typed /\ Sockets /\ Peers /\ Known /\ InChunks /\ InBody /\ Ended
  BY DEF HttpInv
<1>1. /\ result = "wait" /\ sock # 0 /\ finallen # -1 /\ TakeData /\ cursize' = Total
      /\ result' = (IF Total < finallen THEN "wait" ELSE "done")
      /\ UNCHANGED <<peer, freed, left, broken>> /\ UNCHANGED <<peer, freed, broken>>
      /\ finallen' = finallen /\ code' = code /\ headerLength' = headerLength
      /\ contentLength' = contentLength /\ contentLengthArrived' = contentLengthArrived
      /\ chunkedEncoding' = chunkedEncoding
      /\ currentChunkReadOffset' = currentChunkReadOffset /\ decoded' = decoded
      /\ readcount' = readcount /\ response' = response
  BY DEF ReceiveBody, KeepData, Receiving, GotData, answer, peer
<1>2. TakeNothing
  BY <1>1 DEF TakeNothing
<1>3. /\ cursize' = Total /\ Total \in cursize .. arrived /\ Total \in 0 .. Size
      /\ torn => torn'
      /\ Sockets' /\ Peers' /\ Size' = Size
  BY <1>0, <1>1, <1>2, CallTakes
<1>4. cursize \in Nat /\ Size \in Nat /\ arrived \in 0 .. Size /\ finallen \in Int /\ finallen > 0
  BY <1>0, <1>1, AnswerIs DEF Typed, TypeOK, Known
<1> HIDE DEF Total
<1>5. response.kind # "chunked" /\ ~chunkedEncoding
  BY <1>0, <1>1 DEF InChunks, InBody
<1>6. result' \in {"wait", "done"} /\ (result' = "wait" <=> Total < finallen)
  BY <1>1
<1>7. Typed'
  <2>1. /\ finallen' \in Int /\ code' \in Nat /\ headerLength' \in Nat
        /\ contentLength' \in Int /\ currentChunkReadOffset' \in Nat
        /\ contentLengthArrived' \in BOOLEAN /\ chunkedEncoding' \in BOOLEAN
    BY <1>0, <1>1 DEF Typed, TypeOK
  <2>2. readcount' \in 0 .. cursize'
    BY <1>0, <1>1, <1>3, <1>4 DEF Typed, TypeOK
  <2>3. result' \in {"wait", "done", "fail"}
    BY <1>6
  <2> QED BY <1>0, <1>1, <1>2, <2>1, <2>2, <2>3, CallTyped
<1>8. Known'
  <2>1. /\ headerLength \in {0, 7, 8} /\ (headerLength = 7 => torn)
        /\ code = response.code /\ headerLength # 0 /\ headerLength <= cursize
    BY <1>0, <1>1 DEF Known
  <2>2. headerLength' <= cursize' /\ (result' = "wait" => cursize' < finallen')
    BY <1>1, <1>3, <1>4, <1>6, <2>1
  <2> QED BY <1>1, <1>3, <1>4, <2>1, <2>2 DEF Known
<1>9. InChunks'
  BY <1>1, <1>5 DEF InChunks
<1>10. InBody'
  <2>1. ~torn => Lengths
    BY <1>0, <1>1, <1>5 DEF InBody
  <2>2. Lengths => Lengths'
    BY <1>1, <1>3 DEF Lengths
  <2> QED BY <1>1, <1>3, <1>5, <2>1, <2>2 DEF InBody
<1>11. Ended'
  <2>1. FailureIsReal'
    BY <1>6 DEF FailureIsReal
  <2>2. result' = "done" => finallen' <= cursize'
    BY <1>1, <1>3, <1>4, <1>6
  <2>3. finallen' # -1 /\ ~chunkedEncoding'
    BY <1>1, <1>5
  <2> QED BY <1>1, <1>5, <2>1, <2>2, <2>3 DEF Ended
<1> QED BY <1>3, <1>7, <1>8, <1>9, <1>10, <1>11 DEF HttpInv

\* The first reading of a header: it moves readcount, and unless a segment has
\* torn a line it finds the header when all of it has arrived.
LEMMA HeaderSearched ==
  ASSUME Typed, InBody, result = "wait", finallen = -1, Total \in 0 .. Size, Total >= cursize
  PROVE  /\ HeaderSearch.at \in 0 .. Total
         /\ response.kind # "chunked" /\ ~torn /\ (Total \in {0, 3, 6} \/ Total >= 8) =>
              (HeaderSearch.found <=> Total >= 8) /\ HeaderSearch.at = IF Total >= 8 THEN 8 ELSE Total
<1>1. /\ response \in Responses /\ Size = Len(Wire[response]) /\ Size \in Nat
      /\ readcount \in 0 .. cursize /\ cursize \in Nat
  BY AnswerIs DEF Typed, TypeOK, Size
<1>2. Data \in Seq(Symbol) /\ Len(Data) = Total
  BY DataIs
<1>3. HeaderSearch.at \in 0 .. Total
  <2>1. readcount \in 0 .. Len(Data)
    BY <1>1, <1>2
  <2>2. ReadHeader(Data, readcount).at \in readcount .. Len(Data)
    BY <1>2, <2>1, ReadHeaderForward
  <2> QED BY <1>1, <1>2, <2>2 DEF HeaderSearch
<1>4. ASSUME response.kind # "chunked", ~torn, Total \in {0, 3, 6} \/ Total >= 8
      PROVE  (HeaderSearch.found <=> Total >= 8) /\ HeaderSearch.at = IF Total >= 8 THEN 8 ELSE Total
  <2>1. readcount \in {0, 3, 6} /\ readcount <= Total
    BY <1>1, <1>4 DEF InBody
  <2>2. LET h == ReadHeader(SubSeq(Wire[response], 1, Total), readcount)
        IN  (h.found <=> Total >= 8) /\ h.at = IF Total >= 8 THEN 8 ELSE Total
    BY <1>1, <1>4, <2>1, HeaderSearchOf
  <2> HIDE DEF Total
  <2> QED BY <2>2 DEF HeaderSearch, Data
<1> QED BY <1>3, <1>4

\* Lines are passed; what was known of the answer is forgotten.
LEMMA HeaderIncompleteKeeps ==
  ASSUME HttpInv, HeaderIncomplete
  PROVE  HttpInv'
<1>0. Typed /\ Sockets /\ Peers /\ Known /\ InChunks /\ InBody /\ Ended
  BY DEF HttpInv
<1>1. /\ result = "wait" /\ sock # 0 /\ finallen = -1 /\ TakeData /\ cursize' = Total /\ ~HeaderSearch.found
      /\ readcount' = HeaderSearch.at
      /\ code' = 0 /\ contentLength' = 0 /\ contentLengthArrived' = FALSE /\ chunkedEncoding' = FALSE
      /\ UNCHANGED <<peer, freed, left, broken>> /\ UNCHANGED <<peer, freed, broken>>
      /\ result' = result /\ finallen' = finallen /\ headerLength' = headerLength
      /\ currentChunkReadOffset' = currentChunkReadOffset /\ decoded' = decoded
      /\ response' = response
  BY DEF HeaderIncomplete, KeepData, Reading, Receiving, GotData, status, peer
<1>2. TakeNothing
  BY <1>1 DEF TakeNothing
<1>3. /\ cursize' = Total /\ Total \in cursize .. arrived /\ Total \in 0 .. Size
      /\ torn => torn'
      /\ ~torn' => Total \in {0, 3, 6} \/ Total >= 8
      /\ Sockets' /\ Peers' /\ Size' = Size
  BY <1>0, <1>1, <1>2, CallTakes
<1>4. cursize \in Nat /\ Size \in Nat /\ arrived \in 0 .. Size
  BY <1>0, AnswerIs
<1>5. Total \in Nat /\ Total >= cursize
  BY <1>3, <1>4
<1>6. /\ HeaderSearch.at \in 0 .. Total
      /\ response.kind # "chunked" /\ ~torn /\ (Total \in {0, 3, 6} \/ Total >= 8) =>
           (HeaderSearch.found <=> Total >= 8) /\ HeaderSearch.at = IF Total >= 8 THEN 8 ELSE Total
  BY <1>0, <1>1, <1>3, <1>5, HeaderSearched
<1> HIDE DEF Total, HeaderSearch
<1>7. Typed'
  <2>1. /\ readcount' \in 0 .. cursize' /\ finallen' \in Int /\ code' \in Nat
        /\ headerLength' \in Nat /\ contentLength' \in Int /\ currentChunkReadOffset' \in Nat
    BY <1>0, <1>1, <1>6 DEF Typed, TypeOK
  <2>2. contentLengthArrived' \in BOOLEAN /\ chunkedEncoding' \in BOOLEAN
    BY <1>1
  <2>3. result' \in {"wait", "done", "fail"}
    BY <1>1
  <2> QED BY <1>0, <1>1, <1>2, <2>1, <2>2, <2>3, CallTyped
<1>8. Known'
  BY <1>0, <1>1, <1>3 DEF Known
<1>9. InChunks'
  <2> SUFFICES ASSUME response.kind = "chunked" PROVE InChunks'
    BY <1>1 DEF InChunks
  <2>1. PICK k \in 0 .. Len(response.chunks) : Taken(k)
    BY <1>0 DEF InChunks
  <2>2. k > 0 => Boundary(response, k) <= cursize'
    <3>1. Boundary(response, k) \in Nat
      BY <1>0, <2>1, AnswerIs, BoundaryTyped
    <3> QED BY <1>1, <1>3, <1>4, <1>5, <2>1, <3>1 DEF Taken
  <2>3. Taken(k)' /\ k \in 0 .. Len(response'.chunks)
    BY <1>1, <2>1, <2>2 DEF Taken
  <2> QED BY <1>1, <2>3 DEF InChunks
<1>10. InBody'
  <2> SUFFICES ASSUME response.kind # "chunked" PROVE InBody'
    BY <1>1 DEF InBody
  <2>1. ~torn' => cursize' \in {0, 3, 6} /\ readcount' = cursize'
    BY <1>1, <1>3, <1>5, <1>6
  <2> QED BY <1>1, <2>1 DEF InBody
<1>11. Ended'
  BY <1>1 DEF Ended, FailureIsReal
<1> QED BY <1>3, <1>7, <1>8, <1>9, <1>10, <1>11 DEF HttpInv

\* An answer is only refused if it is none, or if a line was torn.
LEMMA HeaderCorruptKeeps ==
  ASSUME HttpInv, HeaderCorrupt
  PROVE  HttpInv'
<1>0. Typed /\ Sockets /\ Peers /\ Known /\ InChunks /\ InBody /\ Ended
  BY DEF HttpInv
<1>1. /\ finallen = -1 /\ TakeData /\ cursize' = Total /\ HeaderFound /\ HeaderSearch.found
      /\ IsAnswer => ~HeaderLines.found
      /\ result' = "fail"
      /\ UNCHANGED <<peer, freed, left, broken>> /\ UNCHANGED <<peer, freed, broken>>
      /\ finallen' = finallen /\ code' = code /\ headerLength' = headerLength
      /\ contentLength' = contentLength /\ contentLengthArrived' = contentLengthArrived
      /\ chunkedEncoding' = chunkedEncoding
      /\ currentChunkReadOffset' = currentChunkReadOffset /\ decoded' = decoded
      /\ readcount' = readcount /\ response' = response /\ broken' = broken
  BY DEF HeaderCorrupt, KeepData, HeaderFound, Reading, answer, peer
<1>2. /\ Total \in 1 .. Size /\ Total > cursize /\ result = "wait" /\ sock # 0
      /\ HeaderLines.found <=> Total >= 7
      /\ IsAnswer <=> response.kind # "garbage"
  BY <1>0, <1>1, HeaderRead
<1>3. TakeNothing
  BY <1>1, <1>2 DEF TakeNothing
<1>4. /\ cursize' = Total /\ Total \in cursize .. arrived /\ Total \in 0 .. Size
      /\ torn => torn'
      /\ ~torn' => Total \in {0, 3, 6} \/ Total >= 8
      /\ Sockets' /\ Peers' /\ Size' = Size
  BY <1>0, <1>1, <1>2, <1>3, CallTakes
<1>5. cursize \in Nat /\ Size \in Nat /\ arrived \in 0 .. Size /\ Total \in Nat /\ Total >= cursize
  <2>1. cursize \in Nat /\ Size \in Nat /\ arrived \in 0 .. Size
    BY <1>0, AnswerIs
  <2> HIDE DEF Total
  <2> QED BY <1>2, <2>1
<1>6. response.kind # "chunked" /\ ~torn /\ (Total \in {0, 3, 6} \/ Total >= 8) =>
        (HeaderSearch.found <=> Total >= 8)
  BY <1>0, <1>1, <1>2, <1>4, <1>5, HeaderSearched
<1> HIDE DEF Total, HeaderSearch, HeaderLines
<1>7. Typed'
  <2>1. /\ readcount' \in 0 .. cursize' /\ finallen' \in Int /\ code' \in Nat
        /\ headerLength' \in Nat /\ contentLength' \in Int /\ currentChunkReadOffset' \in Nat
        /\ contentLengthArrived' \in BOOLEAN /\ chunkedEncoding' \in BOOLEAN
    BY <1>0, <1>1, <1>5 DEF Typed, TypeOK
  <2>2. result' \in {"wait", "done", "fail"}
    BY <1>1
  <2> QED BY <1>0, <1>1, <1>2, <1>3, <2>1, <2>2, CallTyped
<1>8. Known'
  <2>1. /\ headerLength \in {0, 7, 8} /\ (headerLength = 7 => torn)
        /\ chunkedEncoding => code = response.code /\ headerLength # 0 /\ headerLength <= cursize
    BY <1>0 DEF Known
  <2>2. chunkedEncoding => headerLength <= cursize'
    BY <1>4, <1>5, <2>1
  <2> QED BY <1>1, <1>4, <2>1, <2>2 DEF Known
<1>9. InChunks'
  <2> SUFFICES ASSUME response.kind = "chunked" PROVE InChunks'
    BY <1>1 DEF InChunks
  <2>1. PICK k \in 0 .. Len(response.chunks) : Taken(k)
    BY <1>0 DEF InChunks
  <2>2. k > 0 => Boundary(response, k) <= cursize'
    <3>1. Boundary(response, k) \in Nat
      BY <1>0, <2>1, AnswerIs, BoundaryTyped
    <3> QED BY <1>2, <1>4, <1>5, <2>1, <3>1 DEF Taken
  <2>3. Taken(k)' /\ k \in 0 .. Len(response'.chunks)
    BY <1>1, <2>1, <2>2 DEF Taken
  <2>4. ~chunkedEncoding
    <3>1. ~(Total >= 7)
      BY <1>1, <1>2
    <3>2. chunkedEncoding => 7 <= cursize
      BY <1>0, <1>5 DEF Known
    <3> QED BY <1>5, <3>1, <3>2
  <2> QED BY <1>1, <2>3, <2>4 DEF InChunks
<1>10. InBody'
  BY <1>0, <1>1 DEF InBody
<1>11. FailureIsReal'
  <2> SUFFICES ASSUME response.kind # "chunked", ~torn' PROVE broken
    BY <1>1 DEF FailureIsReal
  <2>1. Total >= 8
    BY <1>1, <1>4, <1>6
  <2>2. response.kind = "garbage"
    BY <1>1, <1>2, <1>5, <2>1
  <2> QED BY <1>0, <2>2 DEF Peers
<1>12. Ended'
  BY <1>1, <1>11 DEF Ended
<1> QED BY <1>4, <1>7, <1>8, <1>9, <1>10, <1>12 DEF HttpInv

\* A redirect starts again at the next server, with the old connection closed.
LEMMA RedirectKeeps ==
  ASSUME HttpInv, Redirect
  PROVE  HttpInv'
<1>0. Typed /\ Sockets /\ Peers /\ Known /\ InChunks /\ InBody /\ Ended
  BY DEF HttpInv
<1>1. /\ HeaderFound /\ Redirected
      /\ finallen' = -1 /\ code' = 0 /\ headerLength' = 0 /\ contentLength' = 0
      /\ contentLengthArrived' = FALSE /\ chunkedEncoding' = FALSE
      /\ currentChunkReadOffset' = 0 /\ decoded' = << >>
      /\ cursize' = 0 /\ readcount' = 0 /\ maxsize' = BufferSize /\ freed' = freed
      /\ sock' = hop + 1 /\ open' = (open \ {sock}) \cup {hop + 1} /\ hop' = hop + 1
      /\ response' \in Answers(hop + 1) /\ arrived' = 0 /\ peerOpen' = TRUE
      /\ left' = Request /\ broken' = (broken \/ response'.kind = "garbage")
      /\ torn' = torn /\ result' = result
  BY DEF Redirect, Reset
<1>2. result = "wait" /\ response.kind = "redirect"
  BY <1>0, <1>1, HeaderRead
<1>3. BufferSize \in Nat \ {0}
  BY <1>0, <1>2, CallReads
<1>4. /\ response \in Responses /\ response \in Answers(hop) /\ hop \in 1 .. MaxHops /\ MaxHops \in Nat
      /\ open \subseteq 1 .. MaxHops /\ torn \in BOOLEAN /\ broken \in BOOLEAN /\ freed \in BOOLEAN
  BY <1>0, HttpAssumption DEF Typed, TypeOK
<1>5. hop + 1 \in 1 .. MaxHops /\ hop + 1 \in 0 .. MaxHops /\ hop + 1 # 0
  <2>1. hop < MaxHops
    BY <1>2, <1>4 DEF Answers
  <2> QED BY <1>4, <2>1
<1>6. response' \in Responses /\ Len(Wire[response']) \in Nat /\ Len(Wire[response']) >= 0
  <2>1. response' \in Responses
    BY <1>1 DEF Answers
  <2> QED BY <2>1, WireIs
<1>7. broken' \in BOOLEAN
  BY <1>1, <1>4
<1>8. Typed'
  <2>1. /\ result' \in {"wait", "done", "fail"} /\ left' \in 0 .. Request
        /\ sock' \in 0 .. MaxHops /\ hop' \in 1 .. MaxHops /\ open' \subseteq 1 .. MaxHops
    <3>1. left' \in 0 .. Request /\ sock' \in 0 .. MaxHops /\ hop' \in 1 .. MaxHops
      BY <1>1, <1>5 DEF Request
    <3>2. open' \subseteq 1 .. MaxHops
      BY <1>1, <1>4, <1>5
    <3>3. result' \in {"wait", "done", "fail"}
      BY <1>1, <1>2
    <3> QED BY <3>1, <3>2, <3>3
  <2>2. /\ cursize' \in 0 .. arrived' /\ maxsize' \in Nat /\ maxsize' # 0 /\ readcount' \in 0 .. cursize'
        /\ cursize' <= maxsize'
    <3> HIDE DEF BufferSize
    <3> QED BY <1>1, <1>3
  <2>3. /\ finallen' \in Int /\ code' \in Nat /\ headerLength' \in Nat /\ contentLength' \in Int
        /\ currentChunkReadOffset' \in Nat
    BY <1>1
  <2>4. /\ contentLengthArrived' \in BOOLEAN /\ chunkedEncoding' \in BOOLEAN /\ freed' \in BOOLEAN
        /\ peerOpen' \in BOOLEAN /\ torn' \in BOOLEAN
    BY <1>1, <1>4
  <2>5. arrived' \in 0 .. Len(Wire[response']) /\ response' \in Answers(hop')
    BY <1>1, <1>6
  <2> QED BY <1>6, <1>7, <2>1, <2>2, <2>3, <2>4, <2>5 DEF Typed, TypeOK
<1>9. Sockets'
  BY <1>0, <1>1, <1>2 DEF Sockets
<1>10. Peers'
  <2>1. peerOpen' /\ (response'.kind = "garbage" => broken') /\ sock' # 0
    BY <1>1, <1>5
  <2> QED BY <2>1 DEF Peers
<1>11. Known'
  BY <1>1 DEF Known
<1>12. InChunks'
  <2>1. Encoded(response', 0) = << >> /\ Decoded(response', 0) = << >> /\ Len(<< >>) = 0
    BY <1>6, EncodedSteps, DecodedSteps
  <2>2. Taken(0)'
    BY <1>1, <2>1 DEF Taken
  <2>3. 0 \in 0 .. Len(response'.chunks)
    BY <1>6, ChunksOf
  <2> QED BY <1>1, <2>2, <2>3 DEF InChunks
<1>13. InBody'
  BY <1>1 DEF InBody
<1>14. Ended'
  BY <1>1, <1>2 DEF Ended, FailureIsReal
<1> QED BY <1>8, <1>9, <1>10, <1>11, <1>12, <1>13, <1>14 DEF HttpInv

\* A redirect to where no connection can be made.
LEMMA RedirectFailsKeeps ==
  ASSUME HttpInv, RedirectFails
  PROVE  HttpInv'
<1>0. Typed /\ Sockets /\ Peers /\ Known /\ InChunks /\ InBody /\ Ended
  BY DEF HttpInv
<1>1. /\ HeaderFound /\ Redirected
      /\ finallen' = -1 /\ code' = 0 /\ headerLength' = 0 /\ contentLength' = 0
      /\ contentLengthArrived' = FALSE /\ chunkedEncoding' = FALSE
      /\ currentChunkReadOffset' = 0 /\ decoded' = << >>
      /\ cursize' = 0 /\ readcount' = 0 /\ maxsize' = BufferSize /\ freed' = freed
      /\ sock' = 0 /\ open' = open \ {sock} /\ result' = "fail" /\ broken' = TRUE
      /\ torn' = torn /\ left' = left
      /\ hop' = hop /\ response' = response /\ arrived' = arrived /\ peerOpen' = peerOpen
  BY DEF RedirectFails, Reset, peer
<1>2. result = "wait" /\ response.kind = "redirect"
  BY <1>0, <1>1, HeaderRead
<1>3. BufferSize \in Nat \ {0}
  BY <1>0, <1>2, CallReads
<1>4. /\ response \in Responses /\ response \in Answers(hop) /\ hop \in 1 .. MaxHops /\ MaxHops \in Nat
      /\ open \subseteq 1 .. MaxHops /\ torn \in BOOLEAN /\ freed \in BOOLEAN /\ peerOpen \in BOOLEAN
      /\ arrived \in 0 .. Len(Wire[response]) /\ left \in 0 .. Request /\ arrived >= 0
  BY <1>0, HttpAssumption DEF Typed, TypeOK
<1>5. Typed'
  <2>1. /\ result' \in {"wait", "done", "fail"} /\ left' \in 0 .. Request
        /\ sock' \in 0 .. MaxHops /\ hop' \in 1 .. MaxHops /\ open' \subseteq 1 .. MaxHops
    <3>1. left' \in 0 .. Request /\ sock' \in 0 .. MaxHops /\ hop' \in 1 .. MaxHops
      BY <1>1, <1>4
    <3>2. open' \subseteq 1 .. MaxHops
      BY <1>1, <1>4
    <3>3. result' \in {"wait", "done", "fail"}
      BY <1>1
    <3> QED BY <3>1, <3>2, <3>3
  <2>2. /\ cursize' \in 0 .. arrived' /\ maxsize' \in Nat /\ maxsize' # 0 /\ readcount' \in 0 .. cursize'
        /\ cursize' <= maxsize'
    <3> HIDE DEF BufferSize
    <3> QED BY <1>0, <1>1, <1>3, AnswerIs
  <2>3. /\ finallen' \in Int /\ code' \in Nat /\ headerLength' \in Nat /\ contentLength' \in Int
        /\ currentChunkReadOffset' \in Nat
    BY <1>1
  <2>4. /\ contentLengthArrived' \in BOOLEAN /\ chunkedEncoding' \in BOOLEAN /\ freed' \in BOOLEAN
        /\ peerOpen' \in BOOLEAN /\ torn' \in BOOLEAN /\ broken' \in BOOLEAN
    BY <1>1, <1>4
  <2>5. arrived' \in 0 .. Len(Wire[response']) /\ response' \in Answers(hop') /\ response' \in Responses
    BY <1>1, <1>4
  <2> QED BY <2>1, <2>2, <2>3, <2>4, <2>5 DEF Typed, TypeOK
<1>6. Sockets'
  BY <1>0, <1>1, <1>2 DEF Sockets
<1>7. Peers'
  BY <1>1 DEF Peers
<1>8. Known'
  BY <1>1 DEF Known
<1>9. InChunks' /\ InBody'
  BY <1>1, <1>2 DEF InChunks, InBody
<1>10. Ended'
  BY <1>1 DEF Ended, FailureIsReal
<1> QED BY <1>5, <1>6, <1>7, <1>8, <1>9, <1>10 DEF HttpInv

\* What a header that is found whole says of the body.
LEMMA HeaderDoneIs ==
  ASSUME Typed, Known, Peers, HeaderDone
  PROVE  /\ Total \in 7 .. Size /\ Total > cursize /\ cursize \in Nat
         /\ result = "wait" /\ sock # 0 /\ finallen = -1 /\ TakeData /\ TakeNothing
         /\ code' = response.code /\ code' \in Nat
         /\ headerLength' = IF Total >= 8 THEN 8 ELSE 7
         /\ response.kind \in {"length", "chunked", "plain"}
         /\ contentLengthArrived' \in BOOLEAN /\ (contentLengthArrived' <=> response.kind = "length")
         /\ chunkedEncoding' \in BOOLEAN /\ (chunkedEncoding' <=> response.kind = "chunked")
         /\ response.kind = "length" =>
              (CHOOSE f \in Fields : f[1] = "length")[2] = Len(Body(response))
         /\ UNCHANGED <<peer, freed, left, broken>> /\ UNCHANGED <<peer, freed, broken>>
         /\ response' = response
<1>1. /\ HeaderFound /\ IsAnswer /\ ~Redirected /\ HeaderLines.found /\ TakeData /\ finallen = -1
      /\ code' = Data[1][2] /\ headerLength' = HeaderLines.at
      /\ contentLengthArrived' = (\E f \in Fields : f[1] = "length")
      /\ chunkedEncoding' = (\E f \in Fields : f[1] = "chunked")
      /\ UNCHANGED <<peer, freed, left, broken>> /\ UNCHANGED <<peer, freed, broken>>
      /\ response' = response
  BY DEF HeaderDone, HeaderFound, Reading, peer
<1>2. /\ Total \in 1 .. Size /\ Total > cursize /\ result = "wait" /\ sock # 0
      /\ HeaderLines.found <=> Total >= 7
      /\ HeaderLines.at = IF Total >= 8 THEN 8 ELSE Total
      /\ IsAnswer <=> response.kind # "garbage"
      /\ IsAnswer => Data[1][2] = response.code
      /\ HeaderLines.found /\ response.kind = "redirect" => Redirected
      /\ HeaderLines.found => ((\E f \in Fields : f[1] = "length") <=> response.kind = "length")
      /\ HeaderLines.found => ((\E f \in Fields : f[1] = "chunked") <=> response.kind = "chunked")
      /\ HeaderLines.found /\ response.kind = "length" =>
           (CHOOSE f \in Fields : f[1] = "length")[2] = Len(Body(response))
  BY <1>1, HeaderRead
<1>3. /\ response \in Responses /\ Size \in Nat /\ cursize \in Nat
      /\ response.kind \in {"length", "chunked", "plain", "redirect", "garbage"} /\ response.code \in Nat
  BY AnswerIs, HttpAssumption
<1>4. response.kind \in {"length", "chunked", "plain"}
  BY <1>1, <1>2, <1>3
<1>5. TakeNothing
  BY <1>1, <1>2 DEF TakeNothing
<1> HIDE DEF Total, HeaderLines, Fields
<1>6. Total \in 7 .. Size /\ headerLength' = IF Total >= 8 THEN 8 ELSE 7
  BY <1>1, <1>2, <1>3
<1>7. contentLengthArrived' \in BOOLEAN /\ (contentLengthArrived' <=> response.kind = "length")
  BY <1>1, <1>2
<1>8. chunkedEncoding' \in BOOLEAN /\ (chunkedEncoding' <=> response.kind = "chunked")
  BY <1>1, <1>2
<1>9. code' = response.code /\ code' \in Nat
  BY <1>1, <1>2, <1>3
<1> QED BY <1>1, <1>2, <1>3, <1>4, <1>5, <1>6, <1>7, <1>8, <1>9

\* The body is delimited by its length, and a call that has it all ends.
LEMMA HeaderThenLengthKeeps ==
  ASSUME HttpInv, HeaderThenLength
  PROVE  HttpInv'
<1>0. Typed /\ Sockets /\ Peers /\ Known /\ InChunks /\ InBody /\ Ended
  BY DEF HttpInv
<1>1. /\ HeaderDone /\ cursize' = Total /\ contentLengthArrived'
      /\ contentLength' = (CHOOSE f \in Fields : f[1] = "length")[2]
      /\ finallen' = IF headerLength' + contentLength' > MaxFinal THEN headerLength'
                     ELSE headerLength' + contentLength'
      /\ result' = IF Total < finallen' THEN "wait" ELSE "done"
      /\ readcount' = headerLength'
      /\ currentChunkReadOffset' = currentChunkReadOffset /\ decoded' = decoded
  BY DEF HeaderThenLength, KeepData
<1>2. /\ Total \in 7 .. Size /\ Total > cursize /\ cursize \in Nat
      /\ result = "wait" /\ sock # 0 /\ TakeData /\ TakeNothing
      /\ code' = response.code /\ code' \in Nat
      /\ headerLength' = IF Total >= 8 THEN 8 ELSE 7
      /\ contentLengthArrived' \in BOOLEAN /\ response.kind = "length"
      /\ chunkedEncoding' \in BOOLEAN /\ ~chunkedEncoding'
      /\ UNCHANGED <<peer, freed, left, broken>> /\ UNCHANGED <<peer, freed, broken>>
      /\ response' = response
  BY <1>0, <1>1, HeaderDoneIs
<1>3. contentLength' = Len(Body(response))
  BY <1>0, <1>1, <1>2, HeaderDoneIs
<1>4. /\ cursize' = Total
      /\ ~torn' => Total \in {0, 3, 6} \/ Total >= 8
      /\ Sockets' /\ Peers' /\ Size' = Size
  BY <1>0, <1>1, <1>2, CallTakes
<1>5. Size = 8 + Len(Body(response)) /\ Len(Body(response)) \in Nat /\ Size \in Nat
  <2>1. response \in Responses
    BY <1>0, AnswerIs
  <2>2. Body(response) \in Seq(Symbol)
    BY <2>1, HeaderIs
  <2>3. Len(Body(response)) \in Nat
    BY <2>2
  <2> QED BY <1>2, <2>1, <2>3, WireOfBody DEF Size
<1>6. Total \in Nat /\ headerLength' \in {7, 8} /\ headerLength' <= Total /\ contentLength' \in Nat
  BY <1>2, <1>3, <1>5
<1>7. MaxFinal \in Nat
  BY HttpAssumption
<1> HIDE DEF Total
<1>8. finallen' \in Nat /\ finallen' > 0 /\ result' \in {"wait", "done"} /\ (result' = "wait" <=> Total < finallen')
  BY <1>1, <1>6, <1>7
<1>9. Typed'
  <2>1. /\ finallen' \in Int /\ headerLength' \in Nat /\ contentLength' \in Int
        /\ readcount' \in 0 .. cursize'
    BY <1>1, <1>6, <1>8
  <2>2. currentChunkReadOffset' \in Nat
    BY <1>0, <1>1 DEF Typed, TypeOK
  <2>3. result' \in {"wait", "done", "fail"}
    BY <1>8
  <2> QED BY <1>0, <1>1, <1>2, <2>1, <2>2, <2>3, CallTyped
<1>10. Known'
  <2>1. /\ finallen' > 0 /\ (result' = "wait" => cursize' < finallen')
        /\ code' = response'.code /\ headerLength' # 0 /\ headerLength' <= cursize'
        /\ headerLength' \in {0, 7, 8}
    BY <1>2, <1>4, <1>6, <1>8
  <2>2. headerLength' = 7 => torn'
    BY <1>2, <1>4, <1>6
  <2> QED BY <2>1, <2>2 DEF Known
<1>11. InChunks'
  BY <1>2 DEF InChunks
<1>12. InBody'
  <2>1. finallen' # -1
    BY <1>8
  <2>2. ASSUME ~torn' PROVE Lengths'
    <3>1. Total >= 8
      BY <1>2, <1>4, <1>6, <2>2
    <3>2. headerLength' = 8 /\ contentLength' = Size - 8
      BY <1>2, <1>3, <1>5, <1>6, <3>1
    <3>3. finallen' = Size \/ (Size > MaxFinal /\ finallen' = 8)
      BY <1>1, <1>5, <1>7, <3>2
    <3> QED BY <1>2, <1>4, <3>2, <3>3 DEF Lengths
  <2> QED BY <1>2, <2>1, <2>2 DEF InBody
<1>13. Ended'
  <2>1. result' = "done" => finallen' <= cursize'
    BY <1>4, <1>6, <1>8
  <2>2. finallen' # -1 /\ result' # "fail"
    BY <1>8
  <2> QED BY <1>2, <2>1, <2>2 DEF Ended, FailureIsReal
<1> QED BY <1>4, <1>9, <1>10, <1>11, <1>12, <1>13 DEF HttpInv

\* The body is chunked, and the chunks that came with the header are taken.
LEMMA HeaderThenChunksKeeps ==
  ASSUME HttpInv, HeaderThenChunks
  PROVE  HttpInv'
<1>0. Typed /\ Sockets /\ Peers /\ Known /\ InChunks /\ InBody /\ Ended
  BY DEF HttpInv
<1>1. HeaderDone /\ chunkedEncoding' /\ TakeChunks(headerLength', FALSE)
  BY DEF HeaderThenChunks
<1>2. /\ Total \in 7 .. Size /\ Total > cursize /\ cursize \in Nat
      /\ result = "wait" /\ sock # 0 /\ finallen = -1 /\ TakeNothing
      /\ code' = response.code /\ code' \in Nat
      /\ headerLength' = IF Total >= 8 THEN 8 ELSE 7
      /\ contentLengthArrived' \in BOOLEAN /\ chunkedEncoding' \in BOOLEAN
      /\ response.kind = "chunked"
      /\ UNCHANGED <<peer, freed, left, broken>> /\ UNCHANGED <<peer, freed, broken>>
      /\ response' = response
  BY <1>0, <1>1, HeaderDoneIs
<1>4. Size \in Nat
  BY <1>0, AnswerIs
<1> HIDE DEF Total
<1>5. Total \in Nat /\ headerLength' \in {7, 8} /\ headerLength' <= Total /\ Total >= cursize
      /\ (headerLength' = 7 => Total = 7)
  BY <1>2, <1>4
<1>6. /\ result' \in {"wait", "done", "fail"} /\ readcount' \in 0 .. cursize' /\ contentLength' \in Int
      /\ currentChunkReadOffset' \in Nat
      /\ cursize' \in headerLength' .. Total
      /\ result' # "done" => cursize' = Total /\ finallen' = finallen
      /\ result' = "done" => cursize' = headerLength' + contentLength' /\ finallen' = cursize'
      /\ \E k \in 0 .. Len(response.chunks) :
           /\ currentChunkReadOffset' = Len(Encoded(response, k))
           /\ decoded' = Decoded(response, k) /\ (k > 0 => Boundary(response, k) <= Total)
      /\ result' = "done" => decoded' = Body(response) /\ contentLength' = Len(Body(response))
  BY <1>0, <1>1, <1>2, <1>5, ChunksTaken
<1>12. cursize' = Total \/ (result' # "wait" /\ cursize' \in 0 .. Total)
  BY <1>5, <1>6
<1>3. /\ ~torn' => Total \in {0, 3, 6} \/ Total >= 8
      /\ Sockets' /\ Peers'
  BY <1>0, <1>2, <1>12, CallTakes
<1>13. /\ cursize' \in Nat /\ cursize' >= 7 /\ finallen' \in Int
       /\ finallen' = -1 \/ (finallen' > 0 /\ result' # "wait")
  <2>1. cursize' \in Nat /\ cursize' >= 7
    BY <1>5, <1>6
  <2>2. result' # "done" => finallen' = -1
    BY <1>2, <1>6
  <2>3. result' = "done" => finallen' = cursize'
    BY <1>6
  <2> QED BY <2>1, <2>2, <2>3
<1>7. Typed'
  <2>1. headerLength' \in Nat
    BY <1>5
  <2> QED BY <1>0, <1>2, <1>6, <1>12, <1>13, <2>1, CallTyped
<1>8. Known'
  <2>1. headerLength' = 7 => torn'
    BY <1>3, <1>5
  <2>2. code' = response'.code /\ headerLength' # 0 /\ headerLength' <= cursize' /\ headerLength' \in {0, 7, 8}
    BY <1>2, <1>5, <1>6
  <2> QED BY <1>13, <2>1, <2>2 DEF Known
<1>9. InChunks'
  <2>1. \E k \in 0 .. Len(response'.chunks) : Taken(k)'
    BY <1>2, <1>6 DEF Taken
  <2>2. result' # "done" => finallen' = -1 /\ (headerLength' = 7 => cursize' = 7)
    BY <1>2, <1>5, <1>6
  <2> QED BY <2>1, <2>2 DEF InChunks
<1>10. InBody'
  BY <1>2 DEF InBody
<1>11. Ended'
  <2>1. FailureIsReal'
    BY <1>2 DEF FailureIsReal
  <2>2. chunkedEncoding' /\ Body(response') = Body(response)
    BY <1>1, <1>2
  <2>3. result' = "done" =>
          finallen' # -1 /\ finallen' <= cursize' /\ headerLength' + contentLength' <= cursize'
    BY <1>6, <1>13
  <2> QED BY <1>6, <2>1, <2>2, <2>3 DEF Ended
<1> QED BY <1>3, <1>7, <1>8, <1>9, <1>10, <1>11 DEF HttpInv

\* Neither: what has come is taken for all of it.
LEMMA HeaderThenAllKeeps ==
  ASSUME HttpInv, HeaderThenAll
  PROVE  HttpInv'
<1>0. Typed /\ Sockets /\ Peers /\ Known /\ InChunks /\ InBody /\ Ended
  BY DEF HttpInv
<1>1. /\ HeaderDone /\ cursize' = Total /\ ~contentLengthArrived' /\ ~chunkedEncoding'
      /\ finallen' = Total /\ contentLength' = Total - headerLength' /\ result' = "done"
      /\ readcount' = headerLength'
      /\ currentChunkReadOffset' = currentChunkReadOffset /\ decoded' = decoded
  BY DEF HeaderThenAll, KeepData
<1>2. /\ Total \in 7 .. Size /\ Total > cursize /\ cursize \in Nat
      /\ result = "wait" /\ sock # 0 /\ TakeNothing
      /\ code' = response.code /\ code' \in Nat
      /\ headerLength' = IF Total >= 8 THEN 8 ELSE 7
      /\ contentLengthArrived' \in BOOLEAN /\ chunkedEncoding' \in BOOLEAN
      /\ response.kind = "plain"
      /\ UNCHANGED <<peer, freed, left, broken>> /\ UNCHANGED <<peer, freed, broken>>
      /\ response' = response
  BY <1>0, <1>1, HeaderDoneIs
<1>3. /\ cursize' = Total
      /\ ~torn' => Total \in {0, 3, 6} \/ Total >= 8
      /\ Sockets' /\ Peers'
  BY <1>0, <1>1, <1>2, CallTakes
<1>4. Size \in Nat
  BY <1>0, AnswerIs
<1> HIDE DEF Total
<1>5. Total \in Nat /\ headerLength' \in {7, 8} /\ headerLength' <= Total /\ (headerLength' = 7 => Total = 7)
      /\ Total > 0
  BY <1>2, <1>4
<1>6. Typed'
  <2>1. finallen' \in Int /\ headerLength' \in Nat /\ contentLength' \in Int /\ readcount' \in 0 .. cursize'
    BY <1>1, <1>5
  <2>2. currentChunkReadOffset' \in Nat
    BY <1>0, <1>1 DEF Typed, TypeOK
  <2>3. result' \in {"wait", "done", "fail"}
    BY <1>1
  <2> QED BY <1>0, <1>1, <1>2, <2>1, <2>2, <2>3, CallTyped
<1>7. Known'
  <2>1. headerLength' = 7 => torn'
    BY <1>2, <1>3, <1>5
  <2>2. finallen' > 0 /\ result' # "wait"
    BY <1>1, <1>5
  <2>3. code' = response'.code /\ headerLength' # 0 /\ headerLength' <= cursize' /\ headerLength' \in {0, 7, 8}
    BY <1>2, <1>3, <1>5
  <2> QED BY <2>1, <2>2, <2>3 DEF Known
<1>8. InChunks'
  BY <1>2 DEF InChunks
<1>9. InBody'
  <2>1. ASSUME ~torn' PROVE Lengths'
    <3>1. headerLength' = 8
      BY <1>2, <1>3, <1>5, <2>1
    <3> QED BY <1>1, <1>2, <1>3, <3>1 DEF Lengths
  <2> QED BY <1>1, <2>1 DEF InBody
<1>10. Ended'
  <2>1. finallen' # -1 /\ finallen' <= cursize'
    BY <1>1, <1>3, <1>5
  <2> QED BY <1>1, <1>2, <2>1 DEF Ended, FailureIsReal
<1> QED BY <1>3, <1>6, <1>7, <1>8, <1>9, <1>10 DEF HttpInv
----------------------------------------------------------------------------
(* The other steps.                                                        *)

\* Some steps leave what a call works on as it is.
LEMMA OthersKeep ==
  ASSUME HttpInv, SendRequest \/ SendFails \/ FreeRequest \/ Deliver \/ PeerCloses \/ UNCHANGED vars
  PROVE  HttpInv'
<1>0. Typed /\ Sockets /\ Peers /\ Known /\ InChunks /\ InBody /\ Ended
  BY DEF HttpInv
<1>1. /\ UNCHANGED buffer /\ UNCHANGED answer /\ hop' = hop /\ response' = response /\ torn' = torn
      /\ Size' = Size
  BY DEF SendRequest, SendFails, FreeRequest, Deliver, PeerCloses, vars, status, peer, history, Size
<1>2. /\ cursize' = cursize /\ maxsize' = maxsize /\ readcount' = readcount
      /\ finallen' = finallen /\ code' = code /\ headerLength' = headerLength
      /\ contentLength' = contentLength /\ contentLengthArrived' = contentLengthArrived
      /\ chunkedEncoding' = chunkedEncoding
      /\ currentChunkReadOffset' = currentChunkReadOffset /\ decoded' = decoded
  BY <1>1 DEF buffer, answer
<1>3. InChunks'
  <2>1. result' = "done" <=> result = "done"
    BY DEF SendRequest, SendFails, FreeRequest, Deliver, PeerCloses, vars, status
  <2>2. ASSUME NEW k, Taken(k) PROVE Taken(k)'
    BY <1>1, <1>2, <2>1, <2>2 DEF Taken
  <2> QED BY <1>0, <1>1, <1>2, <2>1, <2>2 DEF InChunks
<1>4. /\ cursize \in 0 .. arrived /\ cursize \in Nat /\ cursize <= maxsize /\ maxsize \in Nat
      /\ arrived \in 0 .. Size /\ Size \in Nat /\ left \in 0 .. Request
      /\ sock \in 0 .. MaxHops /\ open \subseteq 1 .. MaxHops
  BY <1>0, AnswerIs DEF Typed, TypeOK
<1> DEFINE TypedNew == /\ result' \in {"wait", "done", "fail"} /\ left' \in 0 .. Request
                       /\ sock' \in 0 .. MaxHops /\ open' \subseteq 1 .. MaxHops
                       /\ freed' \in BOOLEAN /\ peerOpen' \in BOOLEAN /\ broken' \in BOOLEAN
                       /\ arrived' \in cursize .. Size
<1>5. TypedNew => Typed'
  <2> SUFFICES ASSUME TypedNew PROVE Typed'
    OBVIOUS
  <2>1. cursize' \in 0 .. arrived' /\ arrived' \in 0 .. Len(Wire[response'])
    BY <1>1, <1>2, <1>4 DEF Size
  <2>2. TypeOK'
    BY <1>0, <1>1, <1>2, <2>1 DEF Typed, TypeOK
  <2> QED BY <1>0, <1>1, <1>2, <2>2 DEF Typed
<1>6. arrived \in cursize .. Size /\ result \in {"wait", "done", "fail"}
      /\ freed \in BOOLEAN /\ peerOpen \in BOOLEAN /\ broken \in BOOLEAN
  BY <1>0, <1>4 DEF Typed, TypeOK
<1>7. (result' = result \/ result' = "fail") => Known' /\ InBody'
  <2> SUFFICES ASSUME result' = result \/ result' = "fail" PROVE Known' /\ InBody'
    OBVIOUS
  <2>1. Known'
    BY <1>0, <1>1, <1>2 DEF Known
  <2>2. Lengths => Lengths'
    BY <1>1, <1>2 DEF Lengths
  <2>3. InBody'
    BY <1>0, <1>1, <1>2, <2>2 DEF InBody
  <2> QED BY <2>1, <2>3
<1>8. (result' = result /\ (broken => broken')) => Ended'
  BY <1>0, <1>1, <1>2 DEF Ended, FailureIsReal
<1>9. CASE SendRequest
  <2>1. /\ result = "wait" /\ left' \in 0 .. left - 1 /\ result' = result /\ freed' = freed
        /\ arrived' = arrived /\ peerOpen' = peerOpen /\ sock' = sock /\ open' = open /\ broken' = broken
    BY <1>9 DEF SendRequest, status, peer, sockets, history
  <2>2. TypedNew
    <3>1. left' \in 0 .. Request
      BY <1>4, <2>1 DEF Request
    <3> QED BY <1>4, <1>6, <2>1, <3>1
  <2>3. Sockets' /\ Peers'
    BY <1>0, <1>1, <1>2, <2>1 DEF Sockets, Peers
  <2> QED BY <1>3, <1>5, <1>7, <1>8, <2>1, <2>2, <2>3 DEF HttpInv
<1>10. CASE SendFails
  <2>1. /\ result = "wait" /\ open' = open \ {sock} /\ result' = "fail" /\ broken' = TRUE
        /\ freed' = freed /\ left' = left /\ arrived' = arrived /\ peerOpen' = peerOpen /\ sock' = sock
    BY <1>10 DEF SendFails, peer
  <2>2. TypedNew
    BY <1>4, <1>6, <2>1
  <2>3. Sockets' /\ Peers'
    BY <1>0, <2>1 DEF Sockets, Peers
  <2>4. Ended'
    BY <2>1 DEF Ended, FailureIsReal
  <2> QED BY <1>3, <1>5, <1>7, <2>1, <2>2, <2>3, <2>4 DEF HttpInv
<1>11. CASE FreeRequest
  <2>1. /\ result # "wait" /\ freed' = TRUE /\ result' = result /\ left' = left
        /\ arrived' = arrived /\ peerOpen' = peerOpen /\ broken' = broken
        /\ (sock = 0 /\ sock' = sock /\ open' = open) \/ (sock' = 0 /\ open' = open \ {sock})
    BY <1>11 DEF FreeRequest, peer, sockets, history
  <2>2. open \subseteq {sock}
    BY <1>0 DEF Sockets
  <2>3. open' = {} /\ sock' \in 0 .. MaxHops
    <3>1. sock = 0 => open = {}
      BY <1>4, <2>2
    <3>2. sock' = sock \/ sock' = 0
      BY <2>1
    <3>3. 0 \in 0 .. MaxHops
      BY HttpAssumption
    <3>4. open' = {}
      BY <2>1, <2>2, <3>1
    <3> QED BY <1>4, <3>2, <3>3, <3>4
  <2>4. TypedNew
    BY <1>4, <1>6, <2>1, <2>3
  <2>5. Sockets' /\ Peers'
    BY <1>0, <1>1, <2>1, <2>3 DEF Sockets, Peers
  <2> QED BY <1>3, <1>5, <1>7, <1>8, <2>1, <2>4, <2>5 DEF HttpInv
<1>12. CASE Deliver
  <2>1. /\ result = "wait" /\ peerOpen /\ arrived' \in arrived + 1 .. Size
        /\ result' = result /\ freed' = freed /\ left' = left /\ peerOpen' = peerOpen
        /\ sock' = sock /\ open' = open /\ broken' = broken
    BY <1>12 DEF Deliver, status, sockets, history, Size
  <2>2. TypedNew
    BY <1>4, <1>6, <2>1
  <2>3. Sockets' /\ Peers'
    BY <1>0, <1>1, <1>2, <2>1 DEF Sockets, Peers
  <2> QED BY <1>3, <1>5, <1>7, <1>8, <2>1, <2>2, <2>3 DEF HttpInv
<1>13. CASE PeerCloses
  <2>1. /\ result = "wait" /\ peerOpen /\ peerOpen' = FALSE
        /\ broken' = (broken \/ arrived < Size)
        /\ result' = result /\ freed' = freed /\ left' = left /\ arrived' = arrived
        /\ sock' = sock /\ open' = open
    BY <1>13 DEF PeerCloses, status, sockets, Size
  <2>2. broken' \in BOOLEAN /\ (broken => broken')
    BY <1>6, <2>1
  <2>3. TypedNew
    BY <1>4, <1>6, <2>1, <2>2
  <2>4. Sockets' /\ Peers'
    BY <1>0, <1>1, <1>2, <2>1 DEF Sockets, Peers
  <2> QED BY <1>3, <1>5, <1>7, <1>8, <2>1, <2>2, <2>3, <2>4 DEF HttpInv
<1>14. CASE UNCHANGED vars
  <2>1. /\ result' = result /\ freed' = freed /\ left' = left /\ arrived' = arrived /\ peerOpen' = peerOpen
        /\ sock' = sock /\ open' = open /\ broken' = broken
    BY <1>14 DEF vars, status, peer, sockets, history
  <2>2. TypedNew
    BY <1>4, <1>6, <2>1
  <2>3. Sockets' /\ Peers'
    BY <1>0, <1>1, <1>2, <2>1 DEF Sockets, Peers
  <2> QED BY <1>3, <1>5, <1>7, <1>8, <2>1, <2>2, <2>3 DEF HttpInv
<1> QED BY <1>9, <1>10, <1>11, <1>12, <1>13, <1>14

\* A request begins with its own connection and nothing received.
LEMMA HttpBegins ==
  ASSUME Init
  PROVE  HttpInv
<1>1. /\ result = "wait" /\ freed = FALSE /\ left = Request
      /\ sock = 1 /\ open = {1} /\ maxsize = InitialBuffer
      /\ finallen = -1 /\ code = 0 /\ headerLength = 0 /\ contentLength = 0
      /\ contentLengthArrived = FALSE /\ chunkedEncoding = FALSE
      /\ currentChunkReadOffset = 0 /\ decoded = << >>
      /\ cursize = 0 /\ readcount = 0
      /\ hop = 1 /\ response \in Answers(1) /\ arrived = 0 /\ peerOpen = TRUE
      /\ broken = (response.kind = "garbage") /\ torn = FALSE
  BY DEF Init, Fresh
<1>2. /\ response \in Responses /\ MaxHops \in Nat \ {0} /\ InitialBuffer \in Nat \ {0}
      /\ Len(Wire[response]) \in Nat
  BY <1>1, HttpAssumption, WireIs DEF Answers
<1>3. Typed
  <2>1. broken \in BOOLEAN
    BY <1>1
  <2>2. 1 \in 1 .. MaxHops /\ 1 \in 0 .. MaxHops /\ left \in 0 .. Request /\ arrived \in 0 .. Len(Wire[response])
    BY <1>1, <1>2 DEF Request
  <2>3. /\ result \in {"wait", "done", "fail"} /\ sock \in 0 .. MaxHops /\ hop \in 1 .. MaxHops
        /\ open \subseteq 1 .. MaxHops /\ cursize \in 0 .. arrived /\ maxsize \in Nat /\ maxsize # 0
        /\ readcount \in 0 .. cursize /\ cursize <= maxsize
    BY <1>1, <1>2, <2>2
  <2>4. /\ finallen \in Int /\ code \in Nat /\ headerLength \in Nat /\ contentLength \in Int
        /\ currentChunkReadOffset \in Nat
    BY <1>1
  <2>5. /\ freed \in BOOLEAN /\ contentLengthArrived \in BOOLEAN /\ chunkedEncoding \in BOOLEAN
        /\ peerOpen \in BOOLEAN /\ torn \in BOOLEAN
    BY <1>1
  <2>6. response \in Answers(hop)
    BY <1>1
  <2> QED BY <1>2, <2>1, <2>2, <2>3, <2>4, <2>5, <2>6 DEF Typed, TypeOK
<1>4. Sockets /\ Peers
  <2>1. open \subseteq {sock} /\ ~freed /\ peerOpen /\ sock # 0
    BY <1>1
  <2>2. response.kind = "garbage" => broken
    BY <1>1
  <2> QED BY <2>1, <2>2 DEF Sockets, Peers
<1>5. Known /\ InBody /\ Ended
  <2>1. finallen = -1 /\ headerLength = 0 /\ ~chunkedEncoding /\ cursize = 0 /\ readcount = 0
        /\ result = "wait"
    BY <1>1
  <2> QED BY <2>1 DEF Known, InBody, Ended, FailureIsReal
<1>6. InChunks
  <2>1. Encoded(response, 0) = << >> /\ Decoded(response, 0) = << >> /\ Len(<< >>) = 0
    BY <1>2, EncodedSteps, DecodedSteps
  <2>2. Taken(0)
    BY <1>1, <2>1 DEF Taken
  <2>3. 0 \in 0 .. Len(response.chunks)
    BY <1>2, ChunksOf
  <2> QED BY <1>1, <2>2, <2>3 DEF InChunks
<1> QED BY <1>3, <1>4, <1>5, <1>6 DEF HttpInv

\* Every step of a request or of its server keeps the invariant.
LEMMA HttpSteps ==
  ASSUME HttpInv, [Next]_vars
  PROVE  HttpInv'
<1>1. \/ SendRequest \/ SendFails \/ FreeRequest \/ Deliver \/ PeerCloses \/ UNCHANGED vars
      \/ ReceiveNothing \/ RetryChunks \/ ReceiveBody
      \/ HeaderIncomplete \/ HeaderCorrupt \/ Redirect \/ RedirectFails
      \/ HeaderThenLength \/ HeaderThenChunks \/ HeaderThenAll
  BY DEF Next, Call, Peer, Over
<1> QED BY <1>1, OthersKeep, ReceiveNothingKeeps, RetryChunksKeeps, ReceiveBodyKeeps,
           HeaderIncompleteKeeps, HeaderCorruptKeeps, RedirectKeeps, RedirectFailsKeeps,
           HeaderThenLengthKeeps, HeaderThenChunksKeeps, HeaderThenAllKeeps

\* The invariant holds in every state of every download.
LEMMA HttpAlways == Spec => []HttpInv
<1>1. Init => HttpInv
  BY HttpBegins
<1>2. HttpInv /\ [Next]_vars => HttpInv'
  BY HttpSteps
<1> QED BY <1>1, <1>2, PTL DEF Spec
----------------------------------------------------------------------------
(* What the callers rely on.                                               *)

\* The state of a request keeps its shape (HTTP_SendReceiveData): readcount is
\* in the buffer, and the buffer holds nothing that has not arrived.
THEOREM TypeCorrect == Spec => []TypeOK
<1>1. HttpInv => TypeOK
  BY DEF HttpInv, Typed
<1> QED BY <1>1, HttpAlways, PTL

\* A request has at most its own socket open, after any chain of redirects and
\* closes seen while reading, and none once FileDownloadFreeRequest was called.
THEOREM SocketIsReleased == Spec => []OneSocket
<1>1. HttpInv => OneSocket
  BY DEF HttpInv, Sockets, OneSocket
<1> QED BY <1>1, HttpAlways, PTL

\* The status code of a completed transfer is that of the server that sent the
\* content, although each new reading of the header forgets it first.
THEOREM CodeAnswered == Spec => []CodeIsAnswered
<1>1. HttpInv => CodeIsAnswered
  BY DEF HttpInv, Known, Ended, CodeIsAnswered
<1> QED BY <1>1, HttpAlways, PTL

\* The chunks of an answer are put together in order, none twice and none left
\* out (HTTP_ProcessChunkedEncoding), wherever the segments cut them.
THEOREM ChunksOrdered == Spec => []ChunksInOrder
<1>1. HttpInv => ChunksInOrder
  <2> SUFFICES ASSUME HttpInv, response.kind = "chunked" PROVE IsPrefix(decoded, Body(response))
    BY DEF ChunksInOrder
  <2>1. response \in Responses
    BY AnswerIs DEF HttpInv
  <2>2. PICK k \in 0 .. Len(response.chunks) : decoded = Decoded(response, k)
    BY DEF HttpInv, InChunks, Taken
  <2> DEFINE d == Decoded(response, k)
             b == Body(response)
  <2>3. Len(d) <= Len(b) /\ \A i \in 1 .. Len(d) : b[i] = d[i]
    BY <2>1, DecodedPrefix
  <2>4. d \in Seq(Symbol) /\ b \in Seq(Symbol)
    BY <2>1, DecodedSteps, HeaderIs
  <2> HIDE DEF d, b
  <2>5. SubSeq(d, 1, Len(d)) = SubSeq(b, 1, Len(d))
    BY <2>3, <2>4
  <2>6. IsPrefix(d, b)
    BY <2>3, <2>4, <2>5 DEF IsPrefix
  <2> QED BY <2>2, <2>6 DEF d, b
<1> QED BY <1>1, HttpAlways, PTL

\* A call that returns -1 for an answer without chunks does so because something
\* has failed, or because a segment ended inside a line of the header.
THEOREM FailuresReal == Spec => []FailureIsReal
<1>1. HttpInv => FailureIsReal
  BY DEF HttpInv, Ended
<1> QED BY <1>1, HttpAlways, PTL

\* What the callers take of a completed transfer is the body, all of it and
\* nothing else: for answers with a length that are not above the limit of 640
\* MB, for chunked answers, and for others if they have no body (such an answer
\* ends with the segment its header came with).
THEOREM MessageIsFull ==
  ASSUME \A r \in Responses :
           /\ r.kind = "length" => Len(Wire[r]) <= MaxFinal
           /\ r.kind = "plain" => Body(r) = << >>
  PROVE  Spec => []FullMessage
<1>1. HttpInv => FullMessage
  <2> SUFFICES ASSUME HttpInv, result = "done", ~torn
               PROVE  /\ contentLength = Len(Body(response))
                      /\ headerLength + contentLength <= cursize
                      /\ Content = Body(response)
    BY DEF FullMessage
  <2>0. Typed /\ Known /\ InChunks /\ InBody /\ Ended
    BY DEF HttpInv
  <2>1. CASE chunkedEncoding
    <3>1. /\ decoded = Body(response) /\ contentLength = Len(Body(response))
          /\ headerLength + contentLength <= cursize
      BY <2>0, <2>1 DEF Ended
    <3> QED BY <2>1, <3>1 DEF Content
  <2>2. CASE ~chunkedEncoding
    <3> DEFINE b == Body(response)
               n == Len(b)
    <3>1. finallen # -1 /\ finallen <= cursize
      BY <2>0, <2>2 DEF Ended
    <3>2. response.kind # "chunked" /\ Lengths
      BY <2>0, <2>2, <3>1 DEF Ended, InBody
    <3>3. /\ response \in Responses /\ b \in Seq(Symbol) /\ n \in Nat /\ Size = 8 + n
          /\ \A i \in 1 .. n : Wire[response][8 + i] = b[i]
          /\ Wire[response] \in Seq(Symbol)
      <4>1. response \in Responses
        BY <2>0, AnswerIs
      <4>2. b \in Seq(Symbol)
        BY <4>1, HeaderIs
      <4> QED BY <3>2, <4>1, <4>2, WireOfBody DEF Size
    <3>4. /\ cursize \in Nat /\ cursize <= arrived /\ arrived <= Size /\ arrived \in Nat
          /\ maxsize \in Nat /\ maxsize # 0 /\ cursize <= maxsize
      BY <2>0, <3>3 DEF Typed, TypeOK, Size
    <3>5. finallen = Size /\ cursize = Size /\ contentLength = n
      <4>1. response.kind \in {"length", "plain"}
        BY <3>2 DEF Lengths
      <4>2. CASE response.kind = "length"
        <5>1. Size <= MaxFinal /\ MaxFinal \in Nat
          BY <3>3, <4>2, HttpAssumption DEF Size
        <5> QED BY <3>1, <3>2, <3>3, <3>4, <4>2, <5>1 DEF Lengths
      <4>3. CASE response.kind = "plain"
        <5>1. n = 0
          BY <3>3, <4>3
        <5>2. finallen = cursize /\ contentLength = cursize - 8 /\ headerLength = 8
          BY <3>2, <4>3 DEF Lengths
        <5>3. headerLength <= cursize
          BY <2>0, <3>1 DEF Known
        <5> QED BY <3>3, <3>4, <5>1, <5>2, <5>3
      <4> QED BY <4>1, <4>2, <4>3
    <3>6. Total = Size
      <4>1. BufferSize \in Nat /\ BufferSize >= Size
        <5>1. CASE cursize < maxsize
          BY <3>3, <3>4, <3>5, <5>1 DEF BufferSize
        <5>2. CASE cursize >= maxsize /\ finallen > 0 /\ 2 * maxsize > finallen
          BY <3>3, <3>4, <3>5, <5>2 DEF BufferSize
        <5>3. CASE cursize >= maxsize /\ ~(finallen > 0 /\ 2 * maxsize > finallen)
          <6>1. BufferSize = 2 * maxsize
            BY <3>3, <3>4, <3>5, <5>3 DEF BufferSize
          <6> QED BY <3>3, <3>4, <3>5, <5>3, <6>1
        <5> QED BY <3>4, <5>1, <5>2, <5>3
      <4>2. arrived = Size
        BY <3>3, <3>4, <3>5
      <4> HIDE DEF BufferSize
      <4>3. Size \in {arrived, BufferSize} /\ {arrived, BufferSize} \subseteq Nat
            /\ \A m \in {arrived, BufferSize} : Size <= m
        BY <3>3, <4>1, <4>2
      <4> DEFINE S == {arrived, BufferSize}
      <4>4. S \subseteq Nat /\ Size \in S /\ \A m \in S : Size <= m
        BY <4>3
      <4> HIDE DEF S
      <4>5. Min(S) = Size
        BY <4>4, MinIsThis
      <4> QED BY <4>5 DEF Total, S
    <3>7. headerLength = 8 /\ headerLength + contentLength <= cursize
      <4>1. headerLength = 8
        BY <3>2 DEF Lengths
      <4> QED BY <3>3, <3>5, <4>1
    <3>8. Content = b
      <4>1. Data = SubSeq(Wire[response], 1, Size) /\ Len(Wire[response]) = Size
        BY <3>6 DEF Data, Size
      <4>2. Len(Data) = Size /\ Data \in Seq(Symbol) /\ \A i \in 1 .. Size : Data[i] = Wire[response][i]
        BY <3>3, <4>1, PrefixIs
      <4>3. Content = SubSeq(Data, 9, 8 + n)
        BY <2>2, <3>3, <3>5, <3>7 DEF Content
      <4> DEFINE w == Wire[response]
                 s == Data
      <4>4. \A i \in 1 .. n : s[8 + i] = b[i] /\ 8 + i \in 1 .. Size
        BY <3>3, <4>2
      <4>5. s \in Seq(Symbol) /\ Len(s) = 8 + n /\ b \in Seq(Symbol) /\ Len(b) = n /\ n \in Nat
        BY <3>3, <4>2
      <4> HIDE DEF s, b, n
      <4>6. Len(SubSeq(s, 9, 8 + n)) = n /\ \A i \in 1 .. n : SubSeq(s, 9, 8 + n)[i] = s[8 + i]
        BY <4>5
      <4>7. SubSeq(s, 9, 8 + n) \in Seq(Symbol)
        BY <4>5
      <4>8. SubSeq(s, 9, 8 + n) = b
        BY <4>4, <4>5, <4>6, <4>7
      <4> QED BY <4>3, <4>8 DEF s
    <3> QED BY <3>5, <3>7, <3>8
  <2> QED BY <2>1, <2>2
<1> QED BY <1>1, HttpAlways, PTL
=============================================================================
