--------------------------- MODULE HttpTransfer ----------------------------
(***************************************************************************)
(* One HTTP download (httpftp.c): HTTP_SendReceiveData is called again and *)
(* again by Sec_GetUpdateInfo and Sec_DownloadFile, and each call works on *)
(* whatever part of the server's answer has arrived by then.               *)
(*                                                                         *)
(* The answer is a sequence of symbols.  A symbol is one byte, or a run of *)
(* bytes without line ends (a status line, a header field) that no         *)
(* decision of the code depends on splitting.                              *)
(***************************************************************************)
EXTENDS Integers, Sequences
LOCAL INSTANCE FiniteSetsExt        \* Min
LOCAL INSTANCE SequencesExt         \* FlattenSeq, IsPrefix

CONSTANTS
    Responses,      \* the answers a server may give: [kind, code, chunks]
    MaxHops,        \* bound: how many connections a chain of redirects makes
    InitialBuffer,  \* INITIAL_BUFFERLEN
    MaxFinal,       \* 1024*1024*640
    Faults          \* what may fail: a subset of {"truncate", "connect", "send"}

\* What a symbol is, and its value where it has one.
Symbol == {"CR", "LF", "NUL", "byte", "status", "length", "chunked", "location", "other", "size"} \X Nat

ASSUME HttpAssumption ==
    /\ MaxHops \in Nat \ {0}
    /\ InitialBuffer \in Nat \ {0} /\ MaxFinal \in Nat
    /\ Faults \subseteq {"truncate", "connect", "send"}
    /\ \A r \in Responses :
         /\ r.kind \in {"length", "chunked", "plain", "redirect", "garbage"} /\ r.code \in Nat
         /\ r.chunks \in Seq(Seq(Symbol))
         /\ r.kind = "chunked" => \A i \in DOMAIN r.chunks : r.chunks[i] # << >>     \* or it ends there

CR  == <<"CR", 0>>
LF  == <<"LF", 0>>
NUL == <<"NUL", 0>>

Body(r) == FlattenSeq(r.chunks)

Chunk(c) == <<<<"size", Len(c)>>, CR, LF>> \o c \o <<CR, LF>>

Field(r) == CASE r.kind = "length"   -> <<<<"length", Len(Body(r))>>, CR, LF>>
              [] r.kind = "chunked"  -> <<<<"chunked", 0>>, CR, LF>>
              [] r.kind = "redirect" -> <<<<"location", 0>>, CR, LF>>
              [] OTHER               -> <<<<"other", 0>>, CR, LF>>

StatusLine(r) == IF r.kind = "garbage" THEN <<<<"other", 0>>, CR, LF>>
                                       ELSE <<<<"status", r.code>>, CR, LF>>

Header(r) == StatusLine(r) \o Field(r) \o <<CR, LF>>

Wire == [r \in Responses |->
            IF r.kind = "chunked"
            THEN Header(r) \o FlattenSeq([i \in DOMAIN r.chunks |-> Chunk(r.chunks[i])])
                           \o Chunk(<<>>)
            ELSE Header(r) \o Body(r)]

VARIABLES
    result,         \* of the last call: "wait" (0), "done" (1) or "fail" (-1)
    freed,          \* FileDownloadFreeRequest was called
    left,           \* sendmsg.cursize, in units
    sock,           \* request->socket: the number of the connection; 0 is -1
    cursize, maxsize, readcount,            \* recvmsg
    finallen, code, headerLength, contentLength, contentLengthArrived,
    chunkedEncoding, currentChunkReadOffset,
    decoded,        \* the chunks' data that was moved together
    hop,            \* how many connections were made
    response,       \* what the present server answers
    arrived,        \* how much of it is here
    peerOpen,       \* has the server closed the connection
    open,           \* the open sockets
    broken,         \* history: something really failed
    torn            \* history: a segment ended inside a header line

status  == <<result, freed>>
buffer  == <<cursize, maxsize, readcount>>
answer  == <<finallen, code, headerLength, contentLength, contentLengthArrived,
             chunkedEncoding, currentChunkReadOffset, decoded>>
peer    == <<hop, response, arrived, peerOpen>>
sockets == <<sock, open>>
history == <<broken, torn>>
vars    == <<status, left, buffer, answer, peer, sockets, history>>

Request == 2        \* units the request is sent in

TypeOK ==
    /\ result \in {"wait", "done", "fail"} /\ left \in 0 .. Request
    /\ sock \in 0 .. MaxHops /\ hop \in 1 .. MaxHops /\ open \subseteq 1 .. MaxHops
    /\ cursize \in 0 .. arrived /\ maxsize \in Nat /\ readcount \in 0 .. cursize /\ cursize <= maxsize
    /\ finallen \in Int /\ code \in Nat /\ headerLength \in Nat /\ contentLength \in Int
    /\ currentChunkReadOffset \in Nat
    /\ freed \in BOOLEAN /\ contentLengthArrived \in BOOLEAN /\ chunkedEncoding \in BOOLEAN
    /\ peerOpen \in BOOLEAN /\ broken \in BOOLEAN /\ torn \in BOOLEAN
    /\ response \in Responses /\ arrived \in 0 .. Len(Wire[response])

\* FT_ResetConnectionStatus, and MSG_Clear.
Fresh ==
    /\ finallen = -1 /\ code = 0 /\ headerLength = 0 /\ contentLength = 0
    /\ contentLengthArrived = FALSE /\ chunkedEncoding = FALSE
    /\ currentChunkReadOffset = 0 /\ decoded = <<>>
    /\ cursize = 0 /\ readcount = 0

\* A chain of redirects ends before the bound.
Answers(n) == {r \in Responses : r.kind = "redirect" => n < MaxHops}

\* HTTPGetRequest: the connection is made, the request is not sent yet.
Init ==
    /\ result = "wait" /\ freed = FALSE /\ left = Request
    /\ sock = 1 /\ open = {1} /\ maxsize = InitialBuffer
    /\ Fresh
    /\ hop = 1 /\ response \in Answers(1) /\ arrived = 0 /\ peerOpen = TRUE
    /\ broken = (response.kind = "garbage") /\ torn = FALSE
----------------------------------------------------------------------------
(* Reading lines out of the receive buffer.                                *)

\* MSG_ReadStringLine from readcount p: the line, and the readcount after it.
ReadStringLine(s, p) ==
    LET ends == {i \in p + 1 .. Len(s) : s[i] \in {LF, NUL}}
        e    == IF ends = {} THEN Len(s) + 1 ELSE Min(ends)
    IN  [text |-> SubSeq(s, p + 1, e - 1), next |-> IF ends = {} THEN Len(s) ELSE e]

\* The loops over header lines: they stop at a line that starts with '\r'
\* (found) and at an empty one, which is also what the end of the data gives.
ReadHeader(s, from) ==
    LET scan[p \in 0 .. Len(s)] ==
          LET line == ReadStringLine(s, p)
          IN  IF line.text = <<>> THEN [found |-> FALSE, at |-> line.next]
              ELSE IF line.text[1] = CR THEN [found |-> TRUE, at |-> line.next]
              ELSE scan[line.next]
    IN  scan[from]

\* HTTP_ProcessChunkedEncoding: the chunk whose size line starts at p.
ChunkSize(s, p) == LET line == ReadStringLine(s, p).text IN
                   IF line[1][1] = "size" THEN line[1][2] ELSE 0
ChunkStart(s, p) == ReadStringLine(s, p).next
ChunkEnd(s, p)   == ChunkStart(s, p) + ChunkSize(s, p)
HasSizeLine(s, p) == \E i \in DOMAIN ReadStringLine(s, p).text : ReadStringLine(s, p).text[i] = CR

ChunkComplete(s, p) ==
    /\ HasSizeLine(s, p) /\ ChunkSize(s, p) > 0
    /\ Len(s) >= ChunkEnd(s, p) + 2
    /\ s[ChunkEnd(s, p) + 1] = CR /\ s[ChunkEnd(s, p) + 2] = LF

\* Where its loop stops, the data it moves together on the way, and its result.
LastChunk(s, from) ==
    LET skip[p \in 0 .. Len(s)] == IF ChunkComplete(s, p) THEN skip[ChunkEnd(s, p) + 2] ELSE p
    IN  skip[from]

ChunkData(s, from) ==
    LET data[p \in 0 .. Len(s)] ==
          IF ChunkComplete(s, p)
          THEN SubSeq(s, ChunkStart(s, p) + 1, ChunkEnd(s, p)) \o data[ChunkEnd(s, p) + 2]
          ELSE <<>>
    IN  data[from]

ChunkResult(s, p, closed) ==
    IF HasSizeLine(s, p) /\ ChunkSize(s, p) = 0 THEN "done"
    ELSE IF closed \/ (HasSizeLine(s, p) /\ Len(s) >= ChunkEnd(s, p) + 2) THEN "fail"
    ELSE "wait"
----------------------------------------------------------------------------
(* FT_ReceiveData and what it calls in sys_net.c.                          *)

\* (variant) The buffer is never enlarged.
BufferSizeFixed == maxsize

\* A full buffer is doubled, but never beyond finallen.
BufferSize ==
    IF cursize < maxsize THEN maxsize
    ELSE IF finallen > 0 /\ 2 * maxsize > finallen THEN finallen
    ELSE 2 * maxsize

\* What the buffer holds after this call.
Total == Min({arrived, BufferSize})
Data  == SubSeq(Wire[response], 1, Total)

\* recv answers 0 to a closed connection, but also when it is given no room.
SeesClose == ~peerOpen /\ arrived < BufferSize

GotData == sock # 0 /\ Total > cursize                        \* status 1
Closed  == sock = 0 \/ (Total = cursize /\ SeesClose)         \* status -1

\* The buffer's room after the call; a connection seen closed loses its socket.
TakeData ==
    /\ maxsize' = BufferSize
    /\ torn' = (torn \/ (Total \in 1 .. Len(Header(response)) - 1 /\ Wire[response][Total] # LF))
    /\ IF SeesClose THEN sock' = 0 /\ open' = open \ {sock} ELSE UNCHANGED <<sock, open>>

TakeNothing == IF sock # 0 THEN TakeData ELSE UNCHANGED <<maxsize, sockets, torn>>

\* What was received stays in the buffer; only a chunked answer that is
\* complete is cut to its data.
KeepData == cursize' = Total

\* A call reads only after the request has been sent.
Receiving == result = "wait" /\ left = 0
----------------------------------------------------------------------------
(* HTTP_SendReceiveData: one action for each way through a call.           *)

\* FT_SendData: a part of the request, or the rest of it.
SendRequest ==
    /\ result = "wait" /\ left > 0 /\ left' \in 0 .. left - 1
    /\ UNCHANGED <<status, buffer, answer, peer, sockets, history>>

\* NET_TcpSendData has closed the socket, but request->socket keeps it.
SendFails ==
    /\ "send" \in Faults /\ result = "wait" /\ left > 0
    /\ open' = open \ {sock} /\ result' = "fail" /\ broken' = TRUE
    /\ UNCHANGED <<torn, freed, left, buffer, answer, peer, sock>>

ReceiveNothing ==
    /\ Receiving /\ ~GotData /\ ~(chunkedEncoding /\ headerLength > 0)
    /\ result' = IF Closed THEN "fail" ELSE "wait"
    /\ TakeNothing
    /\ UNCHANGED <<freed, left, cursize, readcount, answer, peer, broken>>

\* The chunk of length 0: the message ends behind the data moved together.
Complete(header) ==
    /\ contentLength' = Len(decoded') /\ readcount' = 0
    /\ cursize' = header + Len(decoded') /\ finallen' = header + Len(decoded')

\* (variant) The chunks that were taken are not counted.
TakeChunksRepeating(header, closed) ==
    \E s \in {Data}, first \in {header + currentChunkReadOffset} :
    \E last \in {LastChunk(s, first)} :
        /\ result' = ChunkResult(s, last, closed)
        /\ decoded' = decoded \o ChunkData(s, first)
        /\ UNCHANGED currentChunkReadOffset
        /\ IF result' = "done" THEN Complete(header)
           ELSE KeepData /\ readcount' = ChunkStart(s, last) /\ contentLength' = 0 /\ UNCHANGED finallen

\* The effects of HTTP_ProcessChunkedEncoding on the data received so far.
TakeChunks(header, closed) ==
    \E s \in {Data}, first \in {header + currentChunkReadOffset} :
    \E last \in {LastChunk(s, first)} :
        /\ result' = ChunkResult(s, last, closed)
        /\ decoded' = decoded \o ChunkData(s, first)
        /\ currentChunkReadOffset' = last - header
        /\ IF result' = "done" THEN Complete(header)
           ELSE KeepData /\ readcount' = ChunkStart(s, last) /\ contentLength' = 0 /\ UNCHANGED finallen

\* (variant) The header may have been forgotten meanwhile.
RetryChunksAlways ==
    /\ Receiving /\ ~GotData /\ headerLength > 0
    /\ TakeNothing /\ TakeChunks(headerLength, Closed)
    /\ UNCHANGED <<freed, left, code, headerLength, contentLengthArrived,
                   chunkedEncoding, peer, broken>>

\* No data, in a chunked answer: what is there already is tried again.
RetryChunks ==
    /\ Receiving /\ ~GotData /\ chunkedEncoding /\ headerLength > 0
    /\ TakeNothing /\ TakeChunks(headerLength, Closed)
    /\ UNCHANGED <<freed, left, code, headerLength, contentLengthArrived,
                   chunkedEncoding, peer, broken>>

\* (variant) The header's bytes count as content.
ReceiveBodyUncounted ==
    /\ Receiving /\ GotData /\ finallen # -1
    /\ TakeData /\ KeepData
    /\ result' = IF Total < contentLength THEN "wait" ELSE "done"
    /\ UNCHANGED <<freed, left, readcount, answer, peer, broken>>

\* (variant) Data that comes with the end of the connection is not looked at.
ReceiveBodyClosing ==
    /\ Receiving /\ GotData /\ finallen # -1
    /\ TakeData /\ KeepData
    /\ result' = IF SeesClose THEN "fail" ELSE IF Total < finallen THEN "wait" ELSE "done"
    /\ UNCHANGED <<freed, left, readcount, answer, peer, broken>>

\* Everything of an answer with a Content-Length, or a part.
ReceiveBody ==
    /\ Receiving /\ GotData /\ finallen # -1
    /\ TakeData /\ KeepData
    /\ result' = IF Total < finallen THEN "wait" ELSE "done"
    /\ UNCHANGED <<freed, left, readcount, answer, peer, broken>>

\* The answer is read from its start for as long as finallen is not known, which
\* with chunks is always; what was known of it is forgotten first.
Reading == Receiving /\ GotData /\ finallen = -1

HeaderSearch == ReadHeader(Data, readcount)

HeaderIncomplete ==
    /\ Reading /\ ~HeaderSearch.found
    /\ TakeData /\ KeepData /\ readcount' = HeaderSearch.at
    /\ code' = 0 /\ contentLength' = 0 /\ contentLengthArrived' = FALSE
    /\ chunkedEncoding' = FALSE
    /\ UNCHANGED <<status, left, finallen, headerLength, currentChunkReadOffset, decoded,
                   peer, broken>>

\* The second reading, after the status line; Fields is what it passes.
HeaderFound == Reading /\ HeaderSearch.found
HeaderLines == ReadHeader(Data, ReadStringLine(Data, 0).next)
Fields      == {Data[i] : i \in 1 .. HeaderLines.at}
IsAnswer    == Data[1][1] = "status"
Redirected  == \E f \in Fields : f[1] = "location"

HeaderCorrupt ==
    /\ HeaderFound /\ (IsAnswer => ~Redirected /\ ~HeaderLines.found)
    /\ TakeData /\ KeepData /\ result' = "fail"
    /\ UNCHANGED <<freed, left, readcount, answer, peer, broken>>

\* (variant) recvmsg is not cleared.
ResetKeepingBuffer ==
    /\ HeaderFound /\ IsAnswer /\ Redirected
    /\ finallen' = -1 /\ code' = 0 /\ headerLength' = 0 /\ contentLength' = 0
    /\ contentLengthArrived' = FALSE /\ chunkedEncoding' = FALSE
    /\ currentChunkReadOffset' = 0 /\ decoded' = <<>>
    /\ cursize' = Total /\ readcount' = 0 /\ maxsize' = BufferSize
    /\ UNCHANGED freed

\* FT_ResetRequest closes the old connection ...
Reset ==
    /\ HeaderFound /\ IsAnswer /\ Redirected
    /\ finallen' = -1 /\ code' = 0 /\ headerLength' = 0 /\ contentLength' = 0
    /\ contentLengthArrived' = FALSE /\ chunkedEncoding' = FALSE
    /\ currentChunkReadOffset' = 0 /\ decoded' = <<>>
    /\ cursize' = 0 /\ readcount' = 0 /\ maxsize' = BufferSize
    /\ UNCHANGED freed

\* (variant) The old connection stays open.
RedirectLeaking ==
    /\ Reset
    /\ sock' = hop + 1 /\ open' = open \cup {hop + 1} /\ hop' = hop + 1
    /\ response' \in Answers(hop + 1) /\ arrived' = 0 /\ peerOpen' = TRUE
    /\ left' = Request /\ broken' = (broken \/ response'.kind = "garbage")
    /\ UNCHANGED <<torn, result>>

\* ... and a new request goes to the new address.
Redirect ==
    /\ Reset
    /\ sock' = hop + 1 /\ open' = (open \ {sock}) \cup {hop + 1} /\ hop' = hop + 1
    /\ response' \in Answers(hop + 1) /\ arrived' = 0 /\ peerOpen' = TRUE
    /\ left' = Request /\ broken' = (broken \/ response'.kind = "garbage")
    /\ UNCHANGED <<torn, result>>

RedirectFails ==
    /\ Reset /\ "connect" \in Faults
    /\ sock' = 0 /\ open' = open \ {sock}
    /\ result' = "fail" /\ broken' = TRUE
    /\ UNCHANGED <<torn, left, peer>>

\* The header is there; what follows depends on how the body is delimited.
HeaderDone ==
    /\ HeaderFound /\ IsAnswer /\ ~Redirected /\ HeaderLines.found
    /\ TakeData
    /\ code' = Data[1][2] /\ headerLength' = HeaderLines.at
    /\ contentLengthArrived' = (\E f \in Fields : f[1] = "length")
    /\ chunkedEncoding' = (\E f \in Fields : f[1] = "chunked")
    /\ UNCHANGED <<freed, left, peer, broken>>

HeaderThenLength ==
    /\ HeaderDone /\ KeepData /\ contentLengthArrived'
    /\ contentLength' = (CHOOSE f \in Fields : f[1] = "length")[2]
    /\ finallen' = IF headerLength' + contentLength' > MaxFinal THEN headerLength'
                   ELSE headerLength' + contentLength'
    /\ result' = IF Total < finallen' THEN "wait" ELSE "done"
    /\ readcount' = headerLength'
    /\ UNCHANGED <<currentChunkReadOffset, decoded>>

HeaderThenChunks ==
    /\ HeaderDone /\ ~contentLengthArrived' /\ chunkedEncoding'
    /\ TakeChunks(headerLength', FALSE)

\* "Received full message".
HeaderThenAll ==
    /\ HeaderDone /\ KeepData /\ ~contentLengthArrived' /\ ~chunkedEncoding'
    /\ finallen' = Total /\ contentLength' = Total - headerLength' /\ result' = "done"
    /\ readcount' = headerLength'
    /\ UNCHANGED <<currentChunkReadOffset, decoded>>

\* The caller has seen 1 or -1.
FreeRequest ==
    /\ result # "wait" /\ ~freed /\ freed' = TRUE
    /\ IF sock = 0 THEN UNCHANGED sockets
       ELSE sock' = 0 /\ open' = open \ {sock}
    /\ UNCHANGED <<result, left, buffer, answer, peer, history>>
----------------------------------------------------------------------------
(* The server and the network.                                             *)

Deliver ==
    /\ result = "wait" /\ left = 0 /\ peerOpen
    /\ arrived' \in arrived + 1 .. Len(Wire[response])
    /\ UNCHANGED <<status, left, buffer, answer, hop, response, peerOpen, sockets, history>>

\* The request asks for "Connection: close".
PeerCloses ==
    /\ result = "wait" /\ left = 0 /\ peerOpen /\ peerOpen' = FALSE
    /\ arrived = Len(Wire[response]) \/ "truncate" \in Faults
    /\ broken' = (broken \/ arrived < Len(Wire[response]))
    /\ UNCHANGED <<torn, status, left, buffer, answer, hop, response, arrived, sockets>>

Call == \/ SendRequest \/ SendFails
        \/ ReceiveNothing \/ RetryChunks \/ ReceiveBody
        \/ HeaderIncomplete \/ HeaderCorrupt \/ Redirect \/ RedirectFails
        \/ HeaderThenLength \/ HeaderThenChunks \/ HeaderThenAll

Peer == Deliver \/ PeerCloses

Over == freed /\ UNCHANGED vars

Next == Call \/ FreeRequest \/ Peer \/ Over

Spec == Init /\ [][Next]_vars

\* The callers loop until they get 1 or -1; the server sends all and closes.
FairSpec == Spec /\ WF_vars(Peer \/ Call)
----------------------------------------------------------------------------
(* Properties.                                                             *)

\* What the callers take from the buffer of a completed transfer.
Content == IF chunkedEncoding THEN decoded
           ELSE SubSeq(Data, headerLength + 1, headerLength + contentLength)

\* "Received full message" (httpftp.c:656 and 661), and the 1 that
\* FileDownloadSendReceive returns for "complete": the content is the body that
\* the last server sent, all of it and nothing else.
FullMessage ==
    result = "done" /\ ~torn =>
    /\ contentLength = Len(Body(response))
    /\ headerLength + contentLength <= cursize
    /\ Content = Body(response)

\* The status code the callers test is the one of the server that sent the
\* content, after any chain of redirects and although chunked answers reset it
\* with every segment.
CodeIsAnswered == result = "done" => code = response.code

\* Chunks are put together in order, none twice and none skipped, however the
\* segments cut them.
ChunksInOrder == response.kind = "chunked" => IsPrefix(decoded, Body(response))

\* There is never more than the one socket of the request, and it does not
\* outlive the request (redirects, closes seen while reading, failed sends).
OneSocket == open \subseteq {sock} /\ (freed => open = {})

\* A transfer only fails if something has failed (answers with a length, or
\* with no body).
FailureIsReal == result = "fail" /\ response.kind # "chunked" => broken \/ torn


\* Every download ends, if the server closes its connections (no call has a
\* timeout).
Terminates == (result = "wait") ~> (result # "wait")
=============================================================================
