---------------------------- MODULE FtpTransfer ----------------------------
(***************************************************************************)
(* One FTP download (httpftp.c): FTP_SendReceiveData is called again and   *)
(* again; each call reads the replies that have arrived on the control     *)
(* connection, lets them move request->stage, and then does what the stage *)
(* asks for: send the next command, read the data connection, finish.      *)
(*                                                                         *)
(* A reply is its code, a command its name, the file a number of units.    *)
(* The two connections deliver independently of each other.                *)
(***************************************************************************)
EXTENDS Integers, Sequences

CONSTANTS
    FileSize,       \* units in the file
    InitialBuffer,  \* INITIAL_BUFFERLEN in units
    Faults          \* what may fail, see below

ASSUME FtpAssumption ==
    /\ FileSize \in Nat /\ InitialBuffer \in Nat \ {0}
    /\ Faults \subseteq {"refuse",    \* the server refuses a command
                         "split",     \* a segment ends inside a reply's code, which is lost
                         "close",     \* the server gives up: 421, and it closes
                         "abort",     \* the data connection breaks
                         "address",   \* the address of the data connection is garbled
                         "connect",   \* the data connection cannot be made
                         "send"}      \* the send system call fails

Unknown == -1       \* request->finallen before the size is known

VARIABLES
    pc,             \* in a call: "call", "replies" (the while loop), "act" (the switch)
    result,         \* of the last call: "wait" (0), "done" (1) or "fail" (-1)
    freed,          \* FileDownloadFreeRequest was called
    stage, code,
    inbox,          \* replies in recvmsg that are not read yet
    outbox,         \* commands in sendmsg
    sock, dsock,    \* are request->socket and transfersocket other than -1
    finallen,
    dmax, got,      \* transfermsg.maxsize, transfertotalreceivedbytes
    heard,          \* commands that the server has to answer
    ctl,            \* replies that have arrived
    ctlOpen,        \* has the server not closed the control connection
    sending,        \* is the server sending: "no", "yes", "all" (all is on its way)
    arrived,        \* units of the file that have arrived
    dataOpen,       \* the end of the data connection has not arrived
    open,           \* the sockets that are open
    broken          \* history: something really failed

call    == <<pc, result, freed>>
control == <<stage, code>>
queues  == <<inbox, outbox>>
handles == <<sock, dsock, open>>
file    == <<finallen, dmax, got>>
server  == <<heard, ctl, ctlOpen, sending, arrived, dataOpen>>
vars    == <<call, control, queues, handles, file, server, broken>>

Commands == {"CONNECT", "USER", "PASS", "ACCT", "TYPE", "EPSV", "PASV", "SIZE", "RETR", "QUIT"}

TypeOK ==
    /\ pc \in {"call", "replies", "act"} /\ result \in {"wait", "done", "fail"}
    /\ stage \in {-20, -1} \cup 0 .. 62 \cup {9999, 10000, 10001} /\ code \in 0 .. 599
    /\ inbox \in Seq(0 .. 599) /\ outbox \in Seq(Commands)
    /\ open \subseteq {"control", "data"}
    /\ finallen \in {Unknown, FileSize} /\ dmax \in Nat /\ got \in 0 .. arrived /\ got <= dmax
    /\ heard \in Seq(Commands) /\ ctl \in Seq(0 .. 599)
    /\ sending \in {"no", "yes", "all"} /\ arrived \in 0 .. FileSize
    /\ freed \in BOOLEAN /\ sock \in BOOLEAN /\ dsock \in BOOLEAN
    /\ ctlOpen \in BOOLEAN /\ dataOpen \in BOOLEAN /\ broken \in BOOLEAN

\* FTP_DLRequest has connected; the server is about to greet.
Init ==
    /\ pc = "call" /\ result = "wait" /\ freed = FALSE
    /\ stage = 0 /\ code = 0 /\ inbox = <<>> /\ outbox = <<>>
    /\ sock = TRUE /\ dsock = FALSE /\ open = {"control"}
    /\ finallen = Unknown /\ dmax = 0 /\ got = 0
    /\ heard = <<"CONNECT">> /\ ctl = <<>> /\ ctlOpen = TRUE
    /\ sending = "no" /\ arrived = 0 /\ dataOpen = TRUE
    /\ broken = FALSE
----------------------------------------------------------------------------
(* The start of a call: FT_ReceiveData, and FT_SendData if it got nothing. *)

Calling == pc = "call" /\ result = "wait"

ReceiveReplies ==
    /\ Calling /\ sock /\ ctl # <<>>
    /\ inbox' = ctl /\ ctl' = <<>> /\ pc' = "replies"
    /\ sock' = ctlOpen /\ open' = IF ctlOpen THEN open ELSE open \ {"control"}
    /\ UNCHANGED <<result, freed, control, outbox, dsock, file, heard, ctlOpen, sending,
                   arrived, dataOpen, broken>>

\* The control connection is gone; from stage 9999 on it is not needed.
ControlGone ==
    /\ Calling /\ (sock => ctl = <<>> /\ ~ctlOpen)
    /\ sock' = FALSE /\ open' = IF sock THEN open \ {"control"} ELSE open
    /\ IF stage < 9999 THEN result' = "fail" /\ UNCHANGED pc
                       ELSE pc' = "replies" /\ UNCHANGED result
    /\ UNCHANGED <<freed, control, queues, dsock, file, server, broken>>

SendCommands ==
    /\ Calling /\ sock /\ ctl = <<>> /\ ctlOpen /\ pc' = "replies"
    /\ IF stage < 9999 THEN heard' = heard \o outbox /\ outbox' = <<>>
                       ELSE UNCHANGED <<heard, outbox>>
    /\ UNCHANGED <<result, freed, control, inbox, handles, file, ctl, ctlOpen, sending,
                   arrived, dataOpen, broken>>

\* NET_TcpSendData has closed the socket, but request->socket keeps it.
SendFails ==
    /\ "send" \in Faults /\ Calling /\ sock /\ ctl = <<>> /\ ctlOpen
    /\ stage < 9999 /\ outbox # <<>>
    /\ result' = "fail" /\ open' = open \ {"control"} /\ broken' = TRUE
    /\ UNCHANGED <<pc, freed, control, queues, sock, dsock, file, server>>
----------------------------------------------------------------------------
(* The while loop over the replies.                                        *)

Move(codes, from, to) == [codes |-> codes, from |-> from, to |-> to]

\* (variant) A server without EPSV is not asked for PASV.
MovesHasty ==
    { Move({220}, {0}, 1),         Move({202}, 11 .. 20, 21),
      Move({331}, {10}, 11),       Move({331}, {16}, 17),
      Move({332}, {10, 12}, 15),   Move({230}, 0 .. 20, 21),
      Move({125, 150}, {60}, 61),  Move({226}, 0 .. 62, 9999),
      Move({221}, 0 .. 9999, -1),  Move({421}, 0 .. 10001, -1),
      Move({500, 501, 502, 503}, {32}, 41) }

\* The stages at which a reply does what it is meant for.
Moves ==
    { Move({220}, {0}, 1),         Move({202}, 11 .. 20, 21),
      Move({331}, {10}, 11),       Move({331}, {16}, 17),
      Move({332}, {10, 12}, 15),   Move({230}, 0 .. 20, 21),
      Move({125, 150}, {60}, 61),  Move({226}, 0 .. 62, 9999),
      Move({221}, 0 .. 9999, -1),  Move({421}, 0 .. 10001, -1),
      Move({231, 350}, 0 .. 9999, -20),
      Move({500, 501, 502, 503}, {32}, 35) }

\* Replies that are passed over at any other stage, and those that end it all.
PassedOver == {220, 125, 150, 213, 226, 221, 231, 350}
Fatal(c)   == c \in {202, 331, 332, 230, 227, 229, 228, 120} \/ c >= 400

Reaction(c) ==
    IF \E m \in Moves : c \in m.codes /\ stage \in m.from
    THEN (CHOOSE m \in Moves : c \in m.codes /\ stage \in m.from).to
    ELSE IF c \in PassedOver THEN stage
    ELSE IF Fatal(c) THEN -20
    ELSE IF c \in 200 .. 299 /\ stage >= 30 THEN stage + 1 ELSE stage

Reading(c) ==
    /\ pc = "replies" /\ inbox # <<>> /\ c = Head(inbox)
    /\ inbox' = Tail(inbox) /\ code' = c

Opens(c)   == (c = 229 /\ stage = 32) \/ (c = 227 /\ stage = 36)
TellsSize(c) == c = 213 /\ stage = 50

\* The server says where to connect to for the data.
ReplyOpens(c) ==
    /\ Reading(c) /\ Opens(c)
    /\ stage' = 41 /\ dsock' = TRUE /\ open' = open \cup {"data"}
    /\ UNCHANGED <<call, outbox, sock, file, server, broken>>

NoDataConnection(c) ==
    /\ Reading(c) /\ Opens(c)
    /\ pc' = "call" /\ result' = "fail" /\ broken' = TRUE
    /\ UNCHANGED <<freed, stage, outbox, handles, file, server>>

\* The address in the reply is not a valid one, or there is none.
AddressUnreadable(c) == "address" \in Faults /\ NoDataConnection(c)

\* There is no socket, no connection within five seconds, or it is refused.
ConnectFails(c) == "connect" \in Faults /\ NoDataConnection(c)

\* The size of the file; transfermsg is allocated.
ReplySize(c) ==
    /\ Reading(c) /\ TellsSize(c)
    /\ stage' = 51 /\ finallen' = FileSize /\ dmax' = InitialBuffer /\ got' = 0
    /\ UNCHANGED <<call, outbox, handles, server, broken>>

ReplyMoves(c) ==
    /\ Reading(c) /\ ~(Opens(c) \/ TellsSize(c))
    /\ stage' = IF stage < 0 THEN stage ELSE Reaction(c)
    /\ UNCHANGED <<call, outbox, handles, file, server, broken>>

RepliesRead ==
    /\ pc = "replies" /\ inbox = <<>> /\ pc' = "act"
    /\ UNCHANGED <<result, freed, control, queues, handles, file, server, broken>>
----------------------------------------------------------------------------
(* The switch over request->stage that ends a call.                        *)

\* FT_AddData: sendmsg grows by what is added.
AddData(command) == outbox' = Append(outbox, command)

\* (variant) EPSV follows TYPE at once.
IssuesUnanswered ==
    { <<1, "USER", 10>>,  <<11, "PASS", 12>>, <<15, "ACCT", 16>>,
      <<17, "PASS", 20>>, <<21, "TYPE", 31>>, <<31, "EPSV", 32>>,
      <<35, "PASV", 36>>, <<41, "SIZE", 50>>, <<51, "RETR", 60>> }

Issues ==
    { <<1, "USER", 10>>,  <<11, "PASS", 12>>, <<15, "ACCT", 16>>,
      <<17, "PASS", 20>>, <<21, "TYPE", 30>>, <<31, "EPSV", 32>>,
      <<35, "PASV", 36>>, <<41, "SIZE", 50>>, <<51, "RETR", 60>> }

IssueCommand(i) ==
    /\ pc = "act" /\ stage = i[1] /\ pc' = "call"
    /\ AddData(i[2]) /\ stage' = i[3]
    /\ UNCHANGED <<result, freed, code, inbox, handles, file, server, broken>>

NothingToDo ==
    /\ pc = "act" /\ pc' = "call"
    /\ stage \notin {i[1] : i \in Issues} \cup {61, 9999, 10000, 10001, -1, -20}
    /\ UNCHANGED <<result, freed, control, queues, handles, file, server, broken>>

\* FTP_ReceiveData: a full buffer is doubled, but never beyond finallen.
BufferSize == IF got < dmax THEN dmax
              ELSE IF finallen > 0 /\ 2 * dmax > finallen THEN finallen ELSE 2 * dmax

\* (variant) All that has arrived is taken, room or not.
TotalUnbounded == arrived

Total     == IF arrived < BufferSize THEN arrived ELSE BufferSize
SeesClose == ~dataOpen /\ arrived < BufferSize

ReceiveData ==
    IF ~dsock THEN UNCHANGED <<dsock, open, dmax, got>>
    ELSE /\ dmax' = BufferSize /\ got' = Total
         /\ dsock' = ~SeesClose /\ open' = IF SeesClose THEN open \ {"data"} ELSE open

\* Stage 61.
ReceiveFile ==
    /\ pc = "act" /\ stage = 61 /\ pc' = "call"
    /\ ReceiveData
    /\ stage' = IF got' = finallen /\ finallen # 0 THEN 9999
                ELSE IF ~dsock' THEN -20 ELSE 61
    /\ UNCHANGED <<result, freed, code, queues, sock, finallen, server, broken>>

\* (variant) The server's word is taken for it.
FinishFileTrusting ==
    /\ pc = "act" /\ stage = 9999 /\ pc' = "call"
    /\ ReceiveData /\ stage' = 10000 /\ AddData("QUIT")
    /\ UNCHANGED <<result, freed, code, inbox, sock, finallen, server, broken>>

\* Stage 9999: what is there now is all that is waited for.
FinishFile ==
    /\ pc = "act" /\ stage = 9999 /\ pc' = "call"
    /\ ReceiveData
    /\ IF got' = finallen THEN stage' = 10000 /\ AddData("QUIT")
                          ELSE stage' = -20 /\ UNCHANGED outbox
    /\ UNCHANGED <<result, freed, code, inbox, sock, finallen, server, broken>>

\* Stage -20: the transfer has failed.
Abort ==
    /\ pc = "act" /\ stage = -20 /\ pc' = "call" /\ stage' = -1
    /\ IF sock THEN AddData("QUIT") ELSE UNCHANGED outbox
    /\ UNCHANGED <<result, freed, code, inbox, handles, file, server, broken>>

ReturnFailed ==
    /\ pc = "act" /\ stage = -1 /\ pc' = "call" /\ result' = "fail"
    /\ UNCHANGED <<freed, control, queues, handles, file, server, broken>>

\* (variant) The stage is not left.
CloseConnectionsAgain ==
    /\ pc = "act" /\ stage = 10000 /\ pc' = "call" /\ code' = 200
    /\ sock' = FALSE /\ dsock' = FALSE
    /\ open' = open \ ((IF sock THEN {"control"} ELSE {}) \cup (IF dsock THEN {"data"} ELSE {}))
    /\ UNCHANGED <<stage, result, freed, queues, file, server, broken>>

\* Stage 10000: both connections are closed, and recvmsg is freed.
CloseConnections ==
    /\ pc = "act" /\ stage = 10000 /\ pc' = "call"
    /\ IF dmax = 0 THEN stage' = -1 /\ UNCHANGED code      \* there is no buffer
                   ELSE stage' = 10001 /\ code' = 200
    /\ sock' = FALSE /\ dsock' = FALSE
    /\ open' = open \ ((IF sock THEN {"control"} ELSE {}) \cup (IF dsock THEN {"data"} ELSE {}))
    /\ UNCHANGED <<result, freed, queues, file, server, broken>>

ReturnComplete ==
    /\ pc = "act" /\ stage = 10001 /\ pc' = "call" /\ result' = "done"
    /\ UNCHANGED <<freed, control, queues, handles, file, server, broken>>

\* (variant) The data connection is forgotten.
FreeRequestControlOnly ==
    /\ result # "wait" /\ ~freed /\ freed' = TRUE
    /\ sock' = FALSE /\ dsock' = FALSE
    /\ open' = open \ (IF sock THEN {"control"} ELSE {})
    /\ UNCHANGED <<pc, result, control, queues, file, server, broken>>

\* FT_FreeRequest, after the caller has seen 1 or -1.
FreeRequest ==
    /\ result # "wait" /\ ~freed /\ freed' = TRUE
    /\ sock' = FALSE /\ dsock' = FALSE
    /\ open' = open \ ((IF sock THEN {"control"} ELSE {}) \cup (IF dsock THEN {"data"} ELSE {}))
    /\ UNCHANGED <<pc, result, control, queues, file, server, broken>>
----------------------------------------------------------------------------
(* The server and the network.                                             *)

client == <<call, control, queues, handles, file>>

\* What a server answers when it does what it is asked, and when it does not.
Answers ==
    [CONNECT |-> {220}, USER |-> {230, 331, 332}, PASS |-> {230, 202, 332},
     ACCT |-> {230, 202, 331}, TYPE |-> {200}, EPSV |-> {229, 500}, PASV |-> {227},
     SIZE |-> {213}, RETR |-> {125, 150}, QUIT |-> {221}]
Refusals ==
    [CONNECT |-> {120}, USER |-> {530}, PASS |-> {530}, ACCT |-> {530}, TYPE |-> {504},
     EPSV |-> {421}, PASV |-> {502}, SIZE |-> {550}, RETR |-> {550}, QUIT |-> {500}]

Answer(c) ==
    /\ heard # <<>> /\ ctlOpen /\ c \in Answers[Head(heard)]
    /\ ctl' = Append(ctl, c) /\ heard' = Tail(heard)
    /\ sending' = IF Head(heard) = "RETR" THEN "yes" ELSE sending
    /\ UNCHANGED <<client, ctlOpen, arrived, dataOpen, broken>>

Refuse(c) ==
    /\ "refuse" \in Faults /\ heard # <<>> /\ ctlOpen /\ c \in Refusals[Head(heard)]
    /\ ctl' = Append(ctl, c) /\ heard' = Tail(heard) /\ broken' = TRUE
    /\ UNCHANGED <<client, ctlOpen, sending, arrived, dataOpen>>

\* What is left of a code that two segments shared has no meaning.
SplitAnswer ==
    /\ "split" \in Faults /\ heard # <<>> /\ ctlOpen
    /\ ctl' = Append(ctl, 0) /\ heard' = Tail(heard) /\ broken' = TRUE
    /\ sending' = IF Head(heard) = "RETR" THEN "yes" ELSE sending
    /\ UNCHANGED <<client, ctlOpen, arrived, dataOpen>>

\* The server has written the last of the file, and says so; servers differ in how.
Transferred ==
    /\ sending = "yes" /\ ctlOpen /\ sending' = "all"
    /\ \E c \in {226, 250} : ctl' = Append(ctl, c)
    /\ UNCHANGED <<client, heard, ctlOpen, arrived, dataOpen, broken>>

DataArrives ==
    /\ sending # "no" /\ dataOpen /\ arrived' \in arrived + 1 .. FileSize
    /\ UNCHANGED <<client, heard, ctl, ctlOpen, sending, dataOpen, broken>>

DataEnds ==
    /\ sending = "all" /\ arrived = FileSize /\ dataOpen /\ dataOpen' = FALSE
    /\ UNCHANGED <<client, heard, ctl, ctlOpen, sending, arrived, broken>>

DataAborted ==
    /\ "abort" \in Faults /\ sending # "no" /\ arrived < FileSize /\ dataOpen
    /\ dataOpen' = FALSE /\ broken' = TRUE
    /\ UNCHANGED <<client, heard, ctl, ctlOpen, sending, arrived>>

\* A server that hears nothing for long enough closes the connection.
ServerCloses ==
    /\ "close" \in Faults /\ ctlOpen /\ heard = <<>> /\ sending # "yes"
    /\ ctlOpen' = FALSE /\ ctl' = Append(ctl, 421) /\ broken' = TRUE
    /\ UNCHANGED <<client, heard, sending, arrived, dataOpen>>

Client == \/ ReceiveReplies \/ ControlGone \/ SendCommands \/ SendFails
          \/ RepliesRead \/ NothingToDo
          \/ ReceiveFile \/ FinishFile \/ Abort \/ ReturnFailed
          \/ CloseConnections \/ ReturnComplete
          \/ \E c \in 0 .. 599 : \/ ReplyOpens(c) \/ AddressUnreadable(c) \/ ConnectFails(c)
                                \/ ReplySize(c) \/ ReplyMoves(c)
          \/ \E i \in Issues : IssueCommand(i)

Server == /\ result = "wait"
          /\ \/ SplitAnswer \/ Transferred \/ DataArrives \/ DataEnds \/ DataAborted
             \/ ServerCloses
             \/ \E c \in 0 .. 599 : Answer(c) \/ Refuse(c)

Over == freed /\ UNCHANGED vars

Next == Client \/ FreeRequest \/ Server \/ Over

Spec == Init /\ [][Next]_vars

\* The caller loops until it gets 1 or -1; the server goes on, or gives up.
FairSpec == Spec /\ WF_vars(Client) /\ WF_vars(Server)
----------------------------------------------------------------------------
(* Properties.                                                             *)

\* A completed download has the whole file in its buffer, whichever of the two
\* connections was faster and whatever was lost on either.
FileIsWhole == result = "done" => got = FileSize /\ finallen = FileSize

\* RETR is only sent when the size is known, there is a buffer, and a data
\* connection was made: no sequence of replies leads past EPSV, PASV or SIZE.
TransferIsPrepared ==
    ~freed => /\ stage \in 41 .. 61 => dsock
              /\ stage \in 51 .. 61 => finallen # Unknown /\ dmax > 0

\* The updater never sends a command before the last one was answered, and
\* while one is under way nothing but a 421 can be read: every reply is taken
\* for the answer to the present stage.
OneCommandAtATime ==
    /\ Len(outbox) + Len(heard) <= 1
    /\ Len(outbox) + Len(heard) = 1 /\ stage \in 0 .. 62 =>
          inbox = <<>> \/ Head(inbox) = 421

\* A socket that is open is one the request knows of, and a call that has
\* returned does nothing any more.
SocketsKnown ==
    /\ sock \in BOOLEAN /\ dsock \in BOOLEAN /\ freed \in BOOLEAN /\ ctlOpen \in BOOLEAN
    /\ open \subseteq {"control", "data"}
    /\ "control" \in open => sock
    /\ "data" \in open => dsock
    /\ pc # "call" => result = "wait"
    /\ freed => result # "wait" /\ ~sock /\ ~dsock

\* No socket outlives the request, however it ended.
SocketsReleased == freed => open = {}

\* Every download ends, if a server that hears nothing gives up.
Terminates == (result = "wait") ~> (result # "wait")

\* "The FTP server closed the data connection before the transfer was
\* completed!" (httpftp.c:1304): when that is said, it has.
ClosedBeforeCompleted ==
    [][(stage = 9999 /\ stage' = -20) => ~dataOpen /\ arrived < FileSize]_vars
=============================================================================
