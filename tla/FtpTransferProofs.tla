------------------------- MODULE FtpTransferProofs -------------------------
(***************************************************************************)
(* What an FTP download keeps to, for every file and buffer, all answers   *)
(* to its commands and all failures of the two connections.                *)
(*                                                                         *)
(* FtpInv says whose turn it is: the question that is under way belongs to *)
(* the stage, or its one answer does, and behind that there is no more     *)
(* than the end of the transfer and a 421 (Wire).  From it follows what    *)
(* the stages rely on (Held), since only the answer to SIZE, EPSV, PASV or *)
(* RETR leads past the stage of that command.                              *)
(***************************************************************************)
EXTENDS FtpTransfer, SequenceTheorems, TLAPS

\* Every step keeps each open socket known to the request (httpftp.c), whatever
\* the server answers and however large file and buffer are.
LEMMA SocketsStayKnown == SocketsKnown /\ [Next]_vars => SocketsKnown'
<1> SUFFICES ASSUME SocketsKnown, [Next]_vars PROVE SocketsKnown'
    OBVIOUS
<1> USE DEF SocketsKnown, Calling, call, control, queues, handles, file, server
<1>1. CASE ReceiveReplies
    BY <1>1 DEF ReceiveReplies
<1>2. CASE ControlGone
    <2>1. pc' \in {pc, "replies"} /\ (pc' = pc \/ result' = result) /\ pc = "call" /\ result = "wait"
        BY <1>2 DEF ControlGone
    <2>2. sock' = FALSE /\ dsock' = dsock /\ freed' = freed /\ ctlOpen' = ctlOpen
        BY <1>2 DEF ControlGone
    <2>3. open' \subseteq open \ {"control"}
        BY <1>2 DEF ControlGone
    <2> QED
        BY <2>1, <2>2, <2>3
<1>3. CASE SendCommands
    BY <1>3 DEF SendCommands
<1>13. CASE SendFails
    BY <1>13 DEF SendFails
<1>4. ASSUME NEW c \in 0 .. 599,
             ReplyOpens(c) \/ AddressUnreadable(c) \/ ConnectFails(c) \/ ReplySize(c) \/ ReplyMoves(c)
      PROVE  SocketsKnown'
    <2>1. CASE ReplyOpens(c)
        BY <2>1 DEF ReplyOpens, Reading
    <2>2. CASE AddressUnreadable(c) \/ ConnectFails(c)
        <3>1. pc = "replies" /\ pc' = "call" /\ UNCHANGED <<freed, sock, dsock, open, ctlOpen>>
            BY <2>2 DEF AddressUnreadable, ConnectFails, NoDataConnection, Reading
        <3> QED
            BY <3>1
    <2>3. CASE ReplySize(c)
        BY <2>3 DEF ReplySize, Reading
    <2>4. CASE ReplyMoves(c)
        BY <2>4 DEF ReplyMoves, Reading
    <2> QED
        BY <1>4, <2>1, <2>2, <2>3, <2>4
<1>5. CASE RepliesRead \/ NothingToDo
    <2>1. /\ pc \in {"replies", "act"} /\ pc' \in {"act", "call"}
          /\ UNCHANGED <<result, freed, sock, dsock, open, ctlOpen>>
        BY <1>5 DEF RepliesRead, NothingToDo
    <2> QED
        BY <2>1
<1>6. ASSUME NEW i \in Issues, IssueCommand(i)
      PROVE  SocketsKnown'
    BY <1>6 DEF IssueCommand
<1>7. CASE ReceiveFile \/ FinishFile
    <2>1. pc = "act" /\ pc' = "call" /\ UNCHANGED <<result, freed, sock, ctlOpen>> /\ ReceiveData
        BY <1>7 DEF ReceiveFile, FinishFile
    <2>2. CASE ~dsock
        BY <2>1, <2>2 DEF ReceiveData
    <2>3. CASE dsock
        BY <2>1, <2>3 DEF ReceiveData, SeesClose
    <2> QED
        BY <2>2, <2>3
<1>8. CASE Abort \/ ReturnFailed \/ ReturnComplete
    <2>1. pc = "act" /\ pc' = "call" /\ UNCHANGED <<freed, sock, dsock, open, ctlOpen>>
        BY <1>8 DEF Abort, ReturnFailed, ReturnComplete
    <2> QED
        BY <2>1
<1>9. CASE CloseConnections
    <2>1. pc = "act" /\ pc' = "call" /\ UNCHANGED <<freed, result, ctlOpen>>
        BY <1>9 DEF CloseConnections
    <2>2. sock' = FALSE /\ dsock' = FALSE /\ open' = {}
        BY <1>9 DEF CloseConnections
    <2> QED
        BY <2>1, <2>2
<1>10. CASE FreeRequest
    BY <1>10 DEF FreeRequest
<1>11. CASE Server
    <2>1. UNCHANGED client /\ ctlOpen' \in BOOLEAN
        BY <1>11 DEF Server, Answer, Refuse, SplitAnswer, Transferred, DataArrives, DataEnds,
                     DataAborted, ServerCloses
    <2> QED
        BY <2>1 DEF client
<1>12. CASE UNCHANGED vars
    BY <1>12 DEF vars
<1> QED
    BY <1>1, <1>2, <1>3, <1>4, <1>5, <1>6, <1>7, <1>8, <1>9, <1>10, <1>11, <1>12, <1>13
       DEF Next, Client, Over

\* However a download ends, and whatever failed before, both sockets are closed
\* when the request is freed (FT_FreeRequest, httpftp.c:29).
THEOREM SocketsAreReleased == Spec => []SocketsReleased
<1>1. Init => SocketsKnown
    BY DEF Init, SocketsKnown
<1>2. SocketsKnown => SocketsReleased
    BY DEF SocketsKnown, SocketsReleased
<1> QED
    BY <1>1, <1>2, SocketsStayKnown, PTL DEF Spec
----------------------------------------------------------------------------
(* The dialogue.  At each moment the two connections and the two buffers   *)
(* hold at most one question or the one answer to it, then perhaps the end *)
(* of the transfer (226 or 250), then perhaps 421.                         *)

Code == 0 .. 599

\* The stage at which the answer to command c is awaited.
Awaits(s, c) ==
    \/ s = 0  /\ c = "CONNECT"
    \/ s = 10 /\ c = "USER"
    \/ s \in {12, 20} /\ c = "PASS"
    \/ s = 16 /\ c = "ACCT"
    \/ s = 30 /\ c = "TYPE"
    \/ s = 32 /\ c = "EPSV"
    \/ s = 36 /\ c = "PASV"
    \/ s = 50 /\ c = "SIZE"
    \/ s = 60 /\ c = "RETR"

\* The answers that stage s can get.
AnswerAt(s, r) ==
    \/ s = 0  /\ r \in {0, 220, 120}
    \/ s = 10 /\ r \in {0, 230, 331, 332, 530}
    \/ s \in {12, 20} /\ r \in {0, 230, 202, 332, 530}
    \/ s = 16 /\ r \in {0, 230, 202, 331, 530}
    \/ s = 30 /\ r \in {0, 200, 504}
    \/ s = 32 /\ r \in {0, 229, 500, 421}
    \/ s = 36 /\ r \in {0, 227, 502}
    \/ s = 50 /\ r \in {0, 213, 550}
    \/ s = 60 /\ r \in {0, 125, 150, 550}

Stages == {0, 1, 10, 11, 12, 15, 16, 17, 20, 21, 30, 31, 32, 35, 36, 41, 50, 51, 60, 61, 62,
           9999, 10000, 10001}

Finals == {226, 250}
NoFinal(s)    == \A i \in 1 .. Len(s) : s[i] \notin Finals
OneFinal(s)   == \A i, j \in 1 .. Len(s) : s[i] \in Finals /\ s[j] \in Finals => i = j
AllLate(s, k) == \A i \in 1 .. Len(s) : i >= k => s[i] \in Finals \/ (s[i] = 421 /\ ~ctlOpen)

NoCommand == outbox = <<>> /\ heard = <<>>

\* A question is under way.
Asked ==
    /\ \/ outbox = <<>> /\ Len(heard) = 1 /\ Awaits(stage, heard[1])
       \/ heard = <<>> /\ Len(outbox) = 1 /\ Awaits(stage, outbox[1])
    /\ AllLate(inbox, 1) /\ AllLate(ctl, 1)
    /\ NoFinal(inbox) /\ NoFinal(ctl) /\ sending = "no"

\* Its answer is.
Answered ==
    /\ NoCommand
    /\ \/ /\ inbox # <<>> /\ AnswerAt(stage, inbox[1])
          /\ AllLate(inbox, 2) /\ AllLate(ctl, 1)
       \/ inbox = <<>> /\ ctl # <<>> /\ AnswerAt(stage, ctl[1]) /\ AllLate(ctl, 2)

\* Neither; only QUIT may wait to be sent.
Idle ==
    /\ stage \in Stages
    /\ NoCommand \/ (stage \in {10000, 10001} /\ heard = <<>> /\ Len(outbox) = 1)
    /\ AllLate(inbox, 1) /\ AllLate(ctl, 1)

Failed ==
    \/ stage = -20 /\ NoCommand
    \/ stage = -1 /\ Len(heard) + Len(outbox) <= 1

\* The end of the transfer is told once, when the server has been asked for the
\* file, and a stage that it would lead astray is only reached after it.
Finality ==
    /\ ~NoFinal(inbox) \/ ~NoFinal(ctl) => sending = "all"
    /\ OneFinal(inbox) /\ OneFinal(ctl) /\ (NoFinal(inbox) \/ NoFinal(ctl))
    /\ sending # "no" => stage >= 60
    /\ stage = 62 \/ (stage = 9999 /\ got # finallen) =>
          sending = "all" /\ NoFinal(inbox) /\ NoFinal(ctl)
    /\ stage = 10001 => NoFinal(inbox) /\ (sock => sending = "all" /\ NoFinal(ctl))

Wire == Failed \/ (Finality /\ (Asked \/ Answered \/ Idle))

\* Replies are read to the last before the switch.
Read == pc = "act" \/ (pc = "call" /\ result = "wait") => inbox = <<>>

\* What each stage relies on.
Held ==
    /\ stage \in {51, 60, 61, 62, 9999, 10000, 10001} => finallen = FileSize /\ dmax > 0
    /\ stage \in {10000, 10001} => got = finallen
    /\ result = "done" => stage = 10001
    /\ ~freed /\ stage \in {41, 50, 51, 60, 61, 62} => dsock

\* TypeOK, but for the stage, which only Wire bounds.
Typed ==
    /\ pc \in {"call", "replies", "act"} /\ result \in {"wait", "done", "fail"}
    /\ code \in Code /\ inbox \in Seq(Code) /\ outbox \in Seq(Commands)
    /\ open \subseteq {"control", "data"}
    /\ finallen \in {Unknown, FileSize} /\ dmax \in Nat /\ got \in 0 .. arrived /\ got <= dmax
    /\ heard \in Seq(Commands) /\ ctl \in Seq(Code)
    /\ sending \in {"no", "yes", "all"} /\ arrived \in 0 .. FileSize
    /\ freed \in BOOLEAN /\ sock \in BOOLEAN /\ dsock \in BOOLEAN
    /\ ctlOpen \in BOOLEAN /\ dataOpen \in BOOLEAN /\ broken \in BOOLEAN
    /\ dmax > 0 => finallen = FileSize

FtpInv == SocketsKnown /\ Typed /\ Read /\ Wire /\ Held
----------------------------------------------------------------------------
(* Sequences.                                                              *)

LEMMA HeadIsFirst ==
    ASSUME NEW S, NEW s \in Seq(S), s # <<>>
    PROVE  Head(s) = s[1] /\ Head(s) \in S /\ Len(s) \in Nat /\ Len(s) > 0
    BY EmptySeq, HeadTailProperties

LEMMA AppendIs ==
    ASSUME NEW S, NEW s \in Seq(S), NEW x \in S
    PROVE  /\ Append(s, x) \in Seq(S) /\ Len(Append(s, x)) = Len(s) + 1
           /\ Append(s, x) # <<>>
           /\ \A i \in 1 .. Len(s) + 1 : Append(s, x)[i] = IF i = Len(s) + 1 THEN x ELSE s[i]
    BY AppendProperties

LEMMA LengthIsNat == ASSUME NEW S, NEW s \in Seq(S) PROVE Len(s) \in Nat
    BY LenProperties

LEMMA NoneIsEmpty == ASSUME NEW S, NEW s \in Seq(S), Len(s) = 0 PROVE s = <<>>
    BY EmptySeq
----------------------------------------------------------------------------
(* What a reply does to the stage.                                         *)

MoveKinds(c, s, t) ==
    \/ c = 220 /\ s = 0 /\ t = 1
    \/ c = 202 /\ s \in 11 .. 20 /\ t = 21
    \/ c = 331 /\ s = 10 /\ t = 11
    \/ c = 331 /\ s = 16 /\ t = 17
    \/ c = 332 /\ s \in {10, 12} /\ t = 15
    \/ c = 230 /\ s \in 0 .. 20 /\ t = 21
    \/ c \in {125, 150} /\ s = 60 /\ t = 61
    \/ c = 226 /\ s \in 0 .. 62 /\ t = 9999
    \/ c = 221 /\ s \in 0 .. 9999 /\ t = -1
    \/ c = 421 /\ s \in 0 .. 10001 /\ t = -1
    \/ c \in {231, 350} /\ s \in 0 .. 9999 /\ t = -20
    \/ c \in {500, 501, 502, 503} /\ s = 32 /\ t = 35

LEMMA MovesAre ==
    ASSUME NEW m \in Moves, NEW c \in m.codes, NEW s \in m.from
    PROVE  MoveKinds(c, s, m.to)
<1>1. CASE m = Move({220}, {0}, 1)
    BY <1>1 DEF Move, MoveKinds
<1>2. CASE m = Move({202}, 11 .. 20, 21)
    BY <1>2 DEF Move, MoveKinds
<1>3. CASE m = Move({331}, {10}, 11)
    BY <1>3 DEF Move, MoveKinds
<1>4. CASE m = Move({331}, {16}, 17)
    BY <1>4 DEF Move, MoveKinds
<1>5. CASE m = Move({332}, {10, 12}, 15)
    BY <1>5 DEF Move, MoveKinds
<1>6. CASE m = Move({230}, 0 .. 20, 21)
    BY <1>6 DEF Move, MoveKinds
<1>7. CASE m = Move({125, 150}, {60}, 61)
    BY <1>7 DEF Move, MoveKinds
<1>8. CASE m = Move({226}, 0 .. 62, 9999)
    BY <1>8 DEF Move, MoveKinds
<1>9. CASE m = Move({221}, 0 .. 9999, -1)
    BY <1>9, SMTT(20) DEF Move, MoveKinds
<1>10. CASE m = Move({421}, 0 .. 10001, -1)
    BY <1>10, SMTT(20) DEF Move, MoveKinds
<1>11. CASE m = Move({231, 350}, 0 .. 9999, -20)
    BY <1>11, SMTT(20) DEF Move, MoveKinds
<1>12. CASE m = Move({500, 501, 502, 503}, {32}, 35)
    BY <1>12 DEF Move, MoveKinds
<1> QED
    BY <1>1, <1>2, <1>3, <1>4, <1>5, <1>6, <1>7, <1>8, <1>9, <1>10, <1>11, <1>12 DEF Moves

\* The rule for a reply that moves nothing.
Otherwise(c) == IF c \in PassedOver THEN stage
                ELSE IF Fatal(c) THEN -20
                ELSE IF c \in 200 .. 299 /\ stage >= 30 THEN stage + 1 ELSE stage

LEMMA ReactionIs ==
    ASSUME NEW c, NEW T,
           \A m \in Moves : c \in m.codes /\ stage \in m.from => m.to \in T,
           Otherwise(c) \in T \/ \E m \in Moves : c \in m.codes /\ stage \in m.from
    PROVE  Reaction(c) \in T
<1>1. CASE \E m \in Moves : c \in m.codes /\ stage \in m.from
    <2>1. Reaction(c) = (CHOOSE m \in Moves : c \in m.codes /\ stage \in m.from).to
        BY <1>1 DEF Reaction
    <2> QED
        BY <2>1, <1>1
<1>2. CASE ~ \E m \in Moves : c \in m.codes /\ stage \in m.from
    BY <1>2 DEF Reaction, Otherwise
<1> QED
    BY <1>1, <1>2

\* An answer leads to the next question's stage, or nowhere, or to the end.
AfterAnswer == IF stage = 60 THEN {-20, 60, 61}
                             ELSE {-20, -1, 1, 11, 15, 17, 21, 31, 35, stage}

LEMMA ReactionToAnswer ==
    ASSUME NEW c \in Code, AnswerAt(stage, c), ~Opens(c), ~TellsSize(c)
    PROVE  Reaction(c) \in AfterAnswer
<1>1. ASSUME NEW m \in Moves, c \in m.codes, stage \in m.from
      PROVE  m.to \in AfterAnswer
    <2>1. MoveKinds(c, stage, m.to)
        BY <1>1, MovesAre
    <2> QED
        BY <1>1, <2>1, SMTT(20) DEF AnswerAt, Code, MoveKinds, AfterAnswer
<1>2. Otherwise(c) \in AfterAnswer
    BY DEF AnswerAt, Opens, TellsSize, PassedOver, Fatal, Code, Otherwise, AfterAnswer
<1> QED
    BY <1>1, <1>2, ReactionIs

LEMMA ReactionTo421 == ASSUME stage \in 0 .. 10001 PROVE Reaction(421) = -1
<1> DEFINE T  == {-1}
           mv == Move({421}, 0 .. 10001, -1)
<1>1. ASSUME NEW m \in Moves, 421 \in m.codes, stage \in m.from
      PROVE  m.to \in T
    <2>1. MoveKinds(421, stage, m.to)
        BY <1>1, MovesAre
    <2> QED
        BY <1>1, <2>1 DEF MoveKinds
<1>2. mv \in Moves /\ 421 \in mv.codes /\ stage \in mv.from
    BY DEF Moves, Move
<1> HIDE DEF T, mv
<1>3. Reaction(421) \in T
    BY <1>1, <1>2, ReactionIs
<1> QED
    BY <1>3 DEF T

LEMMA ReactionTo226 ==
    ASSUME stage \in Stages
    PROVE  Reaction(226) \in {stage} \cup IF stage < 9999 THEN {9999} ELSE {}
<1> DEFINE T == {stage} \cup IF stage < 9999 THEN {9999} ELSE {}
<1>1. ASSUME NEW m \in Moves, 226 \in m.codes, stage \in m.from
      PROVE  m.to \in T
    <2>1. MoveKinds(226, stage, m.to)
        BY <1>1, MovesAre
    <2> QED
        BY <1>1, <2>1 DEF MoveKinds
<1>2. Otherwise(226) \in T
    BY DEF PassedOver, Otherwise
<1> HIDE DEF T
<1>3. Reaction(226) \in T
    BY <1>1, <1>2, ReactionIs
<1> QED
    BY <1>3 DEF T

LEMMA ReactionTo250 == ASSUME stage \in Stages, stage >= 30 PROVE Reaction(250) = stage + 1
<1> DEFINE T == {stage + 1}
<1>1. ASSUME NEW m \in Moves, 250 \in m.codes, stage \in m.from
      PROVE  m.to \in T
    <2>1. MoveKinds(250, stage, m.to)
        BY <1>1, MovesAre
    <2> QED
        BY <1>1, <2>1 DEF MoveKinds
<1>2. Otherwise(250) \in T
    BY DEF PassedOver, Fatal, Otherwise
<1> HIDE DEF T
<1>3. Reaction(250) \in T
    BY <1>1, <1>2, ReactionIs
<1> QED
    BY <1>3 DEF T
----------------------------------------------------------------------------
(* Every step keeps the dialogue in order.                                 *)

wire == <<stage, outbox, heard, inbox, ctl, sending, ctlOpen>>

LEMMA WireSame ==
    ASSUME Wire, UNCHANGED wire, sock' => sock,
           stage = 9999 => got' = got /\ finallen' = finallen
    PROVE  Wire'
<1>1. Failed => Failed'
    BY DEF Failed, NoCommand, wire
<1>2. Finality => Finality'
    BY DEF Finality, NoFinal, OneFinal, wire
<1>3. Asked \/ Answered \/ Idle => (Asked \/ Answered \/ Idle)'
    BY DEF Asked, Answered, Idle, NoCommand, AllLate, NoFinal, wire
<1> QED
    BY <1>1, <1>2, <1>3 DEF Wire

LEMMA WireReceives ==
    ASSUME Wire, Typed, inbox = <<>>, inbox' = ctl, ctl' = <<>>, sock,
           UNCHANGED <<stage, outbox, heard, sending, ctlOpen, got, finallen>>
    PROVE  Wire'
<1> Len(ctl') = 0 /\ Len(inbox) = 0
    OBVIOUS
<1>1. Failed => Failed'
    BY DEF Failed, NoCommand
<1>2. Finality => Finality'
    BY DEF Finality, NoFinal, OneFinal
<1>3. Asked => Asked'
    BY DEF Asked, AllLate, NoFinal
<1>4. Answered => Answered'
    BY DEF Answered, AllLate, NoCommand
<1>5. Idle => Idle'
    BY DEF Idle, AllLate, NoCommand
<1> QED
    BY <1>1, <1>2, <1>3, <1>4, <1>5 DEF Wire

LEMMA WireSends ==
    ASSUME Wire, Typed,
           IF stage < 9999 THEN heard' = heard \o outbox /\ outbox' = <<>>
                           ELSE UNCHANGED <<heard, outbox>>,
           UNCHANGED <<stage, inbox, ctl, sending, ctlOpen, sock, got, finallen>>
    PROVE  Wire'
<1> USE DEF Typed
<1>1. CASE outbox = <<>> \/ ~(stage < 9999)
    <2>1. heard \o <<>> = heard
        BY ConcatEmptySeq
    <2>2. UNCHANGED <<heard, outbox>>
        BY <1>1, <2>1
    <2>3. UNCHANGED wire
        BY <2>2 DEF wire
    <2> QED
        BY <2>3, WireSame
<1>2. ASSUME outbox # <<>>, stage < 9999, Failed PROVE Failed'
    <2>1. stage = -1 /\ Len(heard) + Len(outbox) <= 1
        BY <1>2 DEF Failed, NoCommand
    <2>2. Len(heard') = Len(heard) + Len(outbox) /\ Len(outbox') = 0
        BY <2>1, ConcatProperties
    <2> QED
        BY <2>1, <2>2 DEF Failed
<1>3. ASSUME outbox # <<>>, stage < 9999, Finality, Asked \/ Answered \/ Idle PROVE Wire'
    <2>1. Asked /\ heard = <<>>
        BY <1>3 DEF Asked, Answered, Idle, NoCommand
    <2>2. <<>> \o outbox = outbox
        BY ConcatEmptySeq
    <2>3. heard' = outbox /\ outbox' = <<>>
        BY <1>3, <2>1, <2>2
    <2>4. Asked'
        BY <2>1, <2>3 DEF Asked, AllLate, NoFinal
    <2>5. Finality'
        BY <1>3 DEF Finality, NoFinal, OneFinal
    <2> QED
        BY <2>4, <2>5 DEF Wire
<1> QED
    BY <1>1, <1>2, <1>3 DEF Wire

\* A step that reads reply c, whatever that does to the stage.
Reads(c) ==
    /\ c \in Code /\ inbox # <<>> /\ c = inbox[1]
    /\ inbox' \in Seq(Code) /\ Len(inbox') = Len(inbox) - 1
    /\ \A i \in 1 .. Len(inbox') : inbox'[i] = inbox[i + 1]
    /\ UNCHANGED <<outbox, heard, ctl, sending, ctlOpen>>
    /\ sock' => sock

LEMMA ReadsIs ==
    ASSUME Typed, NEW c \in Code, Reading(c),
           UNCHANGED <<outbox, heard, ctl, sending, ctlOpen>>, sock' => sock
    PROVE  Reads(c)
    BY HeadIsFirst, HeadTailProperties DEF Typed, Reading, Reads

LEMMA ReadsShifts ==
    ASSUME Typed, NEW c, Reads(c)
    PROVE  /\ Len(inbox) \in Nat /\ Len(inbox) >= 1 /\ Len(inbox') \in Nat
           /\ AllLate(inbox, 1) \/ AllLate(inbox, 2) => AllLate(inbox, 1)'
           /\ AllLate(ctl, 1) => AllLate(ctl, 1)'
           /\ NoFinal(inbox) => NoFinal(inbox)'
           /\ NoFinal(ctl) => NoFinal(ctl)'
           /\ OneFinal(inbox) => OneFinal(inbox)'
           /\ OneFinal(ctl) => OneFinal(ctl)'
           /\ OneFinal(inbox) /\ c \in Finals => NoFinal(inbox)'
           /\ c \in Finals => ~NoFinal(inbox)
<1>1. Len(inbox) \in Nat /\ Len(inbox) >= 1 /\ Len(inbox') \in Nat
    BY HeadIsFirst, LengthIsNat DEF Typed, Reads
<1>2. AllLate(inbox, 1) \/ AllLate(inbox, 2) => AllLate(inbox, 1)'
    BY <1>1 DEF AllLate, Reads
<1>3. AllLate(ctl, 1) => AllLate(ctl, 1)'
    BY DEF AllLate, Reads
<1>4. NoFinal(inbox) => NoFinal(inbox)'
    BY <1>1 DEF NoFinal, Reads
<1>5. ASSUME OneFinal(inbox) PROVE OneFinal(inbox)'
    <2> SUFFICES ASSUME NEW i \in 1 .. Len(inbox'), NEW j \in 1 .. Len(inbox'),
                        inbox'[i] \in Finals, inbox'[j] \in Finals
                 PROVE  i = j
        BY DEF OneFinal
    <2>1. i + 1 \in 1 .. Len(inbox) /\ j + 1 \in 1 .. Len(inbox)
        BY <1>1 DEF Reads
    <2>2. inbox[i + 1] \in Finals /\ inbox[j + 1] \in Finals
        BY DEF Reads
    <2>3. i + 1 = j + 1
        BY <1>5, <2>1, <2>2 DEF OneFinal
    <2> QED
        BY <1>1, <2>3
<1>6. (NoFinal(ctl) => NoFinal(ctl)') /\ (OneFinal(ctl) => OneFinal(ctl)')
    BY DEF NoFinal, OneFinal, Reads
<1>7. ASSUME OneFinal(inbox), c \in Finals PROVE NoFinal(inbox)'
    BY <1>1, <1>7 DEF NoFinal, OneFinal, Reads
<1>8. c \in Finals => ~NoFinal(inbox)
    BY <1>1 DEF NoFinal, Reads
<1> QED
    BY <1>1, <1>2, <1>3, <1>4, <1>5, <1>6, <1>7, <1>8

\* The answer to a question is followed by no other before the next question.
LEMMA WireReadsAnswer ==
    ASSUME Wire, Typed, NEW c, Reads(c), Answered,
           stage' \in AfterAnswer \/ (stage' \in {41, 51} /\ stage < 60),
           UNCHANGED <<got, finallen>> \/ stage < 60
    PROVE  Wire'
<1>1. /\ NoCommand /\ AnswerAt(stage, c) /\ AllLate(inbox, 2) /\ AllLate(ctl, 1)
      /\ stage \in {0, 10, 12, 16, 20, 30, 32, 36, 50, 60}
    BY DEF Answered, Reads, AnswerAt
<1>2. Finality
    BY <1>1 DEF Wire, Failed
<1>3. stage' \in {-20, -1} => Failed'
    BY <1>1 DEF Failed, NoCommand, Reads
<1>4. ASSUME stage' \notin {-20, -1} PROVE Idle'
    <2>1. stage' \in Stages
        BY <1>1, <1>4 DEF AfterAnswer, Stages
    <2>2. NoCommand'
        BY <1>1 DEF NoCommand, Reads
    <2> QED
        BY <1>1, <2>1, <2>2, ReadsShifts DEF Idle
<1>5. ASSUME stage' \notin {-20, -1} PROVE Finality'
    <2>1. stage' < 62 /\ (stage >= 60 => stage' >= 60) /\ stage' \in Int
        BY <1>1, <1>5 DEF AfterAnswer
    <2>2. sending' = sending
        BY DEF Reads
    <2> QED
        BY <1>1, <1>2, <2>1, <2>2, ReadsShifts DEF Finality
<1> QED
    BY <1>3, <1>4, <1>5 DEF Wire

\* What comes late is the end of the transfer, or 421.
LEMMA WireReadsLate ==
    ASSUME Wire, Typed, NEW c, Reads(c), Asked \/ Idle, Finality,
           stage' = Reaction(c), UNCHANGED <<got, finallen>>
    PROVE  /\ Wire'
           /\ \/ stage' = -1
              \/ /\ stage \in {60, 61, 9999, 10000}
                 /\ stage' \in {60, 61, 62, 9999, 10000, 10001}
                 /\ stage = 60 => stage' \in {60, 61, 9999}
                 /\ stage' = 10000 /\ stage # 10000 => got = finallen
                 /\ stage' = 10001 => stage = 10000
                 /\ stage \in {9999, 10000} => stage' >= 9999
<1>1. stage \in Stages /\ AllLate(inbox, 1) /\ AllLate(ctl, 1)
    BY DEF Asked, Idle, Awaits, Stages
<1>2. Len(inbox) \in Nat /\ Len(inbox) >= 1
    BY ReadsShifts
<1>3. c \in Finals \cup {421}
    BY <1>1, <1>2 DEF AllLate, Reads
<1>4. CASE c = 421
    <2>1. stage' = -1
        BY <1>1, <1>4, ReactionTo421 DEF Stages
    <2>2. Len(heard) + Len(outbox) <= 1
        <3>1. heard = <<>> => Len(heard) = 0
            OBVIOUS
        <3>2. outbox = <<>> => Len(outbox) = 0
            OBVIOUS
        <3>3. \/ heard = <<>> /\ outbox = <<>>
              \/ heard = <<>> /\ Len(outbox) = 1
              \/ outbox = <<>> /\ Len(heard) = 1
            BY DEF Asked, Idle, NoCommand
        <3>4. Len(heard) \in Nat /\ Len(outbox) \in Nat
            BY LengthIsNat DEF Typed
        <3> QED
            BY <3>1, <3>2, <3>3, <3>4
    <2> QED
        BY <2>1, <2>2 DEF Wire, Failed, Reads
<1>5. CASE c \in Finals
    <2>1. ~NoFinal(inbox) /\ sending = "all" /\ stage >= 60 /\ stage # 62 /\ stage # 10001
        BY <1>5, ReadsShifts DEF Finality
    <2>2. Idle
        BY <2>1 DEF Asked
    <2>3. stage \in {60, 61, 9999, 10000} /\ (stage = 9999 => got = finallen)
        BY <1>1, <2>1 DEF Stages, Finality
    <2>4. \/ c = 226 /\ stage' \in {stage} \cup IF stage < 9999 THEN {9999} ELSE {}
          \/ c = 250 /\ stage' = stage + 1
        <3>1. CASE c = 226
            BY <1>1, <3>1, ReactionTo226
        <3>2. CASE c = 250
            BY <1>1, <2>3, <3>2, ReactionTo250
        <3> QED
            BY <1>5, <3>1, <3>2 DEF Finals
    <2>5. /\ stage' \in {60, 61, 62, 9999, 10000, 10001}
          /\ stage = 60 => stage' \in {60, 61, 9999}
          /\ stage' = 10000 /\ stage # 10000 => got = finallen
          /\ stage' = 10001 => stage = 10000
          /\ stage \in {9999, 10000} => stage' \in {9999, 10000, 10001}
          /\ stage = 10000 => stage' \in {10000, 10001}
        BY <2>3, <2>4
    <2>6. NoFinal(inbox)' /\ NoFinal(ctl)' /\ OneFinal(inbox)' /\ OneFinal(ctl)' /\ sending' = "all"
        BY <1>5, <2>1, ReadsShifts DEF Finality, Reads
    <2>7. Finality'
        BY <2>5, <2>6 DEF Finality
    <2>8. Idle'
        <3>1. AllLate(inbox, 1)' /\ AllLate(ctl, 1)' /\ stage' \in Stages
            BY <1>1, <2>5, ReadsShifts DEF Stages
        <3>2. (NoCommand \/ (stage \in {10000, 10001} /\ heard = <<>> /\ Len(outbox) = 1))'
            BY <2>2, <2>3, <2>5 DEF Idle, NoCommand, Reads
        <3> QED
            BY <3>1, <3>2 DEF Idle
    <2> QED
        BY <2>3, <2>5, <2>7, <2>8 DEF Wire
<1> QED
    BY <1>3, <1>4, <1>5

LEMMA WireReadsFailed ==
    ASSUME Failed, NEW c, Reads(c), stage' = stage
    PROVE  Wire'
    BY DEF Failed, NoCommand, Wire, Reads

\* The next question is put when the last one was answered.
LEMMA WireIssues ==
    ASSUME Wire, Typed, inbox = <<>>, NEW i \in Issues, IssueCommand(i)
    PROVE  Wire'
<1>1. /\ stage = i[1] /\ stage' = i[3] /\ outbox' = Append(outbox, i[2])
      /\ UNCHANGED <<inbox, heard, ctl, ctlOpen, sending, sock, got, finallen>>
    BY DEF IssueCommand, AddData, handles, file, server
<1>2. /\ stage \in {1, 11, 15, 17, 21, 31, 35, 41, 51} /\ i[2] \in Commands
      /\ Awaits(stage', i[2]) /\ stage' \in {10, 12, 16, 20, 30, 32, 36, 50, 60}
    BY <1>1 DEF Issues, Awaits, Commands
<1>3. Finality /\ Idle /\ NoCommand
    BY <1>2 DEF Wire, Failed, Asked, Answered, Idle, Awaits, AnswerAt
<1>4. sending = "no" /\ NoFinal(inbox) /\ NoFinal(ctl)
    BY <1>2, <1>3 DEF Finality, Typed
<1>5. Len(outbox') = 1 /\ outbox'[1] = i[2]
    <2>1. outbox = <<>> /\ outbox \in Seq(Commands) /\ Len(outbox) = 0
        BY <1>3 DEF NoCommand, Typed
    <2> QED
        BY <1>1, <1>2, <2>1, AppendIs
<1>6. Asked'
    BY <1>1, <1>2, <1>3, <1>4, <1>5 DEF Asked, Idle, NoCommand, AllLate, NoFinal
<1>7. Finality'
    <2>1. NoFinal(inbox)' /\ NoFinal(ctl)'
        BY <1>1, <1>4 DEF NoFinal
    <2>2. OneFinal(inbox)' /\ OneFinal(ctl)'
        BY <2>1 DEF NoFinal, OneFinal
    <2> QED
        BY <1>1, <1>2, <1>4, <2>1, <2>2, SMTT(20) DEF Finality
<1> QED
    BY <1>6, <1>7 DEF Wire

\* The stages from 61 on have nothing to ask.
LEMMA WireActs ==
    ASSUME Wire, Typed, inbox = <<>>, stage \in {61, 9999, 10000}, sock' => sock,
           UNCHANGED <<inbox, heard, ctl, ctlOpen, sending>>,
           \/ stage = 61 /\ UNCHANGED outbox /\ stage' \in {-20, 61, 9999}
           \/ stage = 9999 /\ UNCHANGED outbox /\ stage' = -20
           \/ stage = 9999 /\ outbox' = Append(outbox, "QUIT") /\ stage' = 10000
           \/ stage = 10000 /\ UNCHANGED outbox /\ stage' \in {-1, 10001},
           stage' = 9999 => got' = finallen',
           stage' = 10001 => ~sock'
    PROVE  Wire'
<1>1. Finality /\ Idle /\ (stage # 10000 => NoCommand)
    BY DEF Wire, Failed, Asked, Answered, Idle, Awaits, AnswerAt
<1>2. heard = <<>> /\ Len(outbox) \in Nat /\ Len(outbox) <= 1 /\ Len(heard) = 0
    <2>1. Len(outbox) \in Nat
        BY LengthIsNat DEF Typed
    <2>2. heard = <<>> /\ (outbox = <<>> \/ Len(outbox) = 1)
        BY <1>1 DEF Idle, NoCommand
    <2>3. CASE outbox = <<>>
        BY <2>2, <2>3
    <2>4. CASE Len(outbox) = 1
        BY <2>2, <2>4
    <2> QED
        BY <2>2, <2>3, <2>4
<1>3. CASE stage' < 0
    <2>1. Failed'
        <3>1. stage' = -20 => NoCommand'
            BY <1>1, <1>3 DEF NoCommand
        <3>2. stage' = -1 => Len(heard') + Len(outbox') <= 1
            <4>1. heard' = heard /\ outbox' = outbox
                BY <1>3
            <4> QED
                BY <1>2, <4>1
        <3> QED
            BY <1>3, <3>1, <3>2 DEF Failed
    <2> QED
        BY <2>1 DEF Wire
<1>4. CASE stage' \in {61, 9999, 10000, 10001}
    <2>1. Finality'
        <3>1. NoFinal(inbox)
            BY DEF NoFinal
        <3>2. UNCHANGED <<inbox, ctl, sending>>
            OBVIOUS
        <3>3. stage' # 62 /\ stage' >= 60
            BY <1>4
        <3> QED
            BY <1>1, <3>1, <3>2, <3>3 DEF Finality, NoFinal, OneFinal
    <2>2. (NoCommand \/ (stage \in {10000, 10001} /\ heard = <<>> /\ Len(outbox) = 1))'
        <3>1. CASE outbox' = outbox /\ stage # 10000
            BY <1>1, <3>1 DEF NoCommand
        <3>2. CASE outbox' = outbox /\ stage = 10000
            BY <1>1, <1>2, <1>4, <3>2 DEF NoCommand, Idle
        <3>3. CASE outbox' = Append(outbox, "QUIT") /\ stage = 9999
            <4>1. outbox \in Seq(Commands) /\ Len(outbox) = 0 /\ "QUIT" \in Commands
                BY <1>1, <3>3 DEF NoCommand, Typed, Commands
            <4>2. Len(outbox') = 1
                BY <3>3, <4>1, AppendIs
            <4> QED
                BY <1>2, <1>4, <3>3, <4>2
        <3> QED
            BY <3>1, <3>2, <3>3
    <2>3. Idle'
        BY <1>1, <1>4, <2>2 DEF Idle, AllLate, Stages
    <2> QED
        BY <2>1, <2>3 DEF Wire
<1> QED
    BY <1>3, <1>4

LEMMA WireAborts ==
    ASSUME Wire, Typed, stage = -20, stage' = -1, UNCHANGED heard,
           outbox' = Append(outbox, "QUIT") \/ outbox' = outbox
    PROVE  Wire'
<1>1. outbox = <<>> /\ heard = <<>> /\ Len(outbox) = 0 /\ Len(heard) = 0
    BY DEF Wire, Failed, Asked, Answered, Idle, Awaits, AnswerAt, Stages, NoCommand
<1>2. Len(outbox') <= 1
    <2>1. outbox \in Seq(Commands) /\ "QUIT" \in Commands
        BY DEF Typed, Commands
    <2> QED
        BY <1>1, <2>1, AppendIs
<1>3. Failed'
    <2>1. Len(outbox') \in Nat
        <3>1. outbox \in Seq(Commands) /\ "QUIT" \in Commands
            BY DEF Typed, Commands
        <3> QED
            BY <1>1, <3>1, AppendIs
    <2> QED
        BY <1>1, <1>2, <2>1 DEF Failed
<1> QED
    BY <1>3 DEF Wire
----------------------------------------------------------------------------
(* The server's side of it.                                                *)

\* A step by which the server answers its first question with c.
Answering(c) ==
    /\ heard # <<>> /\ ctlOpen /\ ctl' = Append(ctl, c) /\ heard' = Tail(heard)
    /\ c \in {0} \cup Answers[Head(heard)] \cup Refusals[Head(heard)]
    /\ sending' = sending \/ (sending' = "yes" /\ Head(heard) = "RETR")
    /\ UNCHANGED <<client, ctlOpen>>

LEMMA AnswersFit ==
    ASSUME NEW s, NEW q, Awaits(s, q), NEW c \in {0} \cup Answers[q] \cup Refusals[q]
    PROVE  AnswerAt(s, c) /\ c \in Code
<1>1. CASE q = "CONNECT"
    <2>1. c \in {0, 220, 120} /\ s = 0
        BY <1>1 DEF Awaits, Answers, Refusals
    <2> QED
        BY <2>1 DEF AnswerAt, Code
<1>2. CASE q = "USER"
    <2>1. c \in {0, 230, 331, 332, 530} /\ s = 10
        BY <1>2 DEF Awaits, Answers, Refusals
    <2> QED
        BY <2>1 DEF AnswerAt, Code
<1>3. CASE q = "PASS"
    <2>1. c \in {0, 230, 202, 332, 530} /\ s \in {12, 20}
        BY <1>3 DEF Awaits, Answers, Refusals
    <2> QED
        BY <2>1 DEF AnswerAt, Code
<1>4. CASE q = "ACCT"
    <2>1. c \in {0, 230, 202, 331, 530} /\ s = 16
        BY <1>4 DEF Awaits, Answers, Refusals
    <2> QED
        BY <2>1 DEF AnswerAt, Code
<1>5. CASE q = "TYPE"
    <2>1. c \in {0, 200, 504} /\ s = 30
        BY <1>5 DEF Awaits, Answers, Refusals
    <2> QED
        BY <2>1 DEF AnswerAt, Code
<1>6. CASE q = "EPSV"
    <2>1. c \in {0, 229, 500, 421} /\ s = 32
        BY <1>6 DEF Awaits, Answers, Refusals
    <2> QED
        BY <2>1 DEF AnswerAt, Code
<1>7. CASE q = "PASV"
    <2>1. c \in {0, 227, 502} /\ s = 36
        BY <1>7 DEF Awaits, Answers, Refusals
    <2> QED
        BY <2>1 DEF AnswerAt, Code
<1>8. CASE q = "SIZE"
    <2>1. c \in {0, 213, 550} /\ s = 50
        BY <1>8 DEF Awaits, Answers, Refusals
    <2> QED
        BY <2>1 DEF AnswerAt, Code
<1>9. CASE q = "RETR"
    <2>1. c \in {0, 125, 150, 550} /\ s = 60
        BY <1>9 DEF Awaits, Answers, Refusals
    <2> QED
        BY <2>1 DEF AnswerAt, Code
<1> QED
    BY <1>1, <1>2, <1>3, <1>4, <1>5, <1>6, <1>7, <1>8, <1>9 DEF Awaits

LEMMA WireAnswers ==
    ASSUME Wire, Typed, NEW c \in Code, Answering(c)
    PROVE  Wire'
<1>1. heard \in Seq(Commands) /\ ctl \in Seq(Code) /\ inbox \in Seq(Code) /\ Len(inbox) \in Nat
    BY LengthIsNat DEF Typed
<1>2. /\ Head(heard) = heard[1] /\ Len(heard) \in Nat /\ Len(heard) > 0
      /\ Len(heard') = Len(heard) - 1 /\ heard' \in Seq(Commands)
    BY <1>1, HeadIsFirst, HeadTailProperties DEF Answering
<1>3. UNCHANGED <<stage, outbox, inbox, ctlOpen, got, finallen, sock>>
    BY DEF Answering, client, control, queues, handles, file
<1>4. ASSUME Failed PROVE Wire'
    <2>1. Len(outbox) \in Nat
        BY LengthIsNat DEF Typed
    <2>2. stage = -1
        BY <1>2, <1>4 DEF Failed, NoCommand
    <2> QED
        BY <1>2, <1>3, <1>4, <2>1, <2>2 DEF Failed, Wire
<1>5. ASSUME Finality, Asked \/ Answered \/ Idle PROVE Wire'
    <2>1. Asked /\ outbox = <<>> /\ Len(heard) = 1 /\ Awaits(stage, heard[1])
        BY <1>2, <1>5 DEF Asked, Answered, Idle, NoCommand
    <2>2. Len(ctl) \in Nat
        BY <1>1, LengthIsNat
    <2>3. Len(inbox) = 0 /\ Len(ctl) = 0
        <3>1. Len(inbox) > 0 => inbox[1] = 421 /\ ~ctlOpen
            BY <1>1, <2>1 DEF Asked, AllLate, NoFinal
        <3>2. Len(ctl) > 0 => ctl[1] = 421 /\ ~ctlOpen
            BY <2>1, <2>2 DEF Asked, AllLate, NoFinal
        <3> QED
            BY <1>1, <2>2, <3>1, <3>2 DEF Answering
    <2>4. inbox = <<>> /\ ctl = <<>> /\ heard' = <<>>
        BY <1>1, <1>2, <2>1, <2>3, NoneIsEmpty
    <2>5. AnswerAt(stage, c)
        BY <1>2, <2>1, AnswersFit DEF Answering
    <2>6. ctl' # <<>> /\ Len(ctl') = 1 /\ ctl'[1] = c
        BY <1>1, <2>3, AppendIs DEF Answering
    <2>7. Answered'
        BY <1>3, <2>1, <2>4, <2>5, <2>6 DEF Answered, NoCommand, AllLate
    <2>8. NoFinal(inbox)' /\ NoFinal(ctl)' /\ OneFinal(inbox)' /\ OneFinal(ctl)'
        <3>1. c \notin Finals
            BY <2>5 DEF Finals, AnswerAt
        <3>2. Len(inbox') = 0
            BY <1>3, <2>3
        <3> QED
            BY <2>6, <3>1, <3>2 DEF NoFinal, OneFinal
    <2>9. sending' # "no" => stage' >= 60
        BY <1>2, <1>3, <2>1 DEF Asked, Answering, Awaits
    <2>10. stage' # 62 /\ stage' # 9999 /\ stage' # 10001
        BY <1>3, <2>1 DEF Awaits
    <2> QED
        BY <2>7, <2>8, <2>9, <2>10 DEF Finality, Wire
<1> QED
    BY <1>4, <1>5 DEF Wire

\* What comes late is put behind what is there.
LEMMA LateIsLast ==
    ASSUME Typed, NEW c \in Code, ctl' = Append(ctl, c),
           c \in Finals \/ (c = 421 /\ ~ctlOpen'),
           ~ctlOpen => ~ctlOpen'
    PROVE  /\ ctl' # <<>>
           /\ ctl # <<>> => ctl'[1] = ctl[1]
           /\ AllLate(ctl, 1) => AllLate(ctl, 1)'
           /\ AllLate(ctl, 2) => AllLate(ctl, 2)'
           /\ c = 421 /\ NoFinal(ctl) => NoFinal(ctl)'
           /\ NoFinal(ctl) => OneFinal(ctl)'
           /\ c = 421 /\ OneFinal(ctl) => OneFinal(ctl)'
<1>1. /\ ctl \in Seq(Code) /\ Len(ctl) \in Nat
      /\ ctl' # <<>> /\ Len(ctl') = Len(ctl) + 1
      /\ \A i \in 1 .. Len(ctl) : ctl'[i] = ctl[i]
      /\ ctl'[Len(ctl) + 1] = c
    BY AppendIs, LengthIsNat DEF Typed
<1>2. ctl # <<>> => ctl'[1] = ctl[1]
    BY <1>1, HeadIsFirst
<1>3. AllLate(ctl, 1) => AllLate(ctl, 1)'
    BY <1>1 DEF AllLate
<1>4. AllLate(ctl, 2) => AllLate(ctl, 2)'
    BY <1>1 DEF AllLate
<1>5. c = 421 /\ NoFinal(ctl) => NoFinal(ctl)'
    BY <1>1 DEF NoFinal, Finals
<1>6. ASSUME NoFinal(ctl) PROVE OneFinal(ctl)'
    BY <1>1, <1>6 DEF NoFinal, OneFinal
<1>7. ASSUME c = 421, OneFinal(ctl) PROVE OneFinal(ctl)'
    BY <1>1, <1>7 DEF OneFinal, Finals
<1> QED
    BY <1>1, <1>2, <1>3, <1>4, <1>5, <1>6, <1>7

LEMMA WireTransferred ==
    ASSUME Wire, Typed, Transferred
    PROVE  Wire'
<1>1. /\ sending = "yes" /\ sending' = "all"
      /\ UNCHANGED <<stage, outbox, heard, inbox, ctlOpen, sock, got, finallen>>
    BY DEF Transferred, client, control, queues, handles, file
<1>2. PICK c \in Finals : ctl' = Append(ctl, c)
    BY DEF Transferred, Finals
<1>3. c \in Code
    BY DEF Code, Finals
<1>4. Failed => Failed'
    BY <1>1 DEF Failed, NoCommand
<1>5. ASSUME Finality, Asked \/ Answered \/ Idle PROVE Wire'
    <2>1. /\ Answered \/ Idle
          /\ NoFinal(inbox) /\ NoFinal(ctl) /\ stage >= 60 /\ stage # 62
          /\ stage = 9999 => got = finallen
          /\ stage = 10001 => ~sock
        BY <1>1, <1>5 DEF Finality, Asked
    <2>2. /\ ctl' # <<>>
          /\ ctl # <<>> => ctl'[1] = ctl[1]
          /\ AllLate(ctl, 1) => AllLate(ctl, 1)'
          /\ AllLate(ctl, 2) => AllLate(ctl, 2)'
          /\ OneFinal(ctl)'
        BY <1>1, <1>2, <1>3, <2>1, LateIsLast
    <2>3. /\ AllLate(inbox, 1) => AllLate(inbox, 1)'
          /\ AllLate(inbox, 2) => AllLate(inbox, 2)'
          /\ NoFinal(inbox)' /\ OneFinal(inbox)'
        BY <1>1, <2>1 DEF AllLate, NoFinal, OneFinal
    <2>4. Answered => Answered'
        BY <1>1, <2>2, <2>3 DEF Answered, NoCommand
    <2>5. Idle => Idle'
        BY <1>1, <2>2, <2>3 DEF Idle, NoCommand
    <2>6. Finality'
        BY <1>1, <2>1, <2>2, <2>3 DEF Finality
    <2> QED
        BY <2>1, <2>4, <2>5, <2>6 DEF Wire
<1> QED
    BY <1>4, <1>5 DEF Wire

LEMMA WireCloses ==
    ASSUME Wire, Typed, ServerCloses
    PROVE  Wire'
<1>1. /\ ctlOpen' = FALSE /\ ctl' = Append(ctl, 421) /\ 421 \in Code
      /\ UNCHANGED <<stage, outbox, heard, inbox, sending, sock, got, finallen>>
    BY DEF ServerCloses, client, control, queues, handles, file, Code
<1>2. /\ ctl' # <<>>
      /\ ctl # <<>> => ctl'[1] = ctl[1]
      /\ AllLate(ctl, 1) => AllLate(ctl, 1)'
      /\ AllLate(ctl, 2) => AllLate(ctl, 2)'
      /\ NoFinal(ctl) => NoFinal(ctl)'
      /\ OneFinal(ctl) => OneFinal(ctl)'
    BY <1>1, LateIsLast
<1>3. /\ AllLate(inbox, 1) => AllLate(inbox, 1)'
      /\ AllLate(inbox, 2) => AllLate(inbox, 2)'
      /\ NoFinal(inbox) => NoFinal(inbox)'
      /\ OneFinal(inbox) => OneFinal(inbox)'
    BY <1>1 DEF AllLate, NoFinal, OneFinal
<1>4. Failed => Failed'
    BY <1>1 DEF Failed, NoCommand
<1>5. Asked => Asked'
    BY <1>1, <1>2, <1>3 DEF Asked
<1>6. Answered => Answered'
    BY <1>1, <1>2, <1>3 DEF Answered, NoCommand
<1>7. Idle => Idle'
    BY <1>1, <1>2, <1>3 DEF Idle, NoCommand
<1>8. ASSUME Finality PROVE Finality'
    <2>1. NoFinal(ctl)' => NoFinal(ctl)
        <3>1. /\ Len(ctl) \in Nat /\ Len(ctl') = Len(ctl) + 1
              /\ \A i \in 1 .. Len(ctl) : ctl'[i] = ctl[i]
            BY <1>1, AppendIs, LengthIsNat DEF Typed
        <3> QED
            BY <3>1 DEF NoFinal
    <2>2. NoFinal(inbox)' => NoFinal(inbox)
        BY <1>1 DEF NoFinal
    <2> QED
        BY <1>1, <1>2, <1>3, <1>8, <2>1, <2>2 DEF Finality
<1> QED
    BY <1>4, <1>5, <1>6, <1>7, <1>8 DEF Wire

LEMMA WireServer ==
    ASSUME Wire, Typed, Server
    PROVE  Wire'
<1>1. ASSUME NEW c \in 0 .. 599, Answer(c) \/ Refuse(c) PROVE Wire'
    <2>1. Answering(c)
        BY <1>1 DEF Answer, Refuse, Answering
    <2> QED
        BY <2>1, WireAnswers DEF Code
<1>2. CASE SplitAnswer
    <2>1. Answering(0) /\ 0 \in Code
        BY <1>2 DEF SplitAnswer, Answering, Code
    <2> QED
        BY <2>1, WireAnswers
<1>3. CASE DataArrives \/ DataEnds \/ DataAborted
    <2>1. UNCHANGED client /\ UNCHANGED <<heard, ctl, ctlOpen, sending>>
        BY <1>3 DEF DataArrives, DataEnds, DataAborted
    <2>2. UNCHANGED wire /\ UNCHANGED <<sock, got, finallen>>
        BY <2>1 DEF client, wire, control, queues, handles, file
    <2> QED
        BY <2>2, WireSame
<1> QED
    BY <1>1, <1>2, <1>3, WireTransferred, WireCloses DEF Server
----------------------------------------------------------------------------
(* The client's steps, one after the other.                                *)

\* How far a reply moves the stage.
StageMoves ==
    \/ stage' = stage
    \/ stage' \in {-20, -1, 1, 11, 15, 17, 21, 31, 35}
    \/ stage = 60 /\ stage' \in {60, 61, 9999}
    \/ /\ stage \in {61, 9999, 10000}
       /\ stage' \in {60, 61, 62, 9999, 10000, 10001}
       /\ stage' = 10000 /\ stage # 10000 => got = finallen
       /\ stage' = 10001 => stage = 10000
       /\ stage # 61 => stage' >= 9999

\* A reply that moves nothing but the stage.
LEMMA ReadingKeepsWire ==
    ASSUME Wire, Typed, NEW c \in Code, ReplyMoves(c)
    PROVE  /\ Wire'
           /\ StageMoves
<1>1. /\ Reading(c) /\ ~Opens(c) /\ ~TellsSize(c)
      /\ stage' = (IF stage < 0 THEN stage ELSE Reaction(c))
      /\ UNCHANGED <<outbox, heard, ctl, sending, ctlOpen, sock, got, finallen>>
    BY DEF ReplyMoves, handles, file, server
<1>2. Reads(c)
    BY <1>1, ReadsIs
<1>3. CASE Failed
    <2>1. stage' = stage
        BY <1>1, <1>3 DEF Failed
    <2> QED
        <3>1. Wire'
            BY <1>2, <1>3, <2>1, WireReadsFailed
        <3>2. StageMoves
            BY <2>1 DEF StageMoves
        <3> QED
            BY <3>1, <3>2
<1>4. CASE Finality /\ (Asked \/ Answered \/ Idle)
    <2>1. stage' = Reaction(c)
        BY <1>1, <1>4 DEF Asked, Answered, Idle, Awaits, AnswerAt, Stages
    <2>2. CASE Answered
        <3>1. AnswerAt(stage, c)
            BY <1>2, <2>2 DEF Answered, Reads
        <3>2. stage' \in AfterAnswer
            BY <1>1, <2>1, <3>1, ReactionToAnswer
        <3>3. Wire'
            BY <1>1, <1>2, <2>2, <3>2, WireReadsAnswer
        <3> QED
            <4>1. StageMoves
                BY <3>2 DEF AfterAnswer, StageMoves
            <4> QED
                BY <3>3, <4>1
    <2>3. CASE Asked \/ Idle
        <3>1. /\ Wire'
              /\ \/ stage' = -1
                 \/ /\ stage \in {60, 61, 9999, 10000}
                    /\ stage' \in {60, 61, 62, 9999, 10000, 10001}
                    /\ stage = 60 => stage' \in {60, 61, 9999}
                    /\ stage' = 10000 /\ stage # 10000 => got = finallen
                    /\ stage' = 10001 => stage = 10000
                    /\ stage \in {9999, 10000} => stage' >= 9999
            BY <1>1, <1>2, <1>4, <2>1, <2>3, WireReadsLate
        <3>2. StageMoves
            BY <3>1 DEF StageMoves
        <3> QED
            BY <3>1, <3>2
    <2> QED
        BY <1>4, <2>2, <2>3
<1> QED
    BY <1>3, <1>4 DEF Wire

\* A reply that opens the data connection, or cannot, or tells the size.
LEMMA ReadingAnswerKeepsWire ==
    ASSUME Wire, Typed, NEW c \in Code,
           ReplyOpens(c) \/ NoDataConnection(c) \/ ReplySize(c)
    PROVE  Wire'
<1>1. /\ Reading(c) /\ (Opens(c) \/ TellsSize(c)) /\ stage' \in {stage, 41, 51}
      /\ UNCHANGED <<outbox, heard, ctl, sending, ctlOpen, sock>>
    BY DEF ReplyOpens, NoDataConnection, ReplySize, handles, file, server
<1>2. Reads(c)
    BY <1>1, ReadsIs
<1>3. stage \in {32, 36, 50} /\ c \in {213, 227, 229}
    BY <1>1 DEF Opens, TellsSize
<1>4. ~Failed
    BY <1>3 DEF Failed
<1>5. ~Asked /\ ~Idle
    <2>1. Len(inbox) \in Nat /\ Len(inbox) >= 1
        BY <1>2, ReadsShifts
    <2> QED
        BY <1>2, <1>3, <2>1 DEF Asked, Idle, AllLate, Finals, Reads
<1>6. Answered
    BY <1>4, <1>5 DEF Wire
<1>7. stage' \in AfterAnswer \/ stage' \in {41, 51}
    BY <1>1, <1>3 DEF AfterAnswer
<1> QED
    BY <1>2, <1>3, <1>6, <1>7, WireReadsAnswer

LEMMA WireStays == SocketsKnown /\ Typed /\ Read /\ Wire /\ Held /\ [Next]_vars => Wire' /\ Read'
<1> SUFFICES ASSUME SocketsKnown, Typed, Read, Wire, Held, [Next]_vars PROVE Wire' /\ Read'
    OBVIOUS
<1> USE DEF Calling, call, control, queues, handles, file, server
<1>1. CASE ReceiveReplies
    <2>1. Read'
        BY <1>1 DEF ReceiveReplies, Read
    <2>2. Wire'
        BY <1>1, WireReceives DEF ReceiveReplies, Read
    <2> QED
        BY <2>1, <2>2
<1>2. CASE ControlGone
    <2>1. UNCHANGED wire /\ UNCHANGED <<got, finallen>> /\ sock' = FALSE
        BY <1>2 DEF ControlGone, wire
    <2>2. pc = "call" /\ result = "wait" /\ inbox' = inbox
        BY <1>2 DEF ControlGone
    <2> QED
        BY <2>1, <2>2, WireSame DEF Read
<1>3. CASE SendCommands
    <2>1. Read'
        BY <1>3 DEF SendCommands, Read
    <2>2. Wire'
        BY <1>3, WireSends DEF SendCommands
    <2> QED
        BY <2>1, <2>2
<1>4. CASE SendFails
    <2>1. UNCHANGED wire /\ UNCHANGED <<got, finallen, sock>>
        BY <1>4 DEF SendFails, wire
    <2>2. pc = "call" /\ result = "wait" /\ inbox' = inbox
        BY <1>4 DEF SendFails
    <2> QED
        BY <2>1, <2>2, WireSame DEF Read
<1>5. ASSUME NEW c \in 0 .. 599, ReplyMoves(c) PROVE Wire' /\ Read'
    <2>1. Wire'
        BY <1>5, ReadingKeepsWire DEF Code
    <2>2. Read'
        BY <1>5 DEF ReplyMoves, Reading, Read
    <2> QED
        BY <2>1, <2>2
<1>6. ASSUME NEW c \in 0 .. 599,
             ReplyOpens(c) \/ AddressUnreadable(c) \/ ConnectFails(c) \/ ReplySize(c)
      PROVE  Wire' /\ Read'
    <2>1. ReplyOpens(c) \/ NoDataConnection(c) \/ ReplySize(c)
        BY <1>6 DEF AddressUnreadable, ConnectFails
    <2>2. Wire'
        BY <2>1, ReadingAnswerKeepsWire DEF Code
    <2>3. pc = "replies" /\ (pc' = "replies" \/ (pc' = "call" /\ result' = "fail"))
        BY <2>1 DEF ReplyOpens, NoDataConnection, ReplySize, Reading
    <2> QED
        BY <2>2, <2>3 DEF Read
<1>7. CASE RepliesRead \/ NothingToDo \/ ReturnFailed \/ ReturnComplete
    <2>1. UNCHANGED wire /\ UNCHANGED <<got, finallen, sock>>
        BY <1>7 DEF RepliesRead, NothingToDo, ReturnFailed, ReturnComplete, wire
    <2>2. inbox' = inbox /\ (inbox = <<>> \/ pc = "act")
        BY <1>7 DEF RepliesRead, NothingToDo, ReturnFailed, ReturnComplete
    <2> QED
        BY <2>1, <2>2, WireSame DEF Read
<1>8. ASSUME NEW i \in Issues, IssueCommand(i) PROVE Wire' /\ Read'
    <2>1. pc = "act" /\ inbox' = inbox
        BY <1>8 DEF IssueCommand
    <2> QED
        BY <1>8, <2>1, WireIssues DEF Read
<1>9. CASE ReceiveFile
    <2>1. /\ pc = "act" /\ stage = 61 /\ stage' \in {-20, 61, 9999}
          /\ UNCHANGED <<outbox, inbox, heard, ctl, ctlOpen, sending, sock>>
          /\ stage' = 9999 => got' = finallen'
        BY <1>9 DEF ReceiveFile
    <2>2. inbox = <<>>
        BY <2>1 DEF Read
    <2>3. Wire'
        BY <2>1, <2>2, WireActs
    <2> QED
        BY <2>1, <2>2, <2>3 DEF Read
<1>10. CASE FinishFile
    <2>1. /\ pc = "act" /\ stage = 9999
          /\ \/ UNCHANGED outbox /\ stage' = -20
             \/ outbox' = Append(outbox, "QUIT") /\ stage' = 10000
          /\ UNCHANGED <<inbox, heard, ctl, ctlOpen, sending, sock>>
        BY <1>10 DEF FinishFile, AddData
    <2>2. inbox = <<>>
        BY <2>1 DEF Read
    <2>3. Wire'
        BY <2>1, <2>2, WireActs
    <2> QED
        BY <2>1, <2>2, <2>3 DEF Read
<1>11. CASE Abort
    <2>1. /\ pc = "act" /\ stage = -20 /\ stage' = -1 /\ UNCHANGED <<heard, inbox>>
          /\ outbox' = Append(outbox, "QUIT") \/ outbox' = outbox
        BY <1>11 DEF Abort, AddData
    <2> QED
        BY <2>1, WireAborts DEF Read
<1>12. CASE CloseConnections
    <2>1. /\ pc = "act" /\ stage = 10000 /\ stage' \in {-1, 10001} /\ sock' = FALSE
          /\ UNCHANGED <<outbox, inbox, heard, ctl, ctlOpen, sending>>
        BY <1>12 DEF CloseConnections
    <2>2. inbox = <<>>
        BY <2>1 DEF Read
    <2>3. Wire'
        BY <2>1, <2>2, WireActs
    <2> QED
        BY <2>1, <2>2, <2>3 DEF Read
<1>13. CASE FreeRequest
    <2>1. UNCHANGED wire /\ UNCHANGED <<got, finallen, pc, result>> /\ sock' = FALSE
        BY <1>13 DEF FreeRequest, wire
    <2> QED
        BY <2>1, WireSame DEF Read, wire
<1>14. CASE Server
    <2>1. UNCHANGED client
        BY <1>14 DEF Server, Answer, Refuse, SplitAnswer, Transferred, DataArrives, DataEnds,
                     DataAborted, ServerCloses
    <2>2. Read'
        BY <2>1 DEF Read, client
    <2> QED
        BY <1>14, <2>2, WireServer
<1>15. CASE UNCHANGED vars
    <2>1. UNCHANGED wire /\ UNCHANGED <<got, finallen, sock, pc, result>>
        BY <1>15 DEF vars, wire
    <2> QED
        BY <2>1, WireSame DEF Read, wire
<1> QED
    BY <1>1, <1>2, <1>3, <1>4, <1>5, <1>6, <1>7, <1>8, <1>9, <1>10, <1>11, <1>12, <1>13, <1>14, <1>15
       DEF Next, Client, Over
----------------------------------------------------------------------------
(* The buffer.                                                             *)


LEMMA ReceivedFits ==
    ASSUME Typed, ReceiveData, UNCHANGED <<finallen, arrived>>
    PROVE  /\ dmax' \in Nat /\ got' \in 0 .. arrived' /\ got' <= dmax'
           /\ dmax' > 0 <=> dmax > 0
           /\ dsock' \in BOOLEAN /\ open' \subseteq {"control", "data"}
<1> USE DEF Typed
<1>1. CASE ~dsock
    BY <1>1 DEF ReceiveData
<1>2. CASE dsock
    <2>1. BufferSize \in Nat /\ got <= BufferSize /\ (BufferSize > 0 <=> dmax > 0)
        <3>1. FileSize \in Nat
            BY FtpAssumption
        <3>2. CASE got < dmax
            BY <3>2 DEF BufferSize
        <3>3. CASE ~(got < dmax) /\ dmax = 0
            <4>1. BufferSize = IF finallen > 0 /\ 2 * dmax > finallen THEN finallen ELSE 2 * dmax
                BY <3>3 DEF BufferSize
            <4>2. ~(finallen > 0 /\ 2 * dmax > finallen)
                BY <3>1, <3>3 DEF Unknown
            <4> QED
                BY <3>3, <4>1, <4>2
        <3>4. CASE ~(got < dmax) /\ dmax > 0
            BY <3>1, <3>4 DEF BufferSize
        <3> QED
            BY <3>2, <3>3, <3>4
    <2>2. dmax' = BufferSize /\ got' = Total
        BY <1>2 DEF ReceiveData
    <2>3. Total \in 0 .. arrived /\ Total <= BufferSize
        BY <2>1, FtpAssumption DEF Total
    <2>4. dsock' \in BOOLEAN /\ open' \subseteq {"control", "data"}
        BY <1>2 DEF ReceiveData, SeesClose
    <2> QED
        BY <2>1, <2>2, <2>3, <2>4
<1> QED
    BY <1>1, <1>2

\* Every step keeps the types; the buffer is the part that needs an argument.
LEMMA TypedStays == Typed /\ [Next]_vars => Typed'
<1> SUFFICES ASSUME Typed, [Next]_vars PROVE Typed'
    OBVIOUS
<1> USE DEF Typed, call, control, queues, handles, file, server
<1>1. CASE ReceiveReplies
    <2>1. /\ inbox' = ctl /\ ctl' = <<>> /\ pc' = "replies" /\ sock' = ctlOpen /\ open' \subseteq open
          /\ UNCHANGED <<result, freed, control, outbox, dsock, file, heard, ctlOpen, sending,
                         arrived, dataOpen, broken>>
        BY <1>1 DEF ReceiveReplies
    <2>2. <<>> \in Seq(Code)
        BY EmptySeq
    <2> QED
        BY <2>1, <2>2
<1>2. CASE ControlGone
    <2>1. /\ UNCHANGED <<freed, control, queues, dsock, file, server, broken>> /\ sock' = FALSE
          /\ open' \subseteq open
          /\ pc' \in {"call", "replies", "act"} /\ result' \in {"wait", "done", "fail"}
        BY <1>2 DEF ControlGone
    <2> QED
        BY <2>1
<1>3. CASE SendCommands
    <2>1. heard \o outbox \in Seq(Commands) /\ <<>> \in Seq(Commands)
        BY ConcatProperties, EmptySeq
    <2>2. heard' \in Seq(Commands) /\ outbox' \in Seq(Commands)
        <3>1. CASE stage < 9999
            <4>1. heard' = heard \o outbox /\ outbox' = <<>>
                BY <1>3, <3>1 DEF SendCommands
            <4> QED
                BY <2>1, <4>1, Zenon
        <3>2. CASE ~(stage < 9999)
            BY <1>3, <3>2 DEF SendCommands
        <3>3. heard \in Seq(Commands) /\ outbox \in Seq(Commands)
            OBVIOUS
        <3> QED
            BY <3>1, <3>2, <3>3
    <2>3. /\ pc' = "replies"
          /\ UNCHANGED <<result, freed, control, inbox, handles, file, ctl, ctlOpen, sending,
                         arrived, dataOpen, broken>>
        BY <1>3 DEF SendCommands
    <2> QED
        BY <2>2, <2>3
<1>4. CASE SendFails
    BY <1>4 DEF SendFails
<1>5. ASSUME NEW c \in 0 .. 599,
             ReplyOpens(c) \/ AddressUnreadable(c) \/ ConnectFails(c) \/ ReplySize(c) \/ ReplyMoves(c)
      PROVE  Typed'
    <2>1. Reading(c)
        BY <1>5 DEF ReplyOpens, AddressUnreadable, ConnectFails, NoDataConnection, ReplySize, ReplyMoves
    <2>2. inbox' \in Seq(Code) /\ code' \in Code
        BY <2>1, HeadTailProperties DEF Reading, Code
    <2>3. CASE ReplyOpens(c)
        BY <2>2, <2>3 DEF ReplyOpens, Reading
    <2>4. CASE AddressUnreadable(c) \/ ConnectFails(c)
        BY <2>2, <2>4 DEF AddressUnreadable, ConnectFails, NoDataConnection
    <2>5. CASE ReplySize(c)
        BY <2>2, <2>5, FtpAssumption DEF ReplySize
    <2>6. CASE ReplyMoves(c)
        BY <2>2, <2>6 DEF ReplyMoves
    <2> QED
        BY <1>5, <2>3, <2>4, <2>5, <2>6
<1>6. CASE RepliesRead \/ NothingToDo \/ ReturnFailed \/ ReturnComplete
    <2>1. /\ pc' \in {"act", "call"} /\ result' \in {result, "fail", "done"}
          /\ UNCHANGED <<freed, control, queues, handles, file, server, broken>>
        BY <1>6 DEF RepliesRead, NothingToDo, ReturnFailed, ReturnComplete
    <2> QED
        BY <2>1
<1>7. ASSUME NEW i \in Issues, IssueCommand(i) PROVE Typed'
    <2>1. Append(outbox, i[2]) \in Seq(Commands)
        <3>1. i[2] \in Commands
            BY DEF Issues, Commands
        <3> QED
            BY <3>1, AppendIs
    <2> QED
        BY <1>7, <2>1 DEF IssueCommand, AddData
<1>8. CASE ReceiveFile \/ FinishFile
    <2>1. /\ pc' = "call" /\ ReceiveData
          /\ UNCHANGED <<result, freed, code, inbox, sock, finallen, server, broken>>
          /\ outbox' = outbox \/ outbox' = Append(outbox, "QUIT")
        BY <1>8 DEF ReceiveFile, FinishFile, AddData
    <2>2. outbox' \in Seq(Commands)
        <3>1. "QUIT" \in Commands
            BY DEF Commands
        <3>2. Append(outbox, "QUIT") \in Seq(Commands)
            BY <3>1, AppendIs
        <3> QED
            BY <2>1, <3>2
    <2>3. /\ dmax' \in Nat /\ got' \in 0 .. arrived' /\ got' <= dmax'
          /\ dmax' > 0 <=> dmax > 0
          /\ dsock' \in BOOLEAN /\ open' \subseteq {"control", "data"}
        BY <2>1, ReceivedFits
    <2> QED
        BY <2>1, <2>2, <2>3
<1>9. CASE Abort
    <2>1. Append(outbox, "QUIT") \in Seq(Commands)
        <3>1. "QUIT" \in Commands
            BY DEF Commands
        <3> QED
            BY <3>1, AppendIs
    <2> QED
        BY <1>9, <2>1 DEF Abort, AddData
<1>10. CASE CloseConnections
    <2>1. pc' = "call" /\ sock' = FALSE /\ dsock' = FALSE /\ open' \subseteq open
        BY <1>10 DEF CloseConnections
    <2>3. code' \in Code
        <3>1. CASE dmax = 0
            BY <1>10, <3>1 DEF CloseConnections
        <3>2. CASE dmax # 0
            BY <1>10, <3>2 DEF CloseConnections, Code
        <3> QED
            BY <3>1, <3>2
    <2>2. UNCHANGED <<result, freed, queues, file, server, broken>>
        BY <1>10 DEF CloseConnections
    <2> QED
        BY <2>1, <2>2, <2>3
<1>11. CASE FreeRequest
    BY <1>11 DEF FreeRequest
<1>12. CASE Server
    <2>1. ASSUME NEW c \in 0 .. 599, Answer(c) \/ Refuse(c) PROVE Typed'
        <3>1. Append(ctl, c) \in Seq(Code) /\ Tail(heard) \in Seq(Commands)
            BY <2>1, AppendIs, HeadTailProperties DEF Answer, Refuse, Code
        <3>2. /\ UNCHANGED <<client, ctlOpen, arrived, dataOpen>>
              /\ ctl' = Append(ctl, c) /\ heard' = Tail(heard)
              /\ sending' \in {"no", "yes", "all"} /\ broken' \in BOOLEAN
            BY <2>1 DEF Answer, Refuse
        <3> QED
            BY <3>1, <3>2 DEF client
    <2>2. CASE SplitAnswer
        <3>1. Append(ctl, 0) \in Seq(Code) /\ Tail(heard) \in Seq(Commands)
            BY <2>2, AppendIs, HeadTailProperties DEF SplitAnswer, Code
        <3> QED
            BY <2>2, <3>1 DEF SplitAnswer, client
    <2>3. CASE Transferred
        <3>1. \A c \in {226, 250} : Append(ctl, c) \in Seq(Code)
            BY AppendIs DEF Code
        <3> QED
            <4>1. /\ UNCHANGED <<client, heard, ctlOpen, arrived, dataOpen, broken>>
                  /\ sending' = "all" /\ ctl' \in Seq(Code)
                BY <2>3, <3>1 DEF Transferred
            <4> QED
                BY <4>1 DEF client
    <2>4. CASE DataArrives
        <3>1. arrived' \in arrived + 1 .. FileSize
            BY <2>4 DEF DataArrives
        <3>2. arrived' \in 0 .. FileSize /\ got \in 0 .. arrived'
            BY <3>1, FtpAssumption
        <3>3. UNCHANGED <<client, heard, ctl, ctlOpen, sending, dataOpen, broken>>
            BY <2>4 DEF DataArrives
        <3> QED
            BY <3>2, <3>3 DEF client
    <2>5. CASE DataEnds \/ DataAborted
        <3>1. /\ UNCHANGED <<client, heard, ctl, ctlOpen, sending, arrived>>
              /\ dataOpen' = FALSE /\ broken' \in BOOLEAN
            BY <2>5 DEF DataEnds, DataAborted
        <3> QED
            BY <3>1 DEF client
    <2>6. CASE ServerCloses
        <3>1. Append(ctl, 421) \in Seq(Code)
            BY AppendIs DEF Code
        <3> QED
            <4>1. /\ UNCHANGED <<client, heard, sending, arrived, dataOpen>>
                  /\ ctlOpen' = FALSE /\ ctl' \in Seq(Code) /\ broken' = TRUE
                BY <2>6, <3>1 DEF ServerCloses
            <4> QED
                BY <4>1 DEF client
    <2> QED
        BY <1>12, <2>1, <2>2, <2>3, <2>4, <2>5, <2>6 DEF Server
<1>13. CASE UNCHANGED vars
    BY <1>13 DEF vars
<1> QED
    BY <1>1, <1>2, <1>3, <1>4, <1>5, <1>6, <1>7, <1>8, <1>9, <1>10, <1>11, <1>12, <1>13
       DEF Next, Client, Over

\* A step that leaves stage, file and data connection alone, or frees them.
LEMMA HeldSame ==
    ASSUME Held, UNCHANGED <<stage, file, result>>, (freed' = freed /\ dsock' = dsock) \/ freed'
    PROVE  Held'
    BY DEF Held, file

LEMMA HeldStays == SocketsKnown /\ Typed /\ Read /\ Wire /\ Held /\ [Next]_vars => Held'
<1> SUFFICES ASSUME SocketsKnown, Typed, Read, Wire, Held, [Next]_vars PROVE Held'
    OBVIOUS
<1> USE DEF Calling, call, control, queues, handles, file, server
<1>0. (pc # "call" => result = "wait") /\ freed \in BOOLEAN
    BY DEF SocketsKnown
<1>1. CASE ReceiveReplies \/ SendCommands \/ RepliesRead \/ NothingToDo
    BY <1>1, HeldSame DEF ReceiveReplies, SendCommands, RepliesRead, NothingToDo
<1>2. CASE ControlGone \/ SendFails \/ ReturnFailed
    <2>1. result' # "done" /\ UNCHANGED <<stage, finallen, dmax, got, freed, dsock>>
        BY <1>2 DEF ControlGone, SendFails, ReturnFailed
    <2> QED
        BY <2>1 DEF Held
<1>3. ASSUME NEW c \in 0 .. 599, ReplyMoves(c) PROVE Held'
    <2>1. pc = "replies" /\ UNCHANGED <<result, finallen, dmax, got, freed, dsock>>
        BY <1>3 DEF ReplyMoves, Reading
    <2>2. StageMoves
        BY <1>3, ReadingKeepsWire DEF Code
    <2>3. result # "done"
        BY <1>0, <2>1
    <2> QED
        BY <2>1, <2>2, <2>3 DEF Held, StageMoves
<1>4. ASSUME NEW c \in 0 .. 599, ReplyOpens(c) PROVE Held'
    BY <1>0, <1>4 DEF ReplyOpens, Reading, Held
<1>5. ASSUME NEW c \in 0 .. 599, AddressUnreadable(c) \/ ConnectFails(c) PROVE Held'
    BY <1>5 DEF AddressUnreadable, ConnectFails, NoDataConnection, Held
<1>6. ASSUME NEW c \in 0 .. 599, ReplySize(c) PROVE Held'
    <2>1. stage = 50 /\ stage' = 51 /\ pc = "replies" /\ UNCHANGED <<result, freed, dsock>>
        BY <1>6 DEF ReplySize, Reading, TellsSize
    <2>2. finallen' = FileSize /\ dmax' > 0
        BY <1>6, FtpAssumption DEF ReplySize
    <2> QED
        BY <1>0, <2>1, <2>2 DEF Held
<1>7. ASSUME NEW i \in Issues, IssueCommand(i) PROVE Held'
    <2>1. /\ pc = "act" /\ UNCHANGED <<result, finallen, dmax, got, freed, dsock>>
          /\ stage = i[1] /\ stage' = i[3]
        BY <1>7 DEF IssueCommand
    <2>2. \/ stage' \in {10, 12, 16, 20, 30, 32, 36}
          \/ stage = 41 /\ stage' = 50
          \/ stage = 51 /\ stage' = 60
        BY <2>1 DEF Issues
    <2> QED
        BY <1>0, <2>1, <2>2 DEF Held
<1>8. CASE ReceiveFile \/ FinishFile
    <2>1. /\ pc = "act" /\ ReceiveData /\ UNCHANGED <<result, freed, finallen, arrived>>
          /\ stage \in {61, 9999}
          /\ \/ stage' = -20
             \/ stage' = 9999
             \/ stage' = 61 /\ dsock'
             \/ stage' = 10000 /\ got' = finallen
        BY <1>8 DEF ReceiveFile, FinishFile
    <2>2. dmax' > 0 <=> dmax > 0
        BY <2>1, ReceivedFits
    <2> QED
        BY <1>0, <2>1, <2>2 DEF Held
<1>9. CASE Abort
    BY <1>0, <1>9 DEF Abort, Held
<1>10. CASE CloseConnections
    <2>1. /\ pc = "act" /\ UNCHANGED <<result, freed, finallen, dmax, got>>
          /\ stage = 10000 /\ stage' \in {-1, 10001}
        BY <1>10 DEF CloseConnections
    <2> QED
        BY <1>0, <2>1 DEF Held
<1>11. CASE ReturnComplete
    BY <1>11 DEF ReturnComplete, Held
<1>12. CASE FreeRequest
    BY <1>12, HeldSame DEF FreeRequest
<1>13. CASE Server
    <2>1. UNCHANGED client
        BY <1>13 DEF Server, Answer, Refuse, SplitAnswer, Transferred, DataArrives, DataEnds,
                     DataAborted, ServerCloses
    <2> QED
        BY <2>1, HeldSame DEF client
<1>14. CASE UNCHANGED vars
    BY <1>14, HeldSame DEF vars
<1> QED
    BY <1>1, <1>2, <1>3, <1>4, <1>5, <1>6, <1>7, <1>8, <1>9, <1>10, <1>11, <1>12, <1>13, <1>14
       DEF Next, Client, Over
----------------------------------------------------------------------------
(* The theorems.                                                           *)

LEMMA FtpInvHolds == Spec => []FtpInv
<1>1. Init => FtpInv
    <2> SUFFICES ASSUME Init PROVE FtpInv
        OBVIOUS
    <2> USE DEF Init
    <2>1. Typed
        <3>1. <<>> \in Seq(Code) /\ <<>> \in Seq(Commands)
            BY EmptySeq
        <3>2. <<"CONNECT">> \in Seq(Commands)
            BY DEF Commands
        <3>3. FileSize \in Nat /\ 0 \in Code
            BY FtpAssumption DEF Code
        <3>4. finallen \in {Unknown, FileSize} /\ dmax \in Nat /\ got \in 0 .. arrived
            OBVIOUS
        <3>5. heard \in Seq(Commands) /\ outbox \in Seq(Commands)
            BY <3>1, <3>2
        <3>6. inbox \in Seq(Code) /\ ctl \in Seq(Code) /\ code \in Code
            BY <3>1, <3>3
        <3>7. arrived \in 0 .. FileSize /\ ~(dmax > 0)
            BY <3>3
        <3>8. /\ pc \in {"call", "replies", "act"} /\ result \in {"wait", "done", "fail"}
              /\ open \subseteq {"control", "data"} /\ got <= dmax
              /\ sending \in {"no", "yes", "all"}
            OBVIOUS
        <3>9. /\ freed \in BOOLEAN /\ sock \in BOOLEAN /\ dsock \in BOOLEAN
              /\ ctlOpen \in BOOLEAN /\ dataOpen \in BOOLEAN /\ broken \in BOOLEAN
            OBVIOUS
        <3> HIDE DEF Init
        <3> QED
            BY <3>4, <3>5, <3>6, <3>7, <3>8, <3>9 DEF Typed
    <2>2. SocketsKnown
        BY DEF SocketsKnown
    <2>5. Read /\ Held
        BY DEF Read, Held
    <2>3. heard[1] = "CONNECT" /\ Len(heard) = 1 /\ Len(inbox) = 0 /\ Len(ctl) = 0
        OBVIOUS
    <2>4. Asked /\ Finality
        BY <2>3 DEF Asked, Finality, Awaits, AllLate, NoFinal, OneFinal
    <2> QED
        BY <2>1, <2>2, <2>4, <2>5 DEF FtpInv, Wire
<1>2. FtpInv /\ [Next]_vars => FtpInv'
    BY SocketsStayKnown, TypedStays, WireStays, HeldStays DEF FtpInv
<1> QED
    BY <1>1, <1>2, PTL DEF Spec

LEMMA StageIsKnown ==
    ASSUME Wire, Typed
    PROVE  stage \in {-20, -1} \cup 0 .. 62 \cup {9999, 10000, 10001}
    BY DEF Wire, Failed, Asked, Answered, Idle, Awaits, AnswerAt, Stages

\* Every reachable state is well typed: in particular the buffer never holds more
\* than it has room for (FTP_ReceiveData, httpftp.c:902), and no sequence of
\* replies leads to a stage that the switch does not know.
THEOREM TypeCorrect == Spec => []TypeOK
<1>1. FtpInv => TypeOK
    BY StageIsKnown DEF FtpInv, Typed, TypeOK, Code
<1> QED
    BY <1>1, FtpInvHolds, PTL

\* A download that is reported complete has the whole file in its buffer, for
\* every size of file and of buffer and whatever failed (stage 9999,
\* httpftp.c:1290).
THEOREM CompleteIsWhole == Spec => []FileIsWhole
<1>1. FtpInv => FileIsWhole
    BY DEF FtpInv, Held, FileIsWhole
<1> QED
    BY <1>1, FtpInvHolds, PTL

\* Whatever the server answers, RETR is sent with the size known, a buffer, and a
\* data connection (the stages 41 to 61 of FTP_SendReceiveData).
THEOREM TransferPrepared == Spec => []TransferIsPrepared
<1>1. FtpInv => TransferIsPrepared
    <2> SUFFICES ASSUME FtpInv PROVE TransferIsPrepared
        OBVIOUS
    <2>1. stage \in 41 .. 61 => stage \in {41, 50, 51, 60, 61}
        BY DEF FtpInv, Wire, Failed, Asked, Answered, Idle, Awaits, AnswerAt, Stages
    <2> QED
        BY <2>1, FtpAssumption DEF FtpInv, Held, TransferIsPrepared, Unknown
<1> QED
    BY <1>1, FtpInvHolds, PTL

\* No command is sent before the last one was answered, and no reply but a 421
\* is read while one is under way.
THEOREM OneAtATime == Spec => []OneCommandAtATime
<1>1. FtpInv => OneCommandAtATime
    <2> SUFFICES ASSUME FtpInv PROVE OneCommandAtATime
        OBVIOUS
    <2>1. /\ Len(outbox) \in Nat /\ Len(heard) \in Nat /\ Len(inbox) \in Nat
          /\ inbox # <<>> => Head(inbox) = inbox[1] /\ Len(inbox) > 0
        BY LengthIsNat, HeadIsFirst DEF FtpInv, Typed
    <2>2. (outbox = <<>> => Len(outbox) = 0) /\ (heard = <<>> => Len(heard) = 0)
        OBVIOUS
    <2>3. Len(outbox) + Len(heard) <= 1
        <3>1. CASE Failed
            BY <2>1, <2>2, <3>1 DEF Failed, NoCommand
        <3>2. CASE Asked \/ Answered \/ Idle
            <4>1. \/ heard = <<>> /\ (outbox = <<>> \/ Len(outbox) = 1)
                  \/ outbox = <<>> /\ Len(heard) = 1
                BY <3>2 DEF Asked, Answered, Idle, NoCommand
            <4>2. CASE heard = <<>> /\ outbox = <<>>
                BY <2>2, <4>2
            <4>3. CASE heard = <<>> /\ Len(outbox) = 1
                BY <2>2, <4>3
            <4>4. CASE outbox = <<>> /\ Len(heard) = 1
                BY <2>2, <4>4
            <4> QED
                BY <4>1, <4>2, <4>3, <4>4
        <3> QED
            BY <3>1, <3>2 DEF FtpInv, Wire
    <2>4. ASSUME Len(outbox) + Len(heard) = 1, stage \in 0 .. 62, inbox # <<>>
          PROVE  Head(inbox) = 421
        <3>1. Asked
            <4>1. ~Failed /\ ~NoCommand
                BY <2>1, <2>2, <2>4 DEF Failed, NoCommand
            <4> QED
                BY <2>4, <4>1 DEF FtpInv, Wire, Answered, Idle
        <3> QED
            BY <2>1, <2>4, <3>1 DEF Asked, AllLate, NoFinal
    <2> QED
        BY <2>3, <2>4 DEF OneCommandAtATime
<1> QED
    BY <1>1, FtpInvHolds, PTL
=============================================================================
