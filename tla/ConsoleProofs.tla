--------------------------- MODULE ConsoleProofs ---------------------------
(***************************************************************************)
(* Theorems about Console for every number of reports and of attempts to   *)
(* close the window: what the critical section and the flags protect, and  *)
(* that the status line implements a mailbox.                              *)
(***************************************************************************)
EXTENDS Console, TLAPS, SequenceTheorems

USE ConsoleAssumption DEF ConsoleAssumption
----------------------------------------------------------------------------
(* Types, one group of variables after the other.                          *)

Todos == Calls \cup {<<"progress">>, <<>>}

\* The call that is being made has this mailbox to fill next.
To(c) == todo # <<>> /\ Head(todo) = c

UpdaterTyped ==
    /\ main \in {"start", "ready", "wait", "enter", "head", "body", "leave",
                 "enable", "gap", "sleep", "done"}
    /\ phase \in {"prepare", "apply", "over"}
    /\ todo \in Todos /\ n \in 0 .. MaxPosts
    /\ main \in {"wait", "enter", "head", "body", "leave"} => todo # <<>>
    /\ main = "wait" => ~To("progress")
    /\ todo # <<>> => n > 0

WindowTyped ==
    /\ con \in {"create", "created", "look", "enter", "copy", "leave", "show", "wipe",
                "pump", "exiting", "gone"}
    /\ look \in Channels /\ copy \in Buffer
    /\ con = "wipe" => look \in {"status2", "console"}

BoxesTyped ==
    /\ cs \in {"free", "main", "con"}
    /\ box \in [Texts -> Buffer] /\ flag \in [Channels -> BOOLEAN] /\ pos \in 0 .. MaxPosts

SeenTyped ==
    /\ posted \in [Texts -> Seq(1 .. MaxPosts)]
    /\ shown \in [Texts -> Seq(0 .. Torn)]
    /\ bar \in 0 .. MaxPosts

LifeTyped ==
    /\ windowCreated \in BOOLEAN /\ quitOnClose \in BOOLEAN /\ running \in BOOLEAN
    /\ sentEnable \in BOOLEAN /\ closeQueued \in BOOLEAN /\ ended \in BOOLEAN
    /\ closes \in 0 .. MaxCloses
    /\ accepted \in {"never", "prepare", "gap", "apply"}

Typed == UpdaterTyped /\ WindowTyped /\ BoxesTyped /\ SeenTyped /\ LifeTyped

LEMMA TypedIsTypeOK == Typed => TypeOK
BY DEF Typed, UpdaterTyped, WindowTyped, BoxesTyped, SeenTyped, LifeTyped, TypeOK, Todos

LEMMA TodoParts == ASSUME todo \in Todos, todo # <<>>
                   PROVE  Head(todo) \in Channels /\ Tail(todo) \in Todos
<1>1. \/ todo = <<"console">> \/ todo = <<"status", "console">>
      \/ todo = <<"status2", "progress">> \/ todo = <<"progress">>
  BY DEF Todos, Calls
<1>2. CASE todo = <<"console">>
  BY <1>2 DEF Todos, Channels, Texts
<1>3. CASE todo = <<"status", "console">>
  BY <1>3 DEF Todos, Calls, Channels, Texts, Flagged
<1>4. CASE todo = <<"status2", "progress">>
  BY <1>4 DEF Todos, Channels, Texts, Flagged
<1>5. CASE todo = <<"progress">>
  BY <1>5 DEF Todos, Channels
<1>. QED
  BY <1>1, <1>2, <1>3, <1>4, <1>5

LEMMA InitTyped == Init => Typed
<1> SUFFICES ASSUME Init PROVE Typed
  OBVIOUS
<1>1. UpdaterTyped
  BY DEF Init, UpdaterTyped, Todos
<1>2. WindowTyped
  BY DEF Init, WindowTyped, Empty, Buffer, Channels, Texts, Flagged
<1>3. BoxesTyped
  BY DEF Init, BoxesTyped, Empty, Buffer
<1>4. SeenTyped
  BY EmptySeq DEF Init, SeenTyped
<1>5. LifeTyped
  <2>1. /\ windowCreated = FALSE /\ quitOnClose = FALSE /\ running = TRUE /\ sentEnable = FALSE
        /\ closeQueued = FALSE /\ ended = FALSE /\ closes = 0 /\ accepted = "never"
    BY DEF Init
  <2>2. closes \in 0 .. MaxCloses
    BY <2>1
  <2>. QED
    BY <2>1, <2>2 DEF LifeTyped
<1>. QED
  BY <1>1, <1>2, <1>3, <1>4, <1>5 DEF Typed

\* Each thread leaves the other's variables alone.
LEMMA WindowLeavesUpdater == ASSUME WindowThread \/ User \/ Over PROVE UNCHANGED updater
BY DEF WindowThread, AllowQuit, WindowCreated, LookInside, EnterWindow, TakeOut, LeaveWindow, Show,
       Wipe, PumpEnable, PumpClose, PumpNothing, Exit, User, UserCloses, Over, vars

LEMMA UpdaterLeavesWindow == ASSUME InCall \/ Calling \/ User \/ Over PROVE UNCHANGED window
BY DEF InCall, CreateConsole, Post, Wait, Enter, WriteHead, WriteBody, WriteStep, FlagStep, Leave,
       ButtonDisabled, ClearQuitOnClose, Return, Calling, DisableExit, DestroyConsole, Report,
       User, UserCloses, Over, vars

LEMMA UpdaterStep == ASSUME Typed, [Next]_vars PROVE UpdaterTyped'
<1> USE DEF Typed, UpdaterTyped, To, updater
<1>1. CASE UNCHANGED updater
  BY <1>1
<1>2. CASE InCall
  <2>1. CASE CreateConsole \/ Wait \/ Enter \/ ButtonDisabled \/ ClearQuitOnClose \/ Return
    BY <2>1 DEF CreateConsole, Wait, Enter, ButtonDisabled, ClearQuitOnClose, Return
  <2>2. CASE WriteHead \/ WriteBody \/ WriteStep \/ FlagStep
    BY <2>2 DEF WriteHead, WriteBody, WriteStep, FlagStep
  <2>3. CASE Post \/ Leave
    BY <2>3, TodoParts DEF Post, Leave
  <2>. QED
    BY <1>2, <2>1, <2>2, <2>3 DEF InCall
<1>3. CASE Calling
  <2>1. CASE DisableExit \/ DestroyConsole
    BY <2>1 DEF DisableExit, DestroyConsole
  <2>2. CASE \E call \in Calls : Report(call)
    <3>1. PICK call \in Calls : Report(call)
      BY <2>2
    <3>2. todo' \in Todos /\ main' = "ready" /\ n' \in 0 .. MaxPosts /\ n' > 0 /\ phase' = phase
      BY <3>1 DEF Report, Todos
    <3>. QED
      BY <3>2
  <2>. QED
    BY <1>3, <2>1, <2>2 DEF Calling
<1>. QED
  BY <1>1, <1>2, <1>3, WindowLeavesUpdater DEF Next, vars

LEMMA WindowStep == ASSUME Typed, [Next]_vars PROVE WindowTyped'
<1> USE DEF Typed, WindowTyped, window
<1>1. CASE UNCHANGED window
  BY <1>1
<1>2. CASE AllowQuit \/ WindowCreated \/ EnterWindow \/ LeaveWindow
  BY <1>2 DEF AllowQuit, WindowCreated, EnterWindow, LeaveWindow
<1>3. CASE LookInside \/ Show \/ Wipe
  <2>1. copy' = copy
    BY <1>3 DEF LookInside, Show, Wipe, GoOn
  <2>2. /\ con' \in {"look", "enter", "wipe", "pump", "gone"} /\ look' \in Channels
        /\ con' = "wipe" => look' \in {"status2", "console"}
    BY <1>3 DEF LookInside, Show, Wipe, GoOn, After, Channels, Texts, Flagged
  <2>. QED
    BY <2>1, <2>2
<1>4. CASE TakeOut
  <2>1. look # "progress" => box[look] \in Buffer
    BY DEF BoxesTyped, Channels
  <2>2. [head |-> pos, body |-> pos] \in Buffer
    BY DEF BoxesTyped, Buffer
  <2>3. copy' \in Buffer
    BY <1>4, <2>1, <2>2 DEF TakeOut
  <2>. QED
    BY <1>4, <2>3 DEF TakeOut
<1>5. CASE PumpEnable \/ PumpClose \/ PumpNothing \/ Exit
  BY <1>5 DEF PumpEnable, PumpClose, PumpNothing, Exit
<1>. QED
  BY <1>1, <1>2, <1>3, <1>4, <1>5, UpdaterLeavesWindow DEF Next, WindowThread, vars

\* The first byte or the rest of a buffer is written.
LEMMA BufferWritten ==
    ASSUME NEW b \in [Texts -> Buffer], NEW c \in Texts, NEW k \in 0 .. MaxPosts
    PROVE  /\ [b EXCEPT ![c].head = k] \in [Texts -> Buffer]
           /\ [b EXCEPT ![c].body = k] \in [Texts -> Buffer]
<1>1. /\ [b[c] EXCEPT !.head = k] \in Buffer
      /\ [b[c] EXCEPT !.body = k] \in Buffer
  BY DEF Buffer
<1>. QED
  BY <1>1

LEMMA FlagWritten ==
    ASSUME NEW fl \in [Channels -> BOOLEAN], NEW c \in Channels, NEW v \in BOOLEAN
    PROVE  [fl EXCEPT ![c] = v] \in [Channels -> BOOLEAN]
OBVIOUS

\* Who touches the mailboxes.
LEMMA BoxesChange ==
    ASSUME [Next]_vars
    PROVE  \/ UNCHANGED boxes
           \/ Enter \/ WriteHead \/ WriteBody \/ WriteStep \/ FlagStep \/ Leave
           \/ EnterWindow \/ TakeOut \/ LeaveWindow \/ Wipe
<1>1. CASE InCall \/ Calling
  BY <1>1 DEF InCall, CreateConsole, Post, Wait, ButtonDisabled, ClearQuitOnClose, Return,
              Calling, DisableExit, DestroyConsole, Report
<1>2. CASE WindowThread
  BY <1>2 DEF WindowThread, AllowQuit, WindowCreated, LookInside, Show, PumpEnable, PumpClose,
              PumpNothing, Exit
<1>. QED
  BY <1>1, <1>2 DEF Next, User, UserCloses, Over, vars

LEMMA BoxesStep == ASSUME Typed, [Next]_vars PROVE BoxesTyped'
<1> USE DEF Typed, BoxesTyped, boxes
<1>1. CASE UNCHANGED boxes
  BY <1>1
<1>2. CASE Enter \/ Leave \/ EnterWindow \/ LeaveWindow
  BY <1>2 DEF Enter, Leave, EnterWindow, LeaveWindow
<1>3. CASE WriteHead
  BY <1>3, BufferWritten DEF WriteHead, UpdaterTyped
<1>4. CASE WriteBody
  <2>1. box' \in [Texts -> Buffer]
    BY <1>4, BufferWritten DEF WriteBody, UpdaterTyped
  <2>2. Head(todo) \in Channels /\ (Head(todo) \in Flagged) \in BOOLEAN
    BY <1>4 DEF WriteBody, Channels
  <2>3. flag' \in [Channels -> BOOLEAN]
    BY <1>4, <2>2, FlagWritten DEF WriteBody
  <2>. QED
    BY <1>4, <2>1, <2>3 DEF WriteBody
<1>5. CASE WriteStep \/ FlagStep
  <2>1. flag' \in [Channels -> BOOLEAN] /\ pos' \in 0 .. MaxPosts
    BY <1>5 DEF WriteStep, FlagStep, UpdaterTyped
  <2>. QED
    BY <1>5, <2>1 DEF WriteStep, FlagStep
<1>6. CASE TakeOut
  <2>1. "console" \in Texts /\ 0 \in 0 .. MaxPosts
    BY DEF Texts
  <2>2. box' \in [Texts -> Buffer]
    <3>1. box' = box \/ box' = [box EXCEPT !["console"].head = 0]
      BY <1>6 DEF TakeOut
    <3>2. [box EXCEPT !["console"].head = 0] \in [Texts -> Buffer]
      BY <2>1, BufferWritten
    <3>. QED
      BY <3>1, <3>2
  <2>3. flag' \in [Channels -> BOOLEAN]
    BY <1>6, FlagWritten DEF TakeOut, WindowTyped
  <2>4. pos' \in 0 .. MaxPosts /\ cs' = cs
    BY <1>6, <2>1 DEF TakeOut
  <2>. QED
    BY <2>2, <2>3, <2>4
<1>7. CASE Wipe
  <2>1. look \in Texts /\ 0 \in 0 .. MaxPosts
    BY <1>7 DEF Wipe, WindowTyped, Texts, Flagged
  <2>2. box' \in [Texts -> Buffer]
    BY <1>7, <2>1, BufferWritten DEF Wipe
  <2>. QED
    BY <1>7, <2>2 DEF Wipe
<1>. QED
  BY <1>1, <1>2, <1>3, <1>4, <1>5, <1>6, <1>7, BoxesChange

LEMMA SeenChange == ASSUME [Next]_vars PROVE UNCHANGED seen \/ WriteBody \/ Show
<1>1. CASE InCall \/ Calling
  BY <1>1 DEF InCall, CreateConsole, Post, Wait, Enter, WriteHead, WriteStep, FlagStep, Leave,
              ButtonDisabled, ClearQuitOnClose, Return, Calling, DisableExit, DestroyConsole, Report
<1>2. CASE WindowThread
  BY <1>2 DEF WindowThread, AllowQuit, WindowCreated, LookInside, EnterWindow, TakeOut, LeaveWindow,
              Wipe, PumpEnable, PumpClose, PumpNothing, Exit
<1>. QED
  BY <1>1, <1>2 DEF Next, User, UserCloses, Over, vars

LEMMA SeenStep == ASSUME Typed, [Next]_vars PROVE SeenTyped'
<1> USE DEF Typed, SeenTyped, seen
<1>1. CASE UNCHANGED seen
  BY <1>1
<1>2. CASE WriteBody
  <2>1. n \in 1 .. MaxPosts
    BY <1>2 DEF WriteBody, UpdaterTyped
  <2>2. \A c \in Texts : Append(posted[c], n) \in Seq(1 .. MaxPosts)
    BY <2>1, AppendProperties
  <2>3. posted' \in [Texts -> Seq(1 .. MaxPosts)]
    BY <1>2, <2>2 DEF WriteBody
  <2>. QED
    BY <1>2, <2>3 DEF WriteBody
<1>3. CASE Show
  <2>1. TextOf(copy) \in 0 .. Torn /\ copy.head \in 0 .. MaxPosts
    BY DEF WindowTyped, TextOf, Torn, Buffer
  <2>2. \A c \in Texts : Append(shown[c], TextOf(copy)) \in Seq(0 .. Torn)
    BY <2>1, AppendProperties
  <2>3. shown' \in [Texts -> Seq(0 .. Torn)] /\ bar' \in 0 .. MaxPosts
    BY <1>3, <2>1, <2>2 DEF Show
  <2>. QED
    BY <1>3, <2>3 DEF Show
<1>. QED
  BY <1>1, <1>2, <1>3, SeenChange

LEMMA LifeStep == ASSUME Typed, [Next]_vars PROVE LifeTyped'
<1> USE DEF Typed, LifeTyped, life
<1>1. CASE UNCHANGED life
  BY <1>1
<1>2. CASE ClearQuitOnClose \/ DisableExit \/ DestroyConsole \/ Return
  <2>1. CASE ClearQuitOnClose
    BY <2>1 DEF ClearQuitOnClose
  <2>2. CASE DisableExit
    BY <2>2 DEF DisableExit
  <2>3. CASE DestroyConsole
    BY <2>3 DEF DestroyConsole
  <2>4. CASE Return
    BY <2>4 DEF Return
  <2>. QED
    BY <1>2, <2>1, <2>2, <2>3, <2>4
<1>3. CASE AllowQuit \/ WindowCreated \/ PumpEnable \/ Exit
  BY <1>3 DEF AllowQuit, WindowCreated, PumpEnable, Exit
<1>4. CASE PumpClose \/ UserCloses
  <2>1. CASE PumpClose
    <3>1. running' \in BOOLEAN /\ accepted' \in {"never", "prepare", "gap", "apply"}
      BY <2>1 DEF PumpClose
    <3>2. closeQueued' = FALSE
      BY <2>1 DEF PumpClose
    <3>3. UNCHANGED <<windowCreated, quitOnClose, sentEnable, closes, ended>>
      BY <2>1 DEF PumpClose
    <3>. QED
      BY <3>1, <3>2, <3>3
  <2>2. CASE UserCloses
    BY <2>2 DEF UserCloses
  <2>. QED
    BY <1>4, <2>1, <2>2
<1>5. CASE InCall \/ Calling
  BY <1>1, <1>2, <1>5 DEF InCall, CreateConsole, Post, Wait, Enter, WriteHead, WriteBody, WriteStep,
              FlagStep, Leave, ButtonDisabled, Calling, Report
<1>6. CASE WindowThread
  BY <1>1, <1>3, <1>4, <1>6 DEF WindowThread, LookInside, EnterWindow, TakeOut, LeaveWindow, Show, Wipe,
              PumpNothing
<1>. QED
  BY <1>1, <1>4, <1>5, <1>6 DEF Next, User, Over, vars

LEMMA NextTyped == ASSUME Typed, [Next]_vars PROVE Typed'
BY UpdaterStep, WindowStep, BoxesStep, SeenStep, LifeStep DEF Typed

\* The console's state is always well typed.
THEOREM TypeCorrect == Spec => []TypeOK
<1>1. Typed /\ [Next]_vars => Typed'
  BY NextTyped
<1>. QED
  BY <1>1, InitTyped, TypedIsTypeOK, PTL DEF Spec
----------------------------------------------------------------------------
(* The critical section.  While a thread is between its Enter and its      *)
(* Leave, it is the one in the critical section.                           *)

Mutex == /\ main \in {"head", "body", "leave"} <=> cs = "main"
         /\ con \in {"copy", "leave"} <=> cs = "con"

LEMMA NextMutex == ASSUME Typed, Mutex, [Next]_vars PROVE Mutex'
<1> USE DEF Mutex
<1>1. CASE UNCHANGED vars
  BY <1>1 DEF vars, updater, window, boxes
<1>2. CASE InCall
  BY <1>2 DEF InCall, CreateConsole, Post, Wait, Enter, WriteHead, WriteBody, WriteStep, FlagStep,
              Leave, ButtonDisabled, ClearQuitOnClose, Return, window, boxes
<1>3. CASE Calling
  BY <1>3 DEF Calling, DisableExit, DestroyConsole, Report, window, boxes
<1>4. CASE WindowThread
  BY <1>4 DEF WindowThread, AllowQuit, WindowCreated, LookInside, EnterWindow, TakeOut, LeaveWindow,
              Show, Wipe, GoOn, PumpEnable, PumpClose, PumpNothing, Exit, updater, window, boxes
<1>5. CASE User
  BY <1>5 DEF User, UserCloses, updater, window, boxes
<1>. QED
  BY <1>1, <1>2, <1>3, <1>4, <1>5 DEF Next, Over

\* A buffer is empty or holds one text; the one the updater is writing need not.
Whole(b) == b.head = 0 \/ b.head = b.body

Fits(c) == IF main = "body" /\ To(c) THEN box[c].head \in {0, n} ELSE Whole(box[c])

WholeInv ==
    /\ \A c \in Texts : Fits(c)
    /\ con \in {"leave", "show"} => Whole(copy)
    /\ NoTornText

TornInv == Typed /\ Mutex /\ WholeInv

LEMMA InitTorn == Init => TornInv
<1> SUFFICES ASSUME Init PROVE TornInv
  OBVIOUS
<1>1. Mutex
  BY DEF Init, Mutex
<1>2. WholeInv
  BY DEF Init, WholeInv, Fits, Whole, Empty, NoTornText
<1>. QED
  BY <1>1, <1>2, InitTyped DEF TornInv

LEMMA NextTorn == ASSUME TornInv, [Next]_vars PROVE TornInv'
<1> USE DEF TornInv
<1>1. Typed' /\ Mutex'
  BY NextTyped, NextMutex
<1>2. \A c \in Texts : Fits(c)'
  <2> SUFFICES ASSUME NEW c \in Texts, Fits(c) PROVE Fits(c)'
    BY DEF WholeInv
  <2> USE DEF Fits, To
  <2>1. CASE UNCHANGED <<boxes, updater>>
    BY <2>1 DEF boxes, updater, Whole
  <2>2. CASE InCall
    <3>1. CASE WriteHead
      BY <3>1 DEF WriteHead, Whole, Typed, UpdaterTyped, BoxesTyped, Buffer
    <3>2. CASE WriteBody
      BY <3>2 DEF WriteBody, Whole, Typed, UpdaterTyped, BoxesTyped, Buffer
    <3>3. CASE ~WriteHead /\ ~WriteBody
      <4>1. /\ box' = box
            /\ main' = "body" => Head(todo') \notin Texts
            /\ main = "body" => Head(todo) \notin Texts
        BY <2>2, <3>3 DEF InCall, CreateConsole, Post, Wait, Enter, WriteStep, FlagStep, Leave,
                          ButtonDisabled, ClearQuitOnClose, Return, boxes, Texts, Flagged
      <4>. QED
        BY <4>1 DEF Whole
    <3>. QED
      BY <3>1, <3>2, <3>3
  <2>3. CASE Calling
    BY <2>3 DEF Calling, DisableExit, DestroyConsole, Report, boxes, Whole
  <2>4. CASE WindowThread
    <3>1. UNCHANGED updater
      BY <2>4, WindowLeavesUpdater
    <3>2. CASE TakeOut \/ Wipe
      BY <3>1, <3>2 DEF TakeOut, Wipe, Whole, updater, Typed, BoxesTyped, Buffer
    <3>3. CASE box' = box
      BY <3>1, <3>3 DEF updater, Whole
    <3>4. CASE ~TakeOut /\ ~Wipe
      BY <2>4, <3>3, <3>4 DEF WindowThread, AllowQuit, WindowCreated, LookInside, EnterWindow,
         LeaveWindow, Show, PumpEnable, PumpClose, PumpNothing, Exit, boxes
    <3>. QED
      BY <3>2, <3>4
  <2>. QED
    BY <2>1, <2>2, <2>3, <2>4 DEF Next, User, UserCloses, Over, vars
<1>3. con' \in {"leave", "show"} => Whole(copy')
  <2>1. CASE UNCHANGED window
    BY <2>1 DEF window, WholeInv
  <2>2. CASE TakeOut
    <3>1. main # "body"
      BY <2>2 DEF TakeOut, Mutex
    <3>. QED
      BY <2>2, <3>1 DEF Fits, TakeOut, Whole, WholeInv, Typed, WindowTyped, Channels
  <2>3. CASE WindowThread /\ ~TakeOut
    BY <2>3 DEF WindowThread, AllowQuit, WindowCreated, LookInside, EnterWindow, LeaveWindow, Show,
       Wipe, GoOn, PumpEnable, PumpClose, PumpNothing, Exit, window, WholeInv
  <2>. QED
    BY <2>1, <2>2, <2>3, UpdaterLeavesWindow DEF Next, vars
<1>4. NoTornText'
  <2>1. CASE shown' = shown
    BY <2>1 DEF WholeInv, NoTornText
  <2>2. CASE Show
    <3>1. TextOf(copy) # Torn
      BY <2>2 DEF Show, WholeInv, Whole, TextOf, Torn, Typed, WindowTyped, Buffer
    <3>2. ASSUME NEW c \in Texts, NEW i \in 1 .. Len(shown'[c]) PROVE shown'[c][i] # Torn
      <4>1. shown[c] \in Seq(0 .. Torn) /\ TextOf(copy) \in 0 .. Torn
        BY DEF Typed, SeenTyped, WindowTyped, TextOf, Torn, Buffer
      <4>2. CASE shown'[c] = shown[c]
        BY <4>2 DEF WholeInv, NoTornText
      <4>3. CASE shown'[c] = Append(shown[c], TextOf(copy))
        BY <3>1, <3>2, <4>1, <4>3, AppendProperties DEF WholeInv, NoTornText
      <4>. QED
        BY <2>2, <4>2, <4>3 DEF Show, Typed, SeenTyped
    <3>. QED
      BY <3>2 DEF NoTornText
  <2>. QED
    BY <2>1, <2>2, SeenChange DEF seen, WriteBody
<1>. QED
  BY <1>1, <1>2, <1>3, <1>4 DEF WholeInv

\* No text is shown that was only half written, although consoleBuffer is seen to
\* be full while the updater's thread is still writing it.
THEOREM TextsAreWhole == Spec => []NoTornText
<1>1. TornInv /\ [Next]_vars => TornInv'
  BY NextTorn
<1>2. TornInv => NoTornText
  BY DEF TornInv, WholeInv
<1>. QED
  BY <1>1, <1>2, InitTorn, PTL DEF Spec
----------------------------------------------------------------------------
(* Ending the process.  With the window there in time, quitOnClose is not  *)
(* set again once DisableExit has cleared it, and a window thread that is  *)
(* about to exit does not answer EnableWindow.                             *)

ExitInv ==
    /\ main # "start" => windowCreated
    /\ windowCreated => con \notin {"create", "created"}
    /\ main \in {"start", "enable", "gap"} => phase = "prepare"
    /\ phase = "apply" => ~quitOnClose
    /\ con = "exiting" => /\ phase = "apply" => accepted = "gap"
                          /\ main = "gap" => accepted = "gap"
                          /\ main = "enable" => sentEnable \/ accepted = "gap"

LEMMA NextExit == ASSUME WindowInTime, Typed, ExitInv, [Next]_vars PROVE ExitInv'
<1> USE DEF ExitInv
<1>1. CASE UNCHANGED <<main, phase, con, windowCreated, quitOnClose, sentEnable, accepted>>
  BY <1>1
<1>2. CASE InCall
  <2>1. CASE CreateConsole
    BY <2>1 DEF CreateConsole, window, life
  <2>2. CASE ButtonDisabled
    BY <2>2 DEF ButtonDisabled, window, life
  <2>3. CASE ClearQuitOnClose
    BY <2>3 DEF ClearQuitOnClose, window
  <2>4. CASE Post \/ Wait \/ Enter \/ WriteHead \/ WriteBody \/ WriteStep \/ FlagStep \/ Leave
    BY <2>4 DEF Post, Wait, Enter, WriteHead, WriteBody, WriteStep, FlagStep, Leave, window, life
  <2>5. CASE Return
    BY <2>5 DEF Return, window
  <2>. QED
    BY <1>2, <2>1, <2>2, <2>3, <2>4, <2>5 DEF InCall
<1>3. CASE Calling
  <2>1. CASE DisableExit
    BY <2>1 DEF DisableExit, window
  <2>2. CASE DestroyConsole
    BY <2>2 DEF DestroyConsole, window
  <2>3. CASE \E call \in Calls : Report(call)
    BY <1>1, <2>3 DEF Report, window, life
  <2>. QED
    BY <1>3, <2>1, <2>2, <2>3 DEF Calling
<1>4. CASE WindowThread
  <2>u. UNCHANGED <<main, phase>>
    BY <1>4, WindowLeavesUpdater DEF updater
  <2>1. CASE AllowQuit \/ WindowCreated
    BY <2>u, <2>1 DEF AllowQuit, WindowCreated, Typed, UpdaterTyped
  <2>2. CASE LookInside \/ EnterWindow \/ TakeOut \/ LeaveWindow \/ Show \/ Wipe
    BY <2>u, <2>2 DEF LookInside, EnterWindow, TakeOut, LeaveWindow, Show, Wipe, GoOn, life
  <2>3. CASE PumpEnable
    BY <2>u, <2>3 DEF PumpEnable, window
  <2>4. CASE PumpClose
    BY <2>u, <2>4 DEF PumpClose
  <2>5. CASE PumpNothing \/ Exit
    BY <2>u, <2>5 DEF PumpNothing, Exit, window, life
  <2>. QED
    BY <1>4, <2>1, <2>2, <2>3, <2>4, <2>5 DEF WindowThread
<1>5. CASE User
  BY <1>1, <1>5 DEF User, UserCloses, updater, window
<1>. QED
  BY <1>1, <1>2, <1>3, <1>4, <1>5 DEF Next, Over, vars, updater, window, life

\* The process does not exit in the apply phase for a close that was accepted
\* then, or before DisableExit was called.  It could if Sys_CreateConsole had
\* stopped waiting before the window was there.
THEOREM ExitIsFromGap == ASSUME WindowInTime PROVE Spec => []ExitOnlyFromGap
<1>1. Init => ExitInv
  BY DEF Init, ExitInv
<1>2. Typed /\ ExitInv /\ [Next]_vars => Typed' /\ ExitInv'
  BY NextTyped, NextExit
<1>3. ExitInv => ExitOnlyFromGap
  BY DEF ExitInv, ExitOnlyFromGap
<1>. QED
  BY <1>1, <1>2, <1>3, InitTyped, PTL DEF Spec
----------------------------------------------------------------------------
(* The progress bar.  While the flag is set, the value is at least what    *)
(* the bar shows and what the window thread holds in its tmp.              *)

HoldsStep == con \in {"leave", "show"} /\ look = "progress"

StepInv ==
    /\ bar <= n /\ pos <= n
    /\ flag["progress"] => bar <= pos
    /\ main = "body" /\ To("progress") => pos = n
    /\ con \in {"enter", "copy"} /\ look = "progress" => flag["progress"]
    /\ HoldsStep => /\ bar <= copy.head /\ copy.head <= n
                    /\ flag["progress"] => copy.head <= pos

BarInv == Typed /\ Mutex /\ StepInv

LEMMA InitBar == Init => BarInv
<1> SUFFICES ASSUME Init PROVE BarInv
  OBVIOUS
<1>1. Mutex
  BY DEF Init, Mutex
<1>2. StepInv
  BY DEF Init, StepInv, HoldsStep, Channels
<1>. QED
  BY <1>1, <1>2, InitTyped DEF BarInv

LEMMA NextBar == ASSUME BarInv, [Next]_vars PROVE BarInv' /\ bar' >= bar
<1> USE DEF BarInv, StepInv, HoldsStep, To
<1>t. Typed' /\ Mutex'
  BY NextTyped, NextMutex
<1>n. bar \in Nat /\ pos \in Nat /\ n \in Nat /\ copy.head \in Nat /\ "progress" \in Channels
  BY DEF Typed, SeenTyped, BoxesTyped, UpdaterTyped, WindowTyped, Buffer, Channels
<1>1. CASE UNCHANGED vars
  BY <1>t, <1>n, <1>1 DEF vars, updater, window, boxes, seen
<1>2. CASE InCall
  <2>w. UNCHANGED <<con, look, copy, bar>>
    BY <1>2 DEF InCall, CreateConsole, Post, Wait, Enter, WriteHead, WriteBody, WriteStep, FlagStep,
       Leave, ButtonDisabled, ClearQuitOnClose, Return, window, seen
  <2>1. CASE CreateConsole \/ Post \/ Wait \/ Enter \/ Leave \/ ButtonDisabled \/ ClearQuitOnClose
             \/ Return
    BY <1>t, <1>n, <2>1, <2>w DEF CreateConsole, Post, Wait, Enter, Leave, ButtonDisabled,
       ClearQuitOnClose, Return, boxes
  <2>2. CASE WriteHead
    BY <1>t, <1>n, <2>2, <2>w DEF WriteHead, Texts, Flagged
  <2>3. CASE WriteBody
    <3>1. flag'["progress"] = flag["progress"] /\ main' = "leave" /\ UNCHANGED <<pos, n>>
      BY <2>3 DEF WriteBody, Texts, Flagged, Typed, BoxesTyped
    <3>. QED
      BY <1>t, <1>n, <2>w, <3>1
  <2>4. CASE WriteStep
    BY <1>t, <1>n, <2>4, <2>w DEF WriteStep
  <2>5. CASE FlagStep
    <3>1. /\ pos = n /\ main' = "leave" /\ UNCHANGED <<pos, n>>
      BY <2>5 DEF FlagStep, Typed, UpdaterTyped
    <3>2. flag'["progress"]
      BY <1>n, <2>5 DEF FlagStep, Typed, BoxesTyped
    <3>. QED
      BY <1>t, <1>n, <2>w, <3>1, <3>2
  <2>. QED
    BY <1>2, <2>1, <2>2, <2>3, <2>4, <2>5 DEF InCall
<1>3. CASE Calling
  BY <1>t, <1>n, <1>3 DEF Calling, DisableExit, DestroyConsole, Report, window, boxes, seen
<1>4. CASE WindowThread
  <2>u. UNCHANGED <<main, todo, n>>
    BY <1>4, WindowLeavesUpdater DEF updater
  <2>1. CASE AllowQuit \/ WindowCreated \/ EnterWindow \/ LeaveWindow
    BY <1>t, <1>n, <2>u, <2>1 DEF AllowQuit, WindowCreated, EnterWindow, LeaveWindow, boxes, seen
  <2>2. CASE LookInside
    <3>1. UNCHANGED <<flag, pos, bar>> /\ con' \notin {"copy", "leave", "show"}
      BY <2>2 DEF LookInside, GoOn, boxes, seen
    <3>2. con' = "enter" /\ look' = "progress" => flag["progress"]
      BY <2>2 DEF LookInside, GoOn, Full
    <3>. QED
      BY <1>t, <1>n, <2>u, <3>1, <3>2
  <2>3. CASE TakeOut
    <3>1. main # "body"
      BY <2>3 DEF TakeOut, Mutex
    <3>2. CASE look = "progress"
      <4>1. /\ flag'["progress"] = FALSE /\ copy'.head = pos /\ pos' = 0
            /\ UNCHANGED <<look, bar>> /\ con' = "leave" /\ flag["progress"]
        BY <1>n, <2>3, <3>2 DEF TakeOut, seen, Typed, BoxesTyped
      <4>. QED
        BY <1>t, <1>n, <2>u, <3>1, <3>2, <4>1
    <3>3. CASE look # "progress"
      <4>1. /\ flag'["progress"] = flag["progress"] /\ pos' = pos
            /\ UNCHANGED <<look, bar>> /\ con' = "leave"
        BY <2>3, <3>3 DEF TakeOut, seen, Typed, BoxesTyped, Channels
      <4>. QED
        BY <1>t, <1>n, <2>u, <3>1, <3>3, <4>1
    <3>. QED
      BY <3>2, <3>3
  <2>4. CASE Show
    <3>1. /\ UNCHANGED <<flag, pos>> /\ con' \notin {"enter", "copy", "leave", "show"}
          /\ bar' = IF look = "progress" THEN copy.head ELSE bar
      BY <2>4 DEF Show, GoOn, boxes
    <3>2. con = "show"
      BY <2>4 DEF Show
    <3>. QED
      BY <1>t, <1>n, <2>u, <3>1, <3>2
  <2>5. CASE Wipe
    BY <1>t, <1>n, <2>u, <2>5 DEF Wipe, GoOn, seen
  <2>6. CASE PumpEnable \/ PumpClose \/ PumpNothing \/ Exit
    BY <1>t, <1>n, <2>u, <2>6 DEF PumpEnable, PumpClose, PumpNothing, Exit, window, boxes, seen
  <2>. QED
    BY <1>4, <2>1, <2>2, <2>3, <2>4, <2>5, <2>6 DEF WindowThread
<1>5. CASE User
  BY <1>t, <1>n, <1>5 DEF User, UserCloses, updater, window, boxes, seen
<1>. QED
  BY <1>1, <1>2, <1>3, <1>4, <1>5 DEF Next, Over

\* The bar never goes back: the value is reset whenever it is taken, but only
\* together with the flag.
THEOREM BarGrows == Spec => BarNeverBack
<1>1. BarInv /\ [Next]_vars => BarInv'
  BY NextBar
<1>2. BarInv /\ [Next]_vars => [bar' >= bar]_vars
  BY NextBar
<1>. QED
  BY <1>1, <1>2, InitBar, PTL DEF Spec, BarNeverBack
----------------------------------------------------------------------------
(* The status line is a mailbox.  What was posted and not yet shown is in  *)
(* the window thread's buf, in statusText while its flag is set, or in     *)
(* both, in this order.                                                    *)

Posted == posted["status"]
Shown  == shown["status"]
Held   == con \in {"leave", "show"} /\ look = "status"
Text(k) == [head |-> k, body |-> k]

LineInv ==
    /\ Len(Posted) = Len(Shown) + (IF Held THEN 1 ELSE 0) + (IF flag["status"] THEN 1 ELSE 0)
    /\ Held => copy = Text(Posted[Len(Shown) + 1])
    /\ flag["status"] => box["status"] = Text(Posted[Len(Posted)])
    /\ main \in {"enter", "head", "body"} /\ To("status") => ~flag["status"]
    /\ con \in {"enter", "copy"} /\ look = "status" => flag["status"]
    /\ main = "body" /\ To("status") => box["status"].head = n

StatusInv == Typed /\ LineInv

LEMMA InitStatus == Init => StatusInv
<1> SUFFICES ASSUME Init PROVE StatusInv
  OBVIOUS
<1>1. Posted = <<>> /\ Shown = <<>> /\ ~Held /\ ~flag["status"] /\ main = "start"
  BY DEF Init, Posted, Shown, Held, Texts, Channels, Flagged
<1>2. LineInv
  BY <1>1, EmptySeq DEF Init, LineInv
<1>. QED
  BY <1>2, InitTyped DEF StatusInv

LEMMA LineTyped ==
    ASSUME Typed
    PROVE  /\ Posted \in Seq(1 .. MaxPosts) /\ Shown \in Seq(0 .. Torn)
           /\ Len(Posted) \in Nat /\ Len(Shown) \in Nat
           /\ n \in Nat /\ box["status"] \in Buffer /\ copy \in Buffer
           /\ "status" \in Texts /\ "status" \in Channels /\ "status" \in Flagged
<1>1. "status" \in Texts /\ "status" \in Channels /\ "status" \in Flagged
  BY DEF Texts, Channels, Flagged
<1>2. Posted \in Seq(1 .. MaxPosts) /\ Shown \in Seq(0 .. Torn)
  BY <1>1 DEF Typed, SeenTyped, Posted, Shown
<1>3. Len(Posted) \in Nat /\ Len(Shown) \in Nat
  BY <1>2, LenProperties
<1>. QED
  BY <1>1, <1>2, <1>3 DEF Typed, UpdaterTyped, BoxesTyped, WindowTyped

\* A text is put into the empty mailbox.
LEMMA WriteStatus ==
    ASSUME StatusInv, WriteBody, Head(todo) = "status"
    PROVE  /\ LineInv' /\ StatusMailbox!Send(n) /\ n \in 1 .. MaxPosts
<1> USE DEF StatusInv
<1>t. Typed
  OBVIOUS
<1>1. /\ main = "body" /\ To("status") /\ ~flag["status"] /\ box["status"].head = n
      /\ n \in 1 .. MaxPosts
  BY DEF WriteBody, Typed, UpdaterTyped, To, LineInv
<1>2. /\ Posted' = Append(Posted, n) /\ Shown' = Shown /\ Held' = Held /\ copy' = copy
      /\ flag'["status"] /\ main' = "leave" /\ con' = con /\ look' = look
  BY <1>t, LineTyped DEF WriteBody, Posted, Shown, Held, window, Typed, SeenTyped, BoxesTyped
<1>3. box'["status"] = Text(n)
  BY <1>t, <1>1, LineTyped DEF WriteBody, Text, Buffer, Typed, BoxesTyped
<1>4. /\ Len(Posted') = Len(Posted) + 1 /\ Posted'[Len(Posted')] = n
      /\ \A i \in 1 .. Len(Posted) : Posted'[i] = Posted[i]
  BY <1>t, <1>1, <1>2, LineTyped, AppendProperties
<1>5. LineInv'
  BY <1>t, <1>1, <1>2, <1>3, <1>4, LineTyped DEF LineInv
<1>6. Len(Posted) - Len(Shown) < 2
  BY <1>t, <1>1, LineTyped DEF LineInv
<1>7. StatusMailbox!Send(n)
  BY <1>2, <1>6 DEF StatusMailbox!Send, Posted, Shown
<1>. QED
  BY <1>1, <1>5, <1>7

\* The text the window thread holds is shown.
LEMMA ShowStatus ==
    ASSUME StatusInv, Show, look = "status"
    PROVE  LineInv' /\ StatusMailbox!Receive
<1> USE DEF StatusInv
<1>t. Typed
  OBVIOUS
<1>1. Held /\ Len(Shown) < Len(Posted) /\ copy = Text(Posted[Len(Shown) + 1])
  BY <1>t, LineTyped DEF Show, Held, LineInv
<1>2. Posted[Len(Shown) + 1] \in 1 .. MaxPosts
  BY <1>t, <1>1, LineTyped, ElementOfSeq
<1>3. TextOf(copy) = Posted[Len(Shown) + 1]
  BY <1>1, <1>2 DEF TextOf, Text
<1>4. /\ Shown' = Append(Shown, Posted[Len(Shown) + 1]) /\ Posted' = Posted
      /\ con' = "look" /\ flag' = flag /\ box' = box /\ main' = main /\ To("status")' = To("status")
      /\ n' = n
  BY <1>t, <1>3, LineTyped DEF Show, GoOn, Shown, Posted, boxes, updater, To, Typed, SeenTyped
<1>5. Len(Shown') = Len(Shown) + 1
  BY <1>t, <1>2, <1>4, LineTyped, AppendProperties DEF Torn
<1>6. LineInv'
  BY <1>t, <1>1, <1>4, <1>5, LineTyped DEF LineInv, Held
<1>7. StatusMailbox!Receive
  BY <1>1, <1>4 DEF StatusMailbox!Receive, Posted, Shown
<1>. QED
  BY <1>6, <1>7

\* No other step posts or shows a status text.
LEMMA LineKept ==
    ASSUME StatusInv, [Next]_vars,
           ~(WriteBody /\ Head(todo) = "status"), ~(Show /\ look = "status")
    PROVE  LineInv' /\ UNCHANGED <<Posted, Shown>>
<1> USE DEF StatusInv
<1>t. Typed
  OBVIOUS
<1>p. UNCHANGED <<Posted, Shown>>
  <2>1. CASE UNCHANGED seen
    BY <2>1 DEF seen, Posted, Shown
  <2>2. CASE WriteBody
    BY <2>2 DEF WriteBody, Posted, Shown, Typed, SeenTyped
  <2>3. CASE Show
    <3>1. posted' = posted
      BY <2>3 DEF Show
    <3>2. shown'["status"] = shown["status"]
      BY <1>t, <2>3, LineTyped DEF Show, Typed, SeenTyped
    <3>. QED
      BY <3>1, <3>2 DEF Posted, Shown
  <2>. QED
    BY <2>1, <2>2, <2>3, SeenChange
<1>1. CASE UNCHANGED vars
  BY <1>p, <1>1 DEF vars, updater, window, boxes, Held, LineInv, To
<1>2. CASE InCall
  <2>w. UNCHANGED <<con, look, copy, Held>>
    BY <1>2, UpdaterLeavesWindow DEF window, Held
  <2>1. CASE WriteHead
    <3>1. /\ flag' = flag /\ UNCHANGED <<todo, n>> /\ main = "head" /\ main' = "body"
      BY <2>1 DEF WriteHead, updater
    <3>2. CASE To("status")
      <4>1. ~flag["status"] /\ box'["status"].head = n
        BY <1>t, <2>1, <3>1, <3>2, LineTyped DEF WriteHead, LineInv, To, Typed, BoxesTyped, Buffer
      <4>. QED
        BY <1>p, <2>w, <3>1, <4>1 DEF LineInv, Held, To
    <3>3. CASE ~To("status")
      <4>1. box'["status"] = box["status"]
        BY <1>t, <2>1, <3>3, LineTyped DEF WriteHead, To, Typed, UpdaterTyped, BoxesTyped
      <4>. QED
        BY <1>p, <2>w, <3>1, <3>3, <4>1 DEF LineInv, Held, To
    <3>. QED
      BY <3>2, <3>3
  <2>2. CASE WriteBody
    <3>1. box'["status"] = box["status"] /\ flag'["status"] = flag["status"] /\ main' = "leave"
      BY <1>t, <2>2, LineTyped DEF WriteBody, Typed, BoxesTyped
    <3>. QED
      BY <1>p, <2>w, <3>1 DEF LineInv
  <2>3. CASE WriteStep \/ FlagStep
    <3>1. /\ box' = box /\ flag'["status"] = flag["status"] /\ UNCHANGED <<todo, n>>
          /\ ~To("status")
      BY <1>t, <2>3, LineTyped DEF WriteStep, FlagStep, To, Typed, BoxesTyped
    <3>. QED
      BY <1>p, <2>w, <3>1 DEF LineInv, To
  <2>4. CASE Wait
    <3>1. /\ box' = box /\ flag' = flag /\ UNCHANGED <<todo, n>> /\ main' = "enter"
          /\ To("status") => ~flag["status"]
      BY <2>4 DEF Wait, boxes, To, Full
    <3>. QED
      BY <1>p, <2>w, <3>1 DEF LineInv, To
  <2>5. CASE Enter
    <3>1. /\ box' = box /\ flag' = flag /\ UNCHANGED <<todo, n>> /\ main = "enter" /\ main' = "head"
      BY <2>5 DEF Enter
    <3>. QED
      BY <1>p, <2>w, <3>1 DEF LineInv, To
  <2>6. CASE Post
    <3>1. /\ box' = box /\ flag' = flag /\ main' \in {"ready", "wait", "enter"}
          /\ main' = "enter" => Head(todo) = "progress" /\ UNCHANGED todo
      BY <2>6 DEF Post, boxes
    <3>. QED
      BY <1>p, <2>w, <3>1 DEF LineInv, To
  <2>7. CASE CreateConsole \/ Leave \/ ButtonDisabled \/ ClearQuitOnClose \/ Return
    <3>1. box' = box /\ flag' = flag /\ main' \notin {"enter", "head", "body"}
      BY <2>7 DEF CreateConsole, Leave, ButtonDisabled, ClearQuitOnClose, Return, boxes
    <3>. QED
      BY <1>p, <2>w, <3>1 DEF LineInv
  <2>. QED
    BY <1>2, <1>p, <2>1, <2>2, <2>3, <2>4, <2>5, <2>6, <2>7 DEF InCall
<1>3. CASE Calling
  <2>1. box' = box /\ flag' = flag /\ main' \notin {"enter", "head", "body"} /\ UNCHANGED window
    BY <1>3 DEF Calling, DisableExit, DestroyConsole, Report, boxes
  <2>. QED
    BY <1>p, <2>1 DEF LineInv, Held, window
<1>4. CASE WindowThread
  <2>u. UNCHANGED <<main, todo, n>>
    BY <1>4, WindowLeavesUpdater DEF updater
  <2>1. CASE TakeOut
    <3>1. CASE look = "status"
      <4>1. /\ flag["status"] /\ ~flag'["status"] /\ box' = box /\ copy' = box["status"]
            /\ ~Held /\ Held'
        BY <1>t, <2>1, <3>1, LineTyped DEF TakeOut, LineInv, Held, Typed, BoxesTyped
      <4>2. Len(Posted) = Len(Shown) + 1
        BY <1>t, <4>1, LineTyped DEF LineInv
      <4>. QED
        BY <1>t, <1>p, <2>u, <2>1, <4>1, <4>2, LineTyped DEF TakeOut, LineInv, To
    <3>2. CASE look # "status"
      <4>1. /\ flag'["status"] = flag["status"] /\ box'["status"] = box["status"]
            /\ ~Held /\ ~Held' /\ look' = look
        BY <1>t, <2>1, <3>2, LineTyped DEF TakeOut, Held, Typed, BoxesTyped
      <4>. QED
        BY <1>p, <2>u, <3>2, <4>1 DEF LineInv, To
    <3>. QED
      BY <3>1, <3>2
  <2>2. CASE Wipe
    <3>1. look # "status" /\ box'["status"] = box["status"] /\ flag' = flag
      BY <1>t, <2>2, LineTyped DEF Wipe, Typed, WindowTyped, BoxesTyped
    <3>2. con = "wipe" /\ con' \in {"look", "pump"} /\ ~Held /\ ~Held'
      BY <2>2 DEF Wipe, GoOn, Held
    <3>. QED
      BY <1>p, <2>u, <3>1, <3>2 DEF LineInv, To
  <2>3. CASE Show
    <3>1. box' = box /\ flag' = flag /\ con' \in {"look", "pump", "wipe"} /\ ~Held /\ ~Held'
      BY <2>3 DEF Show, GoOn, Held, boxes
    <3>. QED
      BY <1>p, <2>u, <3>1 DEF LineInv, To
  <2>4. CASE LookInside
    <3>1. /\ box' = box /\ flag' = flag /\ ~Held /\ ~Held'
          /\ con' \in {"enter", "copy"} /\ look' = "status" => flag["status"]
      BY <2>4 DEF LookInside, GoOn, Full, Held, boxes
    <3>. QED
      BY <1>p, <2>u, <3>1 DEF LineInv, To
  <2>5. CASE AllowQuit \/ WindowCreated \/ PumpEnable \/ PumpClose \/ PumpNothing \/ Exit
    <3>1. box' = box /\ flag' = flag /\ con' \notin {"enter", "copy"} /\ ~Held /\ ~Held'
      BY <2>5 DEF AllowQuit, WindowCreated, PumpEnable, PumpClose, PumpNothing, Exit, window, boxes, Held
    <3>. QED
      BY <1>p, <2>u, <3>1 DEF LineInv, To
  <2>6. CASE EnterWindow \/ LeaveWindow
    <3>1. /\ box' = box /\ flag' = flag /\ UNCHANGED <<copy, look, Held>>
          /\ con' = "copy" => con = "enter"
          /\ con' \in {"copy", "show"}
      BY <2>6 DEF EnterWindow, LeaveWindow, Held
    <3>. QED
      BY <1>p, <2>u, <3>1 DEF LineInv, To
  <2>. QED
    BY <1>4, <1>p, <2>1, <2>2, <2>3, <2>4, <2>5, <2>6 DEF WindowThread
<1>5. CASE User
  <2>1. UNCHANGED <<updater, window, boxes>>
    BY <1>5 DEF User, UserCloses
  <2>. QED
    BY <1>p, <2>1 DEF LineInv, To, Held, updater, window, boxes
<1>. QED
  BY <1>p, <1>1, <1>2, <1>3, <1>4, <1>5 DEF Next, Over

LEMMA NextStatus ==
    ASSUME StatusInv, [Next]_vars
    PROVE  StatusInv' /\ [StatusMailbox!Next]_<<Posted, Shown>>
<1>1. Typed'
  BY NextTyped DEF StatusInv
<1>2. CASE WriteBody /\ Head(todo) = "status"
  <2>1. StatusMailbox!Send(n) /\ n \in 1 .. MaxPosts /\ LineInv'
    BY <1>2, WriteStatus
  <2>. QED
    BY <1>1, <2>1 DEF StatusInv, StatusMailbox!Next
<1>3. CASE Show /\ look = "status"
  <2>1. StatusMailbox!Receive /\ LineInv'
    BY <1>3, ShowStatus
  <2>. QED
    BY <1>1, <2>1 DEF StatusInv, StatusMailbox!Next
<1>. QED
  BY <1>1, <1>2, <1>3, LineKept DEF StatusInv

\* The status line shows every text that was given to it, once and in order, and
\* the updater is at most two texts ahead of it.
THEOREM StatusIsMailbox == Spec => StatusLineIsLossless
<1>1. Init => StatusMailbox!Init
  BY DEF Init, StatusMailbox!Init, Texts, Flagged
<1>2. StatusInv /\ [Next]_vars => StatusInv' /\ [StatusMailbox!Next]_<<Posted, Shown>>
  BY NextStatus
<1>. QED
  BY <1>1, <1>2, InitStatus, PTL DEF Spec, StatusLineIsLossless, StatusMailbox!Spec, Posted, Shown
============================================================================
