------------------------------ MODULE Console ------------------------------
(***************************************************************************)
(* The console window of the updater (win_syscon.c): the updater's own     *)
(* thread leaves texts and a progress value in mailboxes, the window       *)
(* thread polls them, shows them, and handles the user's attempts to       *)
(* close the window.  One critical section guards the mailboxes, but not   *)
(* every access to them is made inside it.                                 *)
(*                                                                         *)
(* A text is a number (0 is the empty text).  A buffer is its first byte,  *)
(* which is also tested and cleared on its own, and the rest.              *)
(***************************************************************************)
EXTENDS Naturals, Sequences

CONSTANTS MaxPosts,      \* bound: how often the updater reports something
          MaxCloses,     \* bound: how often the user tries to close the window
          WindowInTime   \* is the window there when Sys_CreateConsole stops waiting

ASSUME ConsoleAssumption ==
    MaxPosts \in Nat /\ MaxCloses \in Nat /\ WindowInTime \in BOOLEAN

Flagged  == {"status", "status2"}        \* statusText, statusText2 and their flags
Texts    == Flagged \cup {"console"}     \* consoleBuffer has no flag
Channels == Texts \cup {"progress"}

Calls == {<<"console">>,                 \* Com_Printf
          <<"status", "console">>,       \* Com_PrintStatus
          <<"status2", "progress">>}     \* FileDownloadGenerateProgress

VARIABLES
    main,           \* where the updater's thread is in a call
    phase,          \* "prepare", "apply" (after DisableExit) or "over"
    todo,           \* the mailboxes the current call still has to fill
    n,              \* number of calls so far, and the text of the current one
    con,            \* where the window thread is
    look,           \* the mailbox it is looking at
    copy,           \* its local buf, or tmp
    cs,             \* who is in the critical section
    box, flag, pos, \* the mailboxes
    posted, shown,  \* history: texts put into and taken out of each mailbox
    bar,            \* the progress bar
    windowCreated, quitOnClose,
    running,        \* s_wcd.threadid # 0
    sentEnable,     \* EnableWindow's message waits for the window thread
    closeQueued, closes,
    accepted,       \* where the updater was when a close was accepted
    ended           \* exit() was called, or CoD4UpdateMain has returned

updater == <<main, phase, todo, n>>
window  == <<con, look, copy>>
boxes   == <<cs, box, flag, pos>>
seen    == <<posted, shown, bar>>
life    == <<windowCreated, quitOnClose, running, sentEnable, closeQueued, closes,
             accepted, ended>>
vars    == <<updater, window, boxes, seen, life>>

Buffer == [head : 0 .. MaxPosts, body : 0 .. MaxPosts]
Empty  == [head |-> 0, body |-> 0]
Torn   == MaxPosts + 1        \* not a text anybody wrote

TypeOK ==
    /\ main \in {"start", "ready", "wait", "enter", "head", "body", "leave",
                 "enable", "gap", "sleep", "done"}
    /\ phase \in {"prepare", "apply", "over"}
    /\ todo \in Calls \cup {<<"progress">>, <<>>} /\ n \in 0 .. MaxPosts
    /\ con \in {"create", "created", "look", "enter", "copy", "leave", "show", "wipe",
                "pump", "exiting", "gone"}
    /\ look \in Channels /\ copy \in Buffer
    /\ cs \in {"free", "main", "con"}
    /\ box \in [Texts -> Buffer] /\ flag \in [Channels -> BOOLEAN] /\ pos \in 0 .. MaxPosts
    /\ posted \in [Texts -> Seq(1 .. MaxPosts)]
    /\ shown \in [Texts -> Seq(0 .. Torn)]
    /\ bar \in 0 .. MaxPosts
    /\ windowCreated \in BOOLEAN /\ quitOnClose \in BOOLEAN /\ running \in BOOLEAN
    /\ sentEnable \in BOOLEAN /\ closeQueued \in BOOLEAN /\ ended \in BOOLEAN
    /\ closes \in 0 .. MaxCloses
    /\ accepted \in {"never", "prepare", "gap", "apply"}

Init ==
    /\ main = "start" /\ phase = "prepare" /\ todo = <<>> /\ n = 0
    /\ con = "create" /\ look = "status" /\ copy = Empty
    /\ cs = "free" /\ pos = 0 /\ bar = 0
    /\ box = [c \in Texts |-> Empty] /\ flag = [c \in Channels |-> FALSE]
    /\ posted = [c \in Texts |-> <<>>] /\ shown = [c \in Texts |-> <<>>]
    /\ windowCreated = FALSE /\ quitOnClose = FALSE /\ running = TRUE
    /\ sentEnable = FALSE /\ closeQueued = FALSE /\ closes = 0
    /\ accepted = "never" /\ ended = FALSE

\* Is something in the mailbox; read without the critical section.
Full(c) == IF c = "console" THEN box[c].head # 0 ELSE flag[c]

\* What a reader finds in a buffer.
TextOf(b) == IF b.head = 0 THEN 0 ELSE IF b.head = b.body THEN b.head ELSE Torn
----------------------------------------------------------------------------
(* The updater's thread.                                                   *)

\* Sys_CreateConsole returns once the window is there, or after 100 sleeps.
CreateConsole ==
    /\ main = "start" /\ main' = "ready"
    /\ WindowInTime => windowCreated
    /\ UNCHANGED <<phase, todo, n, window, boxes, seen, life>>

Report(call) ==
    /\ main = "ready" /\ todo = <<>> /\ phase \in {"prepare", "apply"} /\ n < MaxPosts
    /\ todo' = call /\ n' = n + 1
    /\ UNCHANGED <<main, phase, window, boxes, seen, life>>

\* Every call returns at once while there is no window.
Post ==
    /\ main = "ready" /\ todo # <<>>
    /\ IF ~windowCreated THEN todo' = Tail(todo) /\ UNCHANGED main
       ELSE /\ main' = IF Head(todo) = "progress" THEN "enter" ELSE "wait"
            /\ UNCHANGED todo
    /\ UNCHANGED <<phase, n, window, boxes, seen, life>>

\* while(...) Sleep(5): until the window thread has emptied the mailbox.
Wait ==
    /\ main = "wait" /\ ~Full(Head(todo)) /\ main' = "enter"
    /\ UNCHANGED <<phase, todo, n, window, boxes, seen, life>>

\* (variant) The text is written outside the critical section.
EnterUnguarded ==
    /\ main = "enter" /\ main' = "head"
    /\ UNCHANGED <<phase, todo, n, window, boxes, seen, life>>

Enter ==
    /\ main = "enter" /\ cs = "free" /\ cs' = "main" /\ main' = "head"
    /\ UNCHANGED <<phase, todo, n, window, box, flag, pos, seen, life>>

\* The first byte of Q_strncpyz.
WriteHead ==
    /\ main = "head" /\ Head(todo) \in Texts /\ main' = "body"
    /\ box' = [box EXCEPT ![Head(todo)].head = n]
    /\ UNCHANGED <<phase, todo, n, window, cs, flag, pos, seen, life>>

\* The rest of Q_strncpyz, and the flag of the mailboxes that have one.
WriteBody ==
    /\ main = "body" /\ Head(todo) \in Texts /\ main' = "leave"
    /\ box' = [box EXCEPT ![Head(todo)].body = n]
    /\ flag' = [flag EXCEPT ![Head(todo)] = Head(todo) \in Flagged]
    /\ posted' = [posted EXCEPT ![Head(todo)] = Append(@, n)]
    /\ UNCHANGED <<phase, todo, n, window, cs, pos, shown, bar, life>>

\* Sys_SetProgress: the value, and then its flag.
WriteStep ==
    /\ main = "head" /\ Head(todo) = "progress" /\ main' = "body"
    /\ pos' = n
    /\ UNCHANGED <<phase, todo, n, window, cs, box, flag, seen, life>>

FlagStep ==
    /\ main = "body" /\ Head(todo) = "progress" /\ main' = "leave"
    /\ flag' = [flag EXCEPT !["progress"] = TRUE]
    /\ UNCHANGED <<phase, todo, n, window, cs, box, pos, seen, life>>

\* (variant) The same mailbox is filled again.
LeaveStaying ==
    /\ main = "leave" /\ cs' = "free" /\ main' = "ready" /\ todo' = <<Head(todo)>>
    /\ UNCHANGED <<phase, n, window, box, flag, pos, seen, life>>

Leave ==
    /\ main = "leave" /\ cs' = "free" /\ main' = "ready" /\ todo' = Tail(todo)
    /\ UNCHANGED <<phase, n, window, box, flag, pos, seen, life>>

\* (variant) The button is disabled without waiting for the window thread.
DisableExitUnsynchronised ==
    /\ main = "ready" /\ todo = <<>> /\ phase = "prepare" /\ main' = "gap"
    /\ UNCHANGED <<phase, todo, n, sentEnable, window, boxes, seen, windowCreated,
                   quitOnClose, running, closeQueued, closes, accepted, ended>>

\* DisableExit: EnableWindow sends a message to the other thread and waits ...
DisableExit ==
    /\ main = "ready" /\ todo = <<>> /\ phase = "prepare"
    /\ IF windowCreated THEN main' = "enable" /\ sentEnable' = TRUE /\ UNCHANGED phase
                        ELSE phase' = "apply" /\ UNCHANGED <<main, sentEnable>>
    /\ UNCHANGED <<todo, n, window, boxes, seen, windowCreated, quitOnClose, running,
                   closeQueued, closes, accepted, ended>>

ButtonDisabled ==
    /\ main = "enable" /\ ~sentEnable /\ main' = "gap"
    /\ UNCHANGED <<phase, todo, n, window, boxes, seen, life>>

\* ... and then quitOnClose is cleared.
ClearQuitOnClose ==
    /\ main = "gap" /\ main' = "ready" /\ phase' = "apply" /\ quitOnClose' = FALSE
    /\ UNCHANGED <<todo, n, window, boxes, seen, windowCreated, running, sentEnable,
                   closeQueued, closes, accepted, ended>>

\* CoD4UpdateShutdown: the window thread is told to end, and given 500 ms.
DestroyConsole ==
    /\ main = "ready" /\ todo = <<>> /\ phase # "over"
    /\ main' = "sleep" /\ phase' = "over" /\ running' = FALSE
    /\ UNCHANGED <<todo, n, window, boxes, seen, windowCreated, quitOnClose, sentEnable,
                   closeQueued, closes, accepted, ended>>

Return ==
    /\ main = "sleep" /\ main' = "done" /\ ended' = TRUE
    /\ UNCHANGED <<phase, todo, n, window, boxes, seen, windowCreated, quitOnClose, running,
                   sentEnable, closeQueued, closes, accepted>>
----------------------------------------------------------------------------
(* The window thread.                                                      *)

\* The end of Sys_ConsoleThread's preparations.
AllowQuit ==
    /\ con = "create" /\ con' = "created" /\ quitOnClose' = TRUE
    /\ UNCHANGED <<updater, look, copy, boxes, seen, windowCreated, running, sentEnable,
                   closeQueued, closes, accepted, ended>>

WindowCreated ==
    /\ con = "created" /\ con' = "look" /\ windowCreated' = TRUE
    /\ UNCHANGED <<updater, look, copy, boxes, seen, quitOnClose, running, sentEnable,
                   closeQueued, closes, accepted, ended>>

\* The order in which Sys_ProcessPumpedMessages looks at the mailboxes; after
\* the last one the message loop takes a window message.
After(c) == CASE c = "status"   -> "status2"
              [] c = "status2"  -> "progress"
              [] c = "progress" -> "console"
              [] OTHER          -> "status"

GoOn == /\ con' = IF look = "console" THEN "pump" ELSE "look"
        /\ look' = After(look)

\* (variant) The second status line is not looked at.
LookInsideSkipping ==
    /\ con = "look"
    /\ IF look = "status" /\ ~running THEN con' = "gone" /\ UNCHANGED look
       ELSE IF Full(look) /\ look # "status2" THEN con' = "enter" /\ UNCHANGED look
       ELSE GoOn
    /\ UNCHANGED <<updater, copy, boxes, seen, life>>

\* Sys_EventLoop's while (threadid), and the test of each mailbox.
LookInside ==
    /\ con = "look"
    /\ IF look = "status" /\ ~running THEN con' = "gone" /\ UNCHANGED look
       ELSE IF Full(look) THEN con' = "enter" /\ UNCHANGED look
       ELSE GoOn
    /\ UNCHANGED <<updater, copy, boxes, seen, life>>

\* (variant) The mailbox is emptied outside the critical section.
EnterWindowUnguarded ==
    /\ con = "enter" /\ con' = "copy"
    /\ UNCHANGED <<updater, look, copy, boxes, seen, life>>

EnterWindow ==
    /\ con = "enter" /\ cs = "free" /\ cs' = "con" /\ con' = "copy"
    /\ UNCHANGED <<updater, look, copy, box, flag, pos, seen, life>>

\* The text is copied and the mailbox is marked as empty.
TakeOut ==
    /\ con = "copy" /\ con' = "leave"
    /\ copy' = IF look = "progress" THEN [head |-> pos, body |-> pos] ELSE box[look]
    /\ pos' = IF look = "progress" THEN 0 ELSE pos
    /\ IF look = "console" THEN box' = [box EXCEPT !["console"].head = 0] /\ UNCHANGED flag
                           ELSE flag' = [flag EXCEPT ![look] = FALSE] /\ UNCHANGED box
    /\ UNCHANGED <<updater, look, cs, seen, life>>

LeaveWindow ==
    /\ con = "leave" /\ con' = "show" /\ cs' = "free"
    /\ UNCHANGED <<updater, look, copy, box, flag, pos, seen, life>>

\* (variant) The flag is cleared once more after the text was shown, as
\* consoleBuffer[0] is.
ShowClearing ==
    /\ con = "show"
    /\ IF look = "progress" THEN bar' = copy.head /\ UNCHANGED shown
       ELSE shown' = [shown EXCEPT ![look] = Append(@, TextOf(copy))] /\ UNCHANGED bar
    /\ flag' = [flag EXCEPT ![look] = FALSE]
    /\ IF look \in {"status2", "console"} THEN con' = "wipe" /\ UNCHANGED look ELSE GoOn
    /\ UNCHANGED <<updater, copy, cs, box, pos, posted, life>>

\* SetWindowText, PBM_SETPOS, Conbuf_AppendTextInternal.
Show ==
    /\ con = "show"
    /\ IF look = "progress" THEN bar' = copy.head /\ UNCHANGED shown
       ELSE shown' = [shown EXCEPT ![look] = Append(@, TextOf(copy))] /\ UNCHANGED bar
    /\ IF look \in {"status2", "console"} THEN con' = "wipe" /\ UNCHANGED look ELSE GoOn
    /\ UNCHANGED <<updater, copy, boxes, posted, life>>

\* The second statusText2[0] = '\0', or consoleBuffer[0] = '\0'.
Wipe ==
    /\ con = "wipe" /\ box' = [box EXCEPT ![look].head = 0] /\ GoOn
    /\ UNCHANGED <<updater, copy, cs, flag, pos, seen, life>>

\* PeekMessageA delivers what other threads sent before anything else.
PumpEnable ==
    /\ con = "pump" /\ sentEnable /\ sentEnable' = FALSE
    /\ UNCHANGED <<updater, window, boxes, seen, windowCreated, quitOnClose, running,
                   closeQueued, closes, accepted, ended>>

\* WM_CLOSE, or the quit button: CoD4UpdateShutdown(1), or the window is hidden.
PumpClose ==
    /\ con = "pump" /\ ~sentEnable /\ closeQueued /\ closeQueued' = FALSE
    /\ IF quitOnClose
       THEN /\ con' = "exiting" /\ running' = FALSE
            /\ accepted' = IF phase = "apply" THEN "apply"
                           ELSE IF main \in {"enable", "gap"} THEN "gap" ELSE "prepare"
       ELSE con' = "look" /\ UNCHANGED <<running, accepted>>
    /\ UNCHANGED <<updater, look, copy, boxes, seen, windowCreated, quitOnClose, sentEnable,
                   closes, ended>>

PumpNothing ==
    /\ con = "pump" /\ ~sentEnable /\ ~closeQueued /\ con' = "look"
    /\ UNCHANGED <<updater, look, copy, boxes, seen, life>>

\* After its 500 ms CoD4UpdateShutdown(1) ends the process.
Exit ==
    /\ con = "exiting" /\ ended' = TRUE
    /\ UNCHANGED <<updater, window, boxes, seen, windowCreated, quitOnClose, running,
                   sentEnable, closeQueued, closes, accepted>>

\* The user clicks on the window's close box or on "quit".
UserCloses ==
    /\ windowCreated /\ ~closeQueued /\ closes < MaxCloses
    /\ closeQueued' = TRUE /\ closes' = closes + 1
    /\ UNCHANGED <<updater, window, boxes, seen, windowCreated, quitOnClose, running,
                   sentEnable, accepted, ended>>
----------------------------------------------------------------------------
InCall == /\ ~ended
          /\ \/ CreateConsole \/ Post \/ Wait \/ Enter \/ WriteHead \/ WriteBody
             \/ WriteStep \/ FlagStep \/ Leave \/ ButtonDisabled \/ ClearQuitOnClose
             \/ Return

Calling == /\ ~ended
           /\ \/ DisableExit \/ DestroyConsole
              \/ \E call \in Calls : Report(call)

WindowThread == /\ ~ended
                /\ \/ AllowQuit \/ WindowCreated \/ LookInside \/ EnterWindow \/ TakeOut
                   \/ LeaveWindow \/ Show \/ Wipe \/ PumpEnable \/ PumpClose \/ PumpNothing
                   \/ Exit

User == ~ended /\ UserCloses

Over == ended /\ UNCHANGED vars

Next == InCall \/ Calling \/ WindowThread \/ User \/ Over

Spec == Init /\ [][Next]_vars

\* Both threads are scheduled; the updater need not make another call, and the
\* user need not do anything.
FairSpec == Spec /\ WF_vars(InCall) /\ WF_vars(WindowThread)
----------------------------------------------------------------------------
(* Properties.                                                             *)

\* No text is shown that was only half written: consoleBuffer is seen to be
\* full while it is being written, and only the critical section keeps the
\* window thread from copying it then.
NoTornText == \A c \in Texts : \A i \in 1 .. Len(shown[c]) : shown[c][i] # Torn

\* The status line shows every text, once, unchanged and in order: its flag is
\* cleared inside the critical section and its buffer is not wiped afterwards
\* (Sys_SetStatusText and Sys_ProcessPumpedMessages).
StatusMailbox == INSTANCE Mailbox WITH
    Message <- 1 .. MaxPosts, Room <- 2, sent <- posted["status"], got <- shown["status"]
StatusLineIsLossless == StatusMailbox!Spec

\* After DisableExit the process is only ended by a close that was accepted
\* between EnableWindow's return and quitOnClose = qfalse: while EnableWindow is
\* waiting, a window thread that is about to exit does not answer it.
ExitOnlyFromGap == con = "exiting" /\ phase = "apply" => accepted = "gap"

\* The progress bar never goes back: progressBarPos is reset to 0 whenever it is
\* taken, and that 0 is never shown, because value and flag change together
\* (Sys_SetProgress reports growing values within one download).
BarNeverBack == [][bar' >= bar]_vars

\* And every report reaches the bar, or a later one does, although Sys_SetProgress
\* overwrites the value without waiting (until the shutdown).
BarFollows ==
    /\ BarNeverBack
    /\ \A k \in 1 .. MaxPosts :
         (main = "leave" /\ todo = <<"progress">> /\ n = k) ~> (bar >= k \/ phase = "over" \/ ended)

\* A call that waits for a mailbox, in a loop without a timeout, finds it empty in
\* the end, and EnableWindow is answered; or the process ends.
CallsReturn == \A waiting \in {"wait", "enable"} : (main = waiting) ~> (main # waiting \/ ended)

\* "it will output to the apropriate place" (update_main.c:106): what Com_Printf
\* puts into consoleBuffer is shown, in order.
ConsoleMailbox == INSTANCE Mailbox WITH
    Message <- 1 .. MaxPosts, Room <- 2, sent <- posted["console"], got <- shown["console"]
ConsoleIsLossless == ConsoleMailbox!Spec
=============================================================================
