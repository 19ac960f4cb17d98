------------------------ MODULE UpdateInstallProofs ------------------------
(***************************************************************************)
(* Theorems about UpdateInstall for every number of files, every split     *)
(* into game-directory and save-path files and every number of failures.   *)
(***************************************************************************)
EXTENDS UpdateInstall, TLAPS

USE UpdateAssumption DEF UpdateAssumption, File

\* In the steps that work on one file, there is one.
InLoop == pc \in {"verify"} \cup (Applies \ {"dropOld"}) => cur <= cnt

LEMMA SetOne ==
    ASSUME NEW d \in [Places -> [File -> Content]], NEW p \in Places,
           NEW f \in File, NEW c \in Content
    PROVE  [d EXCEPT ![p][f] = c] \in [Places -> [File -> Content]]
OBVIOUS

\* TypeOK in two halves: the variables that steer, and the data.
ControlTyped ==
    /\ pc \in {"off"} \cup Plans \cup Applies
    /\ cur \in 1 .. N + 1 /\ cnt \in 0 .. N
    /\ skipped \subseteq File
    /\ needElevation \in BOOLEAN /\ elevated \in BOOLEAN
    /\ outcome \in Outcomes
    /\ InLoop

DataTyped ==
    /\ body \in {"signed", "corrupt"}
    /\ disk \in [Places -> [File -> Content]]
    /\ versionDir \in BOOLEAN
    /\ told \subseteq File
    /\ faultsLeft \in Nat

Typed == ControlTyped /\ DataTyped

LEMMA TypedIsTypeOK == Typed => TypeOK
BY DEF Typed, TypeOK, ControlTyped, DataTyped

LEMMA Budget == ASSUME faultsLeft \in Nat, NoFault \/ \E k \in FaultKinds : Fault(k)
                PROVE  faultsLeft' \in Nat
BY DEF NoFault, Fault

\* What Goto, End, Advance and Restart leave typed.
LEMMA GotoTyped == ASSUME ControlTyped, NEW l \in Plans \cup Applies, Goto(l),
                          l \in {"verify"} \cup (Applies \ {"dropOld"}) => cur <= cnt
                   PROVE  ControlTyped'
BY DEF ControlTyped, Goto, InLoop

LEMMA EndTyped == ASSUME ControlTyped, NEW r \in Outcomes, End(r) PROVE ControlTyped'
BY DEF ControlTyped, End, InLoop, Applies

LEMMA AdvanceTyped == ASSUME ControlTyped, cur <= N, NEW l \in {"fetch", "dropOld"}, Advance(l)
                      PROVE  ControlTyped'
BY DEF ControlTyped, Advance, InLoop, Applies, Plans

LEMMA RestartTyped == ASSUME ControlTyped, NEW l \in {"fetch", "dropOld"}, Restart(l)
                      PROVE  ControlTyped'
BY DEF ControlTyped, Restart, InLoop, Applies, Plans

LEMMA InitTyped == Init => Typed
<1>1. SUFFICES ASSUME Init PROVE Typed
  OBVIOUS
<1>2. disk \in [Places -> [File -> Content]]
  BY <1>1 DEF Init, Places, Content
<1>3. /\ pc = "off" /\ cur = 1 /\ cnt = 0 /\ skipped = {} /\ told = {}
      /\ needElevation = FALSE /\ elevated = FALSE /\ versionDir = FALSE
      /\ body = "corrupt" /\ outcome = "none" /\ faultsLeft = MaxFaults
  BY <1>1 DEF Init
<1>4. TypeOK
  <2>1. pc \in {"off"} \cup Plans \cup Applies
    BY <1>3
  <2>2. cur \in 1 .. N + 1 /\ cnt \in 0 .. N
    BY <1>3
  <2>3. skipped \subseteq File /\ told \subseteq File
    BY <1>3
  <2>4. needElevation \in BOOLEAN /\ elevated \in BOOLEAN /\ versionDir \in BOOLEAN
    BY <1>3
  <2>5. body \in {"signed", "corrupt"} /\ outcome \in Outcomes
    BY <1>3 DEF Outcomes
  <2>6. faultsLeft \in Nat
    BY <1>3
  <2>. QED
    BY <1>2, <2>1, <2>2, <2>3, <2>4, <2>5, <2>6 DEF TypeOK
<1>5. QED
  BY <1>3, <1>4 DEF Typed, ControlTyped, DataTyped, TypeOK, InLoop, Applies

\* The file operations keep the disk typed.
LEMMA PutTyped == ASSUME DataTyped, cur \in File, NEW p \in Places, NEW c \in Content, Put(p, c)
                  PROVE  disk' \in [Places -> [File -> Content]]
BY SetOne DEF DataTyped, Put

LEMMA RenameTyped == ASSUME DataTyped, cur \in File, NEW from \in Places, NEW to \in Places,
                            NEW a, NEW b, Rename(from, to, a, b)
                     PROVE  disk' \in [Places -> [File -> Content]]
<1>1. CASE UNCHANGED disk
  BY <1>1 DEF DataTyped
<1>2. CASE disk' = [disk EXCEPT ![from][cur] = "absent", ![to][cur] = disk[from][cur]]
  <2> DEFINE d == [disk EXCEPT ![from][cur] = "absent"]
  <2>1. d \in [Places -> [File -> Content]]
    BY SetOne DEF DataTyped, Content
  <2>2. disk[from][cur] \in Content
    BY DEF DataTyped
  <2>3. [d EXCEPT ![to][cur] = disk[from][cur]] \in [Places -> [File -> Content]]
    BY <2>1, <2>2, SetOne
  <2>. QED
    BY <1>2, <2>3
<1>. QED
  BY <1>1, <1>2 DEF Rename

LEMMA CopyTyped == ASSUME DataTyped, cur \in File, NEW from \in Places, NEW to \in Places,
                          NEW a, Copy(from, to, a)
                   PROVE  disk' \in [Places -> [File -> Content]]
<1>1. disk[from][cur] \in Content
  BY DEF DataTyped
<1>. QED
  BY <1>1, PutTyped DEF Copy, DataTyped

LEMMA UnlinkTyped == ASSUME DataTyped, cur \in File, NEW p \in Places, NEW a, Unlink(p, a)
                     PROVE  disk' \in [Places -> [File -> Content]]
BY PutTyped DEF Unlink, DataTyped, Content

LEMMA DestPlace == \A f : Dest(f) \in {"inst", "save"}
BY DEF Dest

LEMMA StartTyped == ASSUME Typed, Launch \/ RestartElevated \/ RestartRefused PROVE Typed'
<1> USE DEF Typed
<1>1. CASE Launch
  <2>1. ControlTyped'
    <3>1. needElevation' \in BOOLEAN /\ elevated' \in BOOLEAN
      BY <1>1 DEF Launch, Run
    <3>2. pc' = "info" /\ cur' = 1 /\ cnt' = 0 /\ skipped' = {} /\ outcome' = "none"
      BY <1>1 DEF Launch, Run
    <3>. QED
      BY <3>1, <3>2 DEF ControlTyped, InLoop, Plans, Applies, Outcomes
  <2>2. DataTyped'
    BY <1>1, Budget DEF Launch, Run, DataTyped
  <2>. QED
    BY <2>1, <2>2
<1>2. CASE RestartElevated
  <2>1. ControlTyped'
    <3>1. needElevation' \in BOOLEAN /\ elevated' \in BOOLEAN
      BY <1>2 DEF RestartElevated, Run
    <3>2. pc' = "info" /\ cur' = 1 /\ cnt' = 0 /\ skipped' = {} /\ outcome' = "none"
      BY <1>2 DEF RestartElevated, Run
    <3>. QED
      BY <3>1, <3>2 DEF ControlTyped, InLoop, Plans, Applies, Outcomes
  <2>2. DataTyped'
    BY <1>2, Budget DEF RestartElevated, Run, DataTyped
  <2>. QED
    BY <2>1, <2>2
<1>3. CASE RestartRefused
  <2>1. ControlTyped'
    BY <1>3, EndTyped DEF RestartRefused, Outcomes
  <2>2. DataTyped'
    BY <1>3, Budget DEF RestartRefused, DataTyped, FaultKinds
  <2>. QED
    BY <2>1, <2>2
<1>. QED
  BY <1>1, <1>2, <1>3

LEMMA InfoTyped == ASSUME Typed, Info PROVE Typed'
<1> USE DEF Typed
<1>1. DataTyped'
  BY Budget DEF Info, InfoFails, InfoUpToDate, InfoEmpty, InfoManifest, InfoQuiet,
                DataTyped, FaultKinds
<1>2. CASE InfoFails \/ InfoUpToDate \/ InfoEmpty
  BY <1>1, <1>2, EndTyped DEF InfoFails, InfoUpToDate, InfoEmpty, Outcomes
<1>3. CASE \E n \in 0 .. N : InfoManifest(n)
  <2>1. ControlTyped'
    BY <1>3 DEF InfoManifest, ControlTyped, InLoop, Plans, Applies
  <2>. QED
    BY <1>1, <2>1
<1>. QED
  BY <1>2, <1>3 DEF Info

LEMMA ParseTyped == ASSUME Typed, Parse PROVE Typed'
<1> USE DEF Typed
<1>1. DataTyped'
  <2>1. faultsLeft' \in Nat
    BY Budget DEF Parse, ParseLine, ParseFails, ParseDone, DataTyped, FaultKinds
  <2>2. UNCHANGED <<body, disk, versionDir, told>>
    BY DEF Parse, ParseLine, ParseFails, ParseDone
  <2>. QED
    BY <2>1, <2>2 DEF DataTyped
<1>2. CASE ParseLine
  <2>1. cur \in File /\ pc = "parse" /\ cur' = cur + 1
    BY <1>2 DEF ParseLine, ControlTyped
  <2>2. skipped' \subseteq File
    BY <1>2, <2>1 DEF ParseLine, ControlTyped
  <2>3. needElevation' \in BOOLEAN
    BY <1>2 DEF ParseLine, ControlTyped
  <2>4. UNCHANGED <<pc, cnt, elevated, outcome>>
    BY <1>2 DEF ParseLine
  <2>5. ControlTyped'
    BY <2>1, <2>2, <2>3, <2>4 DEF ControlTyped, InLoop, Applies
  <2>. QED
    BY <1>1, <2>5
<1>3. CASE ParseFails
  BY <1>1, <1>3, EndTyped DEF ParseFails, Outcomes
<1>4. CASE ParseDone
  BY <1>1, <1>4, EndTyped, RestartTyped DEF ParseDone, Outcomes
<1>. QED
  BY <1>2, <1>3, <1>4 DEF Parse

LEMMA FetchTyped == ASSUME Typed, Fetch PROVE Typed'
<1> USE DEF Typed
<1>a. "staged" \in Places /\ "corrupt" \in Content /\ "signed" \in Content
  BY DEF Places, Content
<1>b. faultsLeft' \in Nat
  BY Budget DEF Fetch, FetchSkips, FetchFails, FetchWrites, FetchWriteFails, FetchVerifies,
                FetchDone, DataTyped, FaultKinds
<1>c. ASSUME UNCHANGED <<body, disk, versionDir, told>> PROVE DataTyped'
  BY <1>b, <1>c DEF DataTyped
<1>1. CASE FetchSkips
  BY <1>1, <1>c, AdvanceTyped DEF FetchSkips, ControlTyped
<1>2. CASE FetchFails
  BY <1>2, <1>c, EndTyped DEF FetchFails, Outcomes
<1>3. CASE FetchWrites
  <2>1. cur \in File
    BY <1>3 DEF FetchWrites, ControlTyped
  <2>2. disk' \in [Places -> [File -> Content]]
    BY <1>3, <1>a, <2>1, SetOne DEF FetchWrites, DataTyped
  <2>3. DataTyped'
    BY <1>3, <1>b, <2>2 DEF FetchWrites, DataTyped
  <2>4. ControlTyped'
    BY <1>3, GotoTyped DEF FetchWrites, Plans
  <2>. QED
    BY <2>3, <2>4
<1>4. CASE FetchWriteFails
  <2>1. cur \in File
    BY <1>4 DEF FetchWriteFails, ControlTyped
  <2>2. disk' \in [Places -> [File -> Content]]
    BY <1>4, <1>a, <2>1, SetOne DEF FetchWriteFails, DataTyped
  <2>3. DataTyped'
    BY <1>4, <1>b, <2>2 DEF FetchWriteFails, DataTyped
  <2>4. ControlTyped'
    BY <1>4, EndTyped DEF FetchWriteFails, Outcomes
  <2>. QED
    BY <2>3, <2>4
<1>5. CASE FetchVerifies
  BY <1>5, <1>c, AdvanceTyped, EndTyped DEF FetchVerifies, ControlTyped, InLoop, Outcomes
<1>6. CASE FetchDone
  BY <1>6, <1>c, RestartTyped DEF FetchDone
<1>. QED
  BY <1>1, <1>2, <1>3, <1>4, <1>5, <1>6 DEF Fetch

LEMMA ApplyTyped == ASSUME Typed, Apply PROVE Typed'
<1> USE DEF Typed
<1>a. {"inst", "old", "new", "staged"} \subseteq Places /\ Dest(cur) \in Places
  BY DestPlace DEF Places
<1>b. faultsLeft' \in Nat
  BY Budget DEF Apply, ApplySkips, ApplyDone, DropOldBackup, BackUp, BackUpCopies, BackUpBreaks,
     BackUpUnlinks, ClearOld, MoveLegacy, LegacyCopies, LegacyBreaks, LegacyUnlinks, Place,
     PlaceCopies, PlaceUnlinks, Confirm, Rename, Copy, CopyFails, Unlink, DataTyped, FaultKinds
<1>c. ASSUME ApplyQuiet, disk' \in [Places -> [File -> Content]] PROVE DataTyped'
  BY <1>b, <1>c DEF DataTyped, ApplyQuiet
<1>d. (pc \in Applies \ {"dropOld"}) => cur <= cnt /\ cur \in File
  BY DEF ControlTyped, InLoop
<1>1. CASE ApplySkips
  BY <1>1, <1>c, AdvanceTyped DEF ApplySkips, ControlTyped, DataTyped
<1>2. CASE ApplyDone
  BY <1>2, <1>c, EndTyped DEF ApplyDone, Outcomes, DataTyped
<1>3. CASE DropOldBackup
  <2>1. cur \in File /\ cur <= cnt
    BY <1>3 DEF DropOldBackup, ControlTyped
  <2>2. DataTyped'
    BY <1>3, <1>a, <1>c, <2>1, UnlinkTyped DEF DropOldBackup
  <2>3. ControlTyped'
    BY <1>3, <2>1, GotoTyped DEF DropOldBackup, Unlink, Applies
  <2>. QED
    BY <2>2, <2>3
<1>4. CASE BackUp
  <2>1. cur \in File /\ cur <= cnt
    BY <1>4, <1>d DEF BackUp, Applies
  <2>2. disk' \in [Places -> [File -> Content]]
    BY <1>4, <1>a, <2>1, RenameTyped DEF BackUp, DataTyped
  <2>3. ControlTyped'
    BY <1>4, <2>1, GotoTyped DEF BackUp, Rename, Applies
  <2>. QED
    BY <1>4, <1>c, <2>2, <2>3 DEF BackUp
<1>5. CASE BackUpCopies
  <2>1. cur \in File /\ cur <= cnt
    BY <1>5, <1>d DEF BackUpCopies, Applies
  <2>2. DataTyped'
    BY <1>5, <1>a, <1>c, <2>1, CopyTyped DEF BackUpCopies
  <2>3. ControlTyped'
    BY <1>5, <2>1, GotoTyped DEF BackUpCopies, Copy, Applies
  <2>. QED
    BY <2>2, <2>3
<1>6. CASE BackUpBreaks
  <2>1. cur \in File
    BY <1>6, <1>d DEF BackUpBreaks, Applies
  <2>2. DataTyped'
    BY <1>6, <1>a, <1>c, <2>1, PutTyped DEF BackUpBreaks, CopyFails, Content
  <2>3. ControlTyped'
    BY <1>6, EndTyped DEF BackUpBreaks, CopyFails, Outcomes
  <2>. QED
    BY <2>2, <2>3
<1>7. CASE BackUpUnlinks
  <2>1. cur \in File /\ cur <= cnt
    BY <1>7, <1>d DEF BackUpUnlinks, Applies
  <2>2. DataTyped'
    BY <1>7, <1>a, <1>c, <2>1, UnlinkTyped DEF BackUpUnlinks
  <2>3. ControlTyped'
    BY <1>7, <2>1, GotoTyped DEF BackUpUnlinks, Unlink, Applies
  <2>. QED
    BY <2>2, <2>3
<1>8. CASE ClearOld
  <2>1. cur \in File /\ cur <= cnt
    BY <1>8, <1>d DEF ClearOld, Applies
  <2>2. disk' \in [Places -> [File -> Content]]
    BY <1>8, <1>a, <2>1, PutTyped DEF ClearOld, DataTyped, Content
  <2>3. ControlTyped'
    BY <1>8, <2>1, GotoTyped, EndTyped DEF ClearOld, Applies, Outcomes
  <2>. QED
    BY <1>8, <1>c, <2>2, <2>3 DEF ClearOld
<1>9. CASE MoveLegacy
  <2>1. cur \in File /\ cur <= cnt
    BY <1>9, <1>d DEF MoveLegacy, Applies
  <2>2. DataTyped'
    BY <1>9, <1>a, <1>c, <2>1, RenameTyped DEF MoveLegacy
  <2>3. ControlTyped'
    BY <1>9, <2>1, GotoTyped DEF MoveLegacy, Rename, Applies
  <2>. QED
    BY <2>2, <2>3
<1>10. CASE LegacyCopies
  <2>1. cur \in File /\ cur <= cnt
    BY <1>10, <1>d DEF LegacyCopies, Applies
  <2>2. DataTyped'
    BY <1>10, <1>a, <1>c, <2>1, CopyTyped DEF LegacyCopies
  <2>3. ControlTyped'
    BY <1>10, <2>1, GotoTyped DEF LegacyCopies, Copy, Applies
  <2>. QED
    BY <2>2, <2>3
<1>11. CASE LegacyBreaks
  <2>1. cur \in File
    BY <1>11, <1>d DEF LegacyBreaks, Applies
  <2>2. DataTyped'
    BY <1>11, <1>a, <1>c, <2>1, PutTyped DEF LegacyBreaks, CopyFails, Content
  <2>3. ControlTyped'
    BY <1>11, EndTyped DEF LegacyBreaks, CopyFails, Outcomes
  <2>. QED
    BY <2>2, <2>3
<1>12. CASE LegacyUnlinks
  <2>1. cur \in File /\ cur <= cnt
    BY <1>12, <1>d DEF LegacyUnlinks, Applies
  <2>2. DataTyped'
    BY <1>12, <1>a, <1>c, <2>1, UnlinkTyped DEF LegacyUnlinks
  <2>3. ControlTyped'
    BY <1>12, <2>1, GotoTyped DEF LegacyUnlinks, Unlink, Applies
  <2>. QED
    BY <2>2, <2>3
<1>13. CASE Place
  <2>1. cur \in File /\ cur <= cnt
    BY <1>13, <1>d DEF Place, Applies
  <2>2. DataTyped'
    BY <1>13, <1>a, <1>c, <2>1, RenameTyped DEF Place
  <2>3. ControlTyped'
    BY <1>13, <2>1, GotoTyped DEF Place, Rename, Applies
  <2>. QED
    BY <2>2, <2>3
<1>14. CASE PlaceCopies
  <2>1. cur \in File /\ cur <= cnt
    BY <1>14, <1>d DEF PlaceCopies, Applies
  <2>2. disk' \in [Places -> [File -> Content]]
    BY <1>14, <1>a, <2>1, CopyTyped DEF PlaceCopies
  <2>3. versionDir' \in BOOLEAN
    BY <1>14 DEF PlaceCopies
  <2>4. DataTyped'
    BY <1>14, <1>b, <2>2, <2>3 DEF PlaceCopies, DataTyped
  <2>5. ControlTyped'
    BY <1>14, <2>1, GotoTyped DEF PlaceCopies, Copy, Applies
  <2>. QED
    BY <2>4, <2>5
<1>15. CASE PlaceUnlinks
  <2>1. cur \in File /\ cur <= cnt
    BY <1>15, <1>d DEF PlaceUnlinks, Applies
  <2>2. DataTyped'
    BY <1>15, <1>a, <1>c, <2>1, UnlinkTyped DEF PlaceUnlinks
  <2>3. ControlTyped'
    BY <1>15, <2>1, GotoTyped DEF PlaceUnlinks, Unlink, Applies
  <2>. QED
    BY <2>2, <2>3
<1>16. CASE Confirm
  <2>1. cur \in File /\ cur <= N
    BY <1>16, <1>d DEF Confirm, Applies, ControlTyped
  <2>2. told' \subseteq File
    BY <1>16, <2>1 DEF Confirm, DataTyped
  <2>3. DataTyped'
    BY <1>16, <1>b, <2>2 DEF Confirm, DataTyped
  <2>4. ControlTyped'
    BY <1>16, <2>1, AdvanceTyped, EndTyped DEF Confirm, Outcomes
  <2>. QED
    BY <2>3, <2>4
<1>. QED
  BY <1>1, <1>2, <1>3, <1>4, <1>5, <1>6, <1>7, <1>8, <1>9, <1>10, <1>11, <1>12, <1>13, <1>14,
     <1>15, <1>16 DEF Apply

LEMMA CrashTyped == ASSUME Typed, Crash PROVE Typed'
<1> USE DEF Typed
<1>1. ControlTyped'
  BY EndTyped DEF Crash, Outcomes
<1>2. disk' \in [Places -> [File -> Content]]
  <2>1. cur \in File \/ UNCHANGED disk
    BY DEF Crash, ControlTyped, InLoop, Applies
  <2>2. {"inst", "old", "staged"} \subseteq Places /\ Dest(cur) \in Places
        /\ {"torn", "corrupt"} \subseteq Content
    BY DestPlace DEF Places, Content
  <2>. QED
    BY <2>1, <2>2, PutTyped DEF Crash, DataTyped
<1>3. versionDir' \in BOOLEAN /\ faultsLeft' \in Nat
  BY Budget DEF Crash, DataTyped, FaultKinds
<1>4. DataTyped'
  BY <1>2, <1>3 DEF Crash, DataTyped
<1>. QED
  BY <1>1, <1>4

LEMMA StutterTyped == ASSUME Typed, UNCHANGED vars PROVE Typed'
BY DEF Typed, ControlTyped, DataTyped, InLoop, vars, control

\* The model's state is always well typed, and the loops never work on a file
\* beyond the manifest's last line.
THEOREM TypeCorrect == Spec => []TypeOK
<1>1. Typed /\ [Next]_vars => Typed'
  BY StartTyped, InfoTyped, ParseTyped, FetchTyped, ApplyTyped, CrashTyped, StutterTyped DEF Next
<1>. QED
  BY <1>1, InitTyped, TypedIsTypeOK, PTL DEF Spec
----------------------------------------------------------------------------
(* What one step of the apply loop can do to the disk.  At most the bytes  *)
(* of the current file move, and bytes leave updates/ only for the file's  *)
(* own destination.                                                        *)

SetTo(p, c) == \A q \in Places, f \in File :
                 disk'[q][f] = IF q = p /\ f = cur THEN c ELSE disk[q][f]
Keeps       == \A q \in Places, f \in File : disk'[q][f] = disk[q][f]

LEMMA PutEffect == ASSUME Typed, cur \in File, NEW p \in Places, NEW c, Put(p, c)
                   PROVE  SetTo(p, c)
BY DEF Typed, DataTyped, Put, SetTo

LEMMA RenameEffect ==
    ASSUME Typed, cur \in File, NEW from \in Places, NEW to \in Places, from # to,
           NEW a, NEW b, Rename(from, to, a, b)
    PROVE  \/ Keeps /\ pc' = a
           \/ /\ pc' = b
              /\ \A q \in Places, f \in File :
                   disk'[q][f] = IF f # cur THEN disk[q][f]
                                 ELSE IF q = from THEN "absent"
                                 ELSE IF q = to THEN disk[from][cur] ELSE disk[q][f]
<1>1. CASE UNCHANGED disk /\ pc' = a
  BY <1>1 DEF Keeps
<1>2. CASE /\ disk' = [disk EXCEPT ![from][cur] = "absent", ![to][cur] = disk[from][cur]]
           /\ pc' = b
  BY <1>2 DEF Typed, DataTyped
<1>. QED
  BY <1>1, <1>2 DEF Rename, Goto

LEMMA CopyEffect == ASSUME Typed, cur \in File, NEW from \in Places, NEW to \in Places,
                           NEW a, Copy(from, to, a)
                    PROVE  Keeps \/ SetTo(to, disk[from][cur])
BY PutEffect DEF Copy, Keeps

LEMMA UnlinkEffect == ASSUME Typed, cur \in File, NEW p \in Places, NEW a, Unlink(p, a)
                      PROVE  Keeps \/ SetTo(p, "absent")
BY PutEffect DEF Unlink, Keeps

\* How the bytes at place p of file f may change in one step of the loop.
Replacing == Applies \ {"place", "placeCopy", "placeUnlink", "confirm"}

Untouched(p, f) == disk'[p][f] = disk[p][f]
Removed(p, f)   == /\ f = cur /\ disk'[p][f] = "absent"
                   /\ IF p = "staged" THEN pc \in {"place", "placeUnlink"} /\ pc' # "placeCopy"
                                      ELSE pc \in Replacing /\ p \in {"inst", "old", "new"}
Broken(p, f)    == /\ f = cur /\ p \in {"inst", "old"} /\ pc \in Replacing
                   /\ disk'[p][f] = "torn" /\ \E q \in {"inst", "new"} : Exists(q, f)
Shifted(p, f)   == /\ f = cur /\ p \in {"inst", "old"} /\ pc \in Replacing
                   /\ \E q \in {"inst", "new"} : disk'[p][f] = disk[q][f]
Applied(p, f)   == /\ f = cur /\ p = Dest(f)
                   /\ pc \in {"place", "placeCopy"} /\ pc' \in {"placeUnlink", "confirm"}
                   /\ disk'[p][f] = disk["staged"][f]
Effect == \A p \in Places, f \in File :
            \/ Untouched(p, f) \/ Removed(p, f) \/ Broken(p, f)
            \/ Shifted(p, f) \/ Applied(p, f)

LEMMA ApplyEffect == ASSUME Typed, Apply PROVE Effect
<1>a. {"inst", "old", "new", "staged"} \subseteq Places /\ Dest(cur) \in {"inst", "save"}
      /\ Dest(cur) \in Places
  BY DestPlace DEF Places
<1>b. pc \in Applies \ {"dropOld"} => cur \in File
  BY DEF Typed, ControlTyped, InLoop
<1>k. ASSUME Keeps PROVE Effect
  BY <1>k DEF Keeps, Effect, Untouched
<1>r. ASSUME NEW p \in {"inst", "old", "new"}, SetTo(p, "absent"), pc \in Replacing PROVE Effect
  BY <1>r DEF SetTo, Effect, Untouched, Removed
<1>t. ASSUME NEW p \in {"inst", "old"}, NEW q \in {"inst", "new"}, SetTo(p, "torn"),
             Exists(q, cur), pc \in Replacing
      PROVE  Effect
  BY <1>t DEF SetTo, Effect, Untouched, Broken
<1>s. ASSUME NEW p \in {"inst", "old"}, NEW q \in {"inst", "new"}, SetTo(p, disk[q][cur]),
             pc \in Replacing
      PROVE  Effect
  BY <1>s DEF SetTo, Effect, Untouched, Shifted
<1>1. CASE ApplySkips \/ ApplyDone \/ Confirm
  BY <1>1, <1>k DEF ApplySkips, ApplyDone, Confirm, Keeps
<1>2. CASE DropOldBackup
  <2>1. cur \in File /\ pc \in Replacing
    BY <1>2 DEF DropOldBackup, Typed, ControlTyped, Replacing, Applies
  <2>. QED
    BY <1>2, <1>a, <1>k, <1>r, <2>1, UnlinkEffect DEF DropOldBackup
<1>3. CASE BackUp
  <2>1. cur \in File /\ pc = "backup"
    BY <1>3, <1>b DEF BackUp, Applies
  <2>2. Keeps \/ \A q \in Places, f \in File :
                   disk'[q][f] = IF f # cur THEN disk[q][f]
                                 ELSE IF q = "inst" THEN "absent"
                                 ELSE IF q = "old" THEN disk["inst"][cur] ELSE disk[q][f]
    BY <1>3, <1>a, <2>1, RenameEffect DEF BackUp, Keeps
  <2>. QED
    BY <1>k, <2>1, <2>2 DEF Effect, Untouched, Removed, Shifted, Replacing, Applies
<1>4. CASE BackUpCopies
  <2>1. cur \in File /\ pc = "backupCopy"
    BY <1>4, <1>b DEF BackUpCopies, Applies
  <2>2. Keeps \/ SetTo("old", disk["inst"][cur])
    BY <1>4, <1>a, <2>1, CopyEffect DEF BackUpCopies
  <2>. QED
    BY <1>k, <1>s, <2>1, <2>2 DEF Replacing, Applies
<1>5. CASE BackUpBreaks \/ LegacyBreaks
  <2>1. cur \in File /\ pc \in Replacing
    BY <1>5, <1>b DEF BackUpBreaks, LegacyBreaks, Replacing, Applies
  <2>2. \/ SetTo("old", "torn") /\ Exists("inst", cur)
        \/ SetTo("inst", "torn") /\ Exists("new", cur)
    BY <1>5, <1>a, <2>1, PutEffect DEF BackUpBreaks, LegacyBreaks, CopyFails
  <2>. QED
    BY <1>t, <2>1, <2>2
<1>6. CASE BackUpUnlinks \/ LegacyUnlinks
  <2>1. cur \in File /\ pc \in Replacing
    BY <1>6, <1>b DEF BackUpUnlinks, LegacyUnlinks, Replacing, Applies
  <2>2. Keeps \/ SetTo("inst", "absent") \/ SetTo("new", "absent")
    BY <1>6, <1>a, <2>1, UnlinkEffect DEF BackUpUnlinks, LegacyUnlinks
  <2>. QED
    BY <1>k, <1>r, <2>1, <2>2
<1>7. CASE ClearOld
  <2>1. cur \in File /\ pc \in Replacing
    BY <1>7, <1>b DEF ClearOld, Replacing, Applies
  <2>2. Keeps \/ SetTo("inst", "absent")
    BY <1>7, <1>a, <2>1, PutEffect DEF ClearOld, Keeps
  <2>. QED
    BY <1>k, <1>r, <2>1, <2>2
<1>8. CASE MoveLegacy
  <2>1. cur \in File /\ pc = "legacy"
    BY <1>8, <1>b DEF MoveLegacy, Applies
  <2>2. Keeps \/ \A q \in Places, f \in File :
                   disk'[q][f] = IF f # cur THEN disk[q][f]
                                 ELSE IF q = "new" THEN "absent"
                                 ELSE IF q = "inst" THEN disk["new"][cur] ELSE disk[q][f]
    BY <1>8, <1>a, <2>1, RenameEffect DEF MoveLegacy
  <2>. QED
    BY <1>k, <2>1, <2>2 DEF Effect, Untouched, Removed, Shifted, Replacing, Applies
<1>9. CASE LegacyCopies
  <2>1. cur \in File /\ pc = "legacyCopy"
    BY <1>9, <1>b DEF LegacyCopies, Applies
  <2>2. Keeps \/ SetTo("inst", disk["new"][cur])
    BY <1>9, <1>a, <2>1, CopyEffect DEF LegacyCopies
  <2>. QED
    BY <1>k, <1>s, <2>1, <2>2 DEF Replacing, Applies
<1>10. CASE Place
  <2>1. cur \in File /\ pc = "place"
    BY <1>10, <1>b DEF Place, Applies
  <2>2. \/ Keeps
        \/ /\ pc' = "confirm"
           /\ \A q \in Places, f \in File :
                disk'[q][f] = IF f # cur THEN disk[q][f]
                              ELSE IF q = "staged" THEN "absent"
                              ELSE IF q = Dest(cur) THEN disk["staged"][cur] ELSE disk[q][f]
    BY <1>10, <1>a, <2>1, RenameEffect DEF Place
  <2>. QED
    BY <1>k, <2>1, <2>2 DEF Effect, Untouched, Removed, Applied
<1>11. CASE PlaceCopies
  <2>1. cur \in File /\ pc = "placeCopy" /\ pc' = "placeUnlink"
    BY <1>11, <1>b DEF PlaceCopies, Applies, Copy, Goto
  <2>2. Keeps \/ SetTo(Dest(cur), disk["staged"][cur])
    BY <1>11, <1>a, <2>1, CopyEffect DEF PlaceCopies
  <2>. QED
    BY <1>k, <2>1, <2>2 DEF SetTo, Effect, Untouched, Applied
<1>12. CASE PlaceUnlinks
  <2>1. cur \in File /\ pc = "placeUnlink" /\ pc' = "confirm"
    BY <1>12, <1>b DEF PlaceUnlinks, Applies, Unlink, Goto
  <2>2. Keeps \/ SetTo("staged", "absent")
    BY <1>12, <1>a, <2>1, UnlinkEffect DEF PlaceUnlinks
  <2>. QED
    BY <1>k, <2>1, <2>2 DEF SetTo, Effect, Untouched, Removed
<1>. QED
  BY <1>1, <1>2, <1>3, <1>4, <1>5, <1>6, <1>7, <1>8, <1>9, <1>10, <1>11, <1>12 DEF Apply
----------------------------------------------------------------------------
(* Verified before applied.  UnverifiedStaysStaged is not inductive: that  *)
(* the bytes a step moves out of updates/ are signed has to be known from  *)
(* the time they were verified.  Ready says what the download loop has     *)
(* left in updates/ for the files that still wait to be replaced.          *)

BeforePlaced == Applies \ {"placeUnlink", "confirm"}

Working == pc \in {"verify"} \cup (Applies \ {"dropOld"}) => cur \notin skipped

Waiting(f) == \/ pc \in {"fetch", "verify"} /\ f < cur
              \/ pc \in Applies /\ f > cur
              \/ pc \in BeforePlaced /\ f = cur

Ready == /\ \A f \in (1 .. cnt) \ skipped : Waiting(f) => disk["staged"][f] = "signed"
         /\ pc = "verify" => disk["staged"][cur] = body

SafeInv == Typed /\ Working /\ Ready /\ UnverifiedStaysStaged

\* The flow of control of the apply loop.
LEMMA ApplyFlow ==
    ASSUME Typed, Apply
    PROVE  /\ pc \in Applies
           /\ UNCHANGED <<cnt, skipped, needElevation, elevated>>
           /\ pc = "place" => pc' \in {"placeCopy", "confirm"}
           /\ pc = "placeUnlink" => pc' = "confirm"
           /\ \/ pc' = "off"
              \/ /\ cur' = cur
                 /\ pc' \in Applies \ {"dropOld"}
                 /\ pc' \in BeforePlaced => pc \in BeforePlaced
                 /\ pc = "dropOld" => cur \notin skipped
                 /\ pc' \notin BeforePlaced => pc \in {"place", "placeCopy", "placeUnlink"}
              \/ /\ cur' = cur + 1 /\ pc' = "dropOld"
                 /\ cur \in skipped \/ pc = "confirm"
<1>1. CASE ApplySkips \/ ApplyDone \/ Confirm
  BY <1>1 DEF ApplySkips, ApplyDone, Confirm, Advance, End, Applies
<1>2. CASE DropOldBackup \/ BackUp \/ BackUpCopies \/ BackUpBreaks \/ BackUpUnlinks \/ ClearOld
  BY <1>2 DEF DropOldBackup, BackUp, BackUpCopies, BackUpBreaks, BackUpUnlinks, ClearOld,
              Rename, Copy, CopyFails, Unlink, Goto, End, Applies, BeforePlaced
<1>3. CASE MoveLegacy \/ LegacyCopies \/ LegacyBreaks \/ LegacyUnlinks
  BY <1>3 DEF MoveLegacy, LegacyCopies, LegacyBreaks, LegacyUnlinks,
              Rename, Copy, CopyFails, Unlink, Goto, End, Applies, BeforePlaced
<1>4. CASE Place \/ PlaceCopies \/ PlaceUnlinks
  BY <1>4 DEF Place, PlaceCopies, PlaceUnlinks,
              Rename, Copy, CopyFails, Unlink, Goto, End, Applies, BeforePlaced
<1>. QED
  BY <1>1, <1>2, <1>3, <1>4 DEF Apply

LEMMA InitSafe == Init => SafeInv
<1> SUFFICES ASSUME Init PROVE SafeInv
  OBVIOUS
<1>1. Typed
  BY InitTyped
<1>2. pc = "off"
  BY DEF Init
<1>3. Working /\ Ready
  BY <1>2 DEF Working, Ready, Waiting, BeforePlaced, Applies
<1>4. UnverifiedStaysStaged
  BY DEF Init, UnverifiedStaysStaged, Places
<1>. QED
  BY <1>1, <1>3, <1>4 DEF SafeInv

LEMMA ApplySafe == ASSUME SafeInv, Apply PROVE SafeInv'
<1> USE DEF SafeInv
<1>1. Typed'
  BY ApplyTyped
<1>e. Effect
  BY ApplyEffect
<1>p. "staged" \in Places
  BY DEF Places
<1>2. Working'
  BY ApplyFlow DEF Working, Applies
<1>3. Ready'
  <2>1. CASE pc' = "off"
    BY <2>1 DEF Ready, Waiting, BeforePlaced, Applies
  <2>2. CASE pc' # "off"
    <3>1. pc' \in Applies /\ cnt' = cnt /\ skipped' = skipped
      BY <2>2, ApplyFlow DEF Applies
    <3>2. SUFFICES ASSUME NEW f \in (1 .. cnt) \ skipped, Waiting(f)'
                   PROVE  disk'["staged"][f] = "signed"
      BY <3>1 DEF Ready, Applies
    <3>3. Waiting(f) /\ (f = cur => pc' \in BeforePlaced /\ cur' = cur)
      BY <3>1, <3>2, ApplyFlow DEF Waiting, BeforePlaced, Applies, Typed, ControlTyped
    <3>4. f \in File
      BY DEF Typed, ControlTyped
    <3>5. Untouched("staged", f)
      <4>1. ~Broken("staged", f) /\ ~Shifted("staged", f) /\ ~Applied("staged", f)
        BY DestPlace DEF Broken, Shifted, Applied
      <4>2. f = cur => ~(pc \in {"place", "placeUnlink"} /\ pc' # "placeCopy")
        BY <3>3, ApplyFlow DEF BeforePlaced, Applies, Typed, ControlTyped
      <4>3. ~Removed("staged", f)
        BY <4>2 DEF Removed
      <4>. QED
        BY <1>e, <1>p, <3>4, <4>1, <4>3 DEF Effect
    <3>. QED
      BY <3>3, <3>5 DEF Ready, Untouched
  <2>. QED
    BY <2>1, <2>2
<1>4. UnverifiedStaysStaged'
  <2>1. SUFFICES ASSUME NEW p \in Places \ {"staged"}, NEW f \in File
                 PROVE  disk'[p][f] # "corrupt"
    BY DEF UnverifiedStaysStaged
  <2>2. CASE Untouched(p, f) \/ Removed(p, f) \/ Broken(p, f) \/ Shifted(p, f)
    BY <2>2 DEF UnverifiedStaysStaged, Untouched, Removed, Broken, Shifted, Places
  <2>3. CASE Applied(p, f)
    <3>1. cur \in (1 .. cnt) \ skipped /\ f = cur /\ Waiting(f)
      BY <2>3 DEF Applied, Working, Typed, ControlTyped, InLoop, Waiting, BeforePlaced, Applies
    <3>. QED
      BY <2>3, <3>1 DEF Applied, Ready
  <2>. QED
    BY <1>e, <2>2, <2>3 DEF Effect
<1>. QED
  BY <1>1, <1>2, <1>3, <1>4

LEMMA PlanSafe == ASSUME SafeInv, Launch \/ RestartElevated \/ RestartRefused \/ Info \/ Parse
                  PROVE  SafeInv' /\ UNCHANGED disk
<1> USE DEF SafeInv
<1>1. Typed'
  BY StartTyped, InfoTyped, ParseTyped
<1>2. UNCHANGED disk
  BY DEF Launch, RestartElevated, RestartRefused, Run, Info, InfoFails, InfoUpToDate, InfoEmpty,
         InfoManifest, InfoQuiet, Parse, ParseLine, ParseFails, ParseDone
<1>3. pc' \in {"off", "info", "parse"} \/ (pc' = "fetch" /\ cur' = 1)
  BY DEF Launch, RestartElevated, RestartRefused, Run, Info, InfoFails, InfoUpToDate, InfoEmpty,
         InfoManifest, Parse, ParseLine, ParseFails, ParseDone, End, Restart
<1>4. Working' /\ Ready'
  BY <1>3 DEF Working, Ready, Waiting, BeforePlaced, Applies
<1>5. UnverifiedStaysStaged'
  BY <1>2 DEF UnverifiedStaysStaged
<1>. QED
  BY <1>1, <1>2, <1>4, <1>5

\* Here it matters that a failing fclose is not among the faults: Sec_VerifyMemory
\* looks at the bytes in memory, not at the file that is applied later.
LEMMA FetchSafe == ASSUME SafeInv, Fetch, "flush" \notin Faults PROVE SafeInv'
<1> USE DEF SafeInv
<1>1. Typed'
  BY FetchTyped
<1>p. "staged" \in Places
  BY DEF Places
<1>q. ASSUME UNCHANGED disk PROVE UnverifiedStaysStaged'
  BY <1>q DEF UnverifiedStaysStaged
<1>2. CASE FetchSkips
  <2>1. UNCHANGED disk /\ pc = "fetch" /\ pc' = "fetch" /\ cur' = cur + 1 /\ cur \in skipped
        /\ UNCHANGED <<cnt, skipped>>
    BY <1>2 DEF FetchSkips, Advance
  <2>2. Working' /\ Ready'
    BY <2>1 DEF Working, Ready, Waiting, BeforePlaced, Applies, Typed, ControlTyped
  <2>. QED
    BY <1>1, <1>q, <2>1, <2>2
<1>3. CASE FetchFails
  <2>1. UNCHANGED disk /\ pc' = "off"
    BY <1>3 DEF FetchFails, End
  <2>. QED
    BY <1>1, <1>q, <2>1 DEF Working, Ready, Waiting, BeforePlaced, Applies
<1>4. CASE FetchWrites
  <2>1. /\ body' \in {"signed", "corrupt"} /\ disk' = [disk EXCEPT !["staged"][cur] = body']
        /\ pc = "fetch" /\ pc' = "verify" /\ cur \notin skipped /\ UNCHANGED <<cur, cnt, skipped>>
    BY <1>4 DEF FetchWrites, Goto, Fault
  <2>2. SetTo("staged", body') /\ cur \in File
    BY <1>4, <1>p, <2>1 DEF SetTo, FetchWrites, Typed, ControlTyped, DataTyped
  <2>3. UnverifiedStaysStaged'
    BY <2>2 DEF SetTo, UnverifiedStaysStaged
  <2>4. Working'
    BY <2>1 DEF Working, Applies
  <2>5. Ready'
    BY <1>p, <2>1, <2>2 DEF SetTo, Ready, Waiting, BeforePlaced, Applies, Typed, ControlTyped
  <2>. QED
    BY <1>1, <2>3, <2>4, <2>5
<1>5. CASE FetchWriteFails
  <2>1. pc' = "off" /\ cur \in File
    BY <1>5 DEF FetchWriteFails, End, Typed, ControlTyped
  <2>2. UNCHANGED disk \/ SetTo("staged", "corrupt")
    BY <1>5, <1>p, <2>1 DEF FetchWriteFails, SetTo, Typed, DataTyped
  <2>3. UnverifiedStaysStaged'
    BY <1>q, <2>2 DEF SetTo, UnverifiedStaysStaged
  <2>. QED
    BY <1>1, <2>1, <2>3 DEF Working, Ready, Waiting, BeforePlaced, Applies
<1>6. CASE FetchVerifies
  <2>1. UNCHANGED <<disk, cnt, skipped>> /\ pc = "verify"
        /\ (pc' = "off" \/ (body = "signed" /\ pc' = "fetch" /\ cur' = cur + 1))
    BY <1>6 DEF FetchVerifies, Advance, End
  <2>2. Working' /\ Ready'
    BY <2>1 DEF Working, Ready, Waiting, BeforePlaced, Applies, Typed, ControlTyped
  <2>. QED
    BY <1>1, <1>q, <2>1, <2>2
<1>7. CASE FetchDone
  <2>1. UNCHANGED <<disk, cnt, skipped>> /\ pc = "fetch" /\ pc' = "dropOld" /\ cur > cnt
    BY <1>7 DEF FetchDone, Restart
  <2>2. Working' /\ Ready'
    BY <2>1 DEF Working, Ready, Waiting, BeforePlaced, Applies, Typed, ControlTyped
  <2>. QED
    BY <1>1, <1>q, <2>1, <2>2
<1>. QED
  BY <1>2, <1>3, <1>4, <1>5, <1>6, <1>7 DEF Fetch

LEMMA CrashSafe == ASSUME SafeInv, Crash PROVE SafeInv'
<1> USE DEF SafeInv
<1>1. Typed' /\ pc' = "off"
  BY CrashTyped DEF Crash, End
<1>2. Working' /\ Ready'
  BY <1>1 DEF Working, Ready, Waiting, BeforePlaced, Applies
<1>3. \/ UNCHANGED disk
      \/ cur \in File /\ SetTo("staged", "corrupt")
      \/ cur \in File /\ \E p \in Places : SetTo(p, "torn")
  <2>1. cur \in File \/ UNCHANGED disk
    BY DEF Crash, Typed, ControlTyped, InLoop, Applies
  <2>2. {"inst", "old", "staged"} \subseteq Places /\ Dest(cur) \in Places
    BY DestPlace DEF Places
  <2>. QED
    BY <2>1, <2>2, PutEffect DEF Crash
<1>4. UnverifiedStaysStaged'
  BY <1>3 DEF SetTo, UnverifiedStaysStaged
<1>. QED
  BY <1>1, <1>2, <1>4

LEMMA NextSafe == ASSUME SafeInv, [Next]_vars, "flush" \notin Faults PROVE SafeInv'
<1>1. CASE UNCHANGED vars
  BY <1>1, StutterTyped DEF SafeInv, Working, Ready, Waiting, UnverifiedStaysStaged, vars, control
<1>. QED
  BY <1>1, PlanSafe, FetchSafe, ApplySafe, CrashSafe DEF Next

\* Bytes that did not pass Sec_VerifyMemory never leave updates/, whatever
\* crashes, fails or is answered, as long as fclose does not fail.
THEOREM OnlyVerifiedApplied ==
    ASSUME "flush" \notin Faults PROVE Spec => []UnverifiedStaysStaged
<1>1. SafeInv /\ [Next]_vars => SafeInv'
  BY NextSafe
<1>2. SafeInv => UnverifiedStaysStaged
  BY DEF SafeInv
<1>. QED
  BY <1>1, <1>2, InitSafe, PTL DEF Spec

\* No file outside updates/ is touched before all pending ones are verified.
THEOREM VerifiedBeforeApplied ==
    ASSUME "flush" \notin Faults PROVE Spec => AllVerifiedFirst
<1>1. ASSUME SafeInv, [Next]_vars, NEW p \in Places \ {"staged"}, disk'[p] # disk[p]
      PROVE  /\ pc \in Applies
             /\ \A f \in (cur + 1 .. cnt) \ skipped : disk["staged"][f] = "signed"
  <2>1. pc \in Applies
    <3>1. CASE UNCHANGED disk
      BY <1>1, <3>1
    <3>2. CASE Fetch
      <4>1. \/ UNCHANGED disk
            \/ \E c : disk' = [disk EXCEPT !["staged"][cur] = c]
        BY <3>2 DEF Fetch, FetchSkips, FetchFails, FetchWrites, FetchWriteFails, FetchVerifies,
                    FetchDone
      <4>. QED
        BY <1>1, <4>1 DEF SafeInv, Typed, DataTyped
    <3>3. CASE Crash
      <4>1. CASE pc = "fetch"
        <5>1. UNCHANGED disk \/ disk' = [disk EXCEPT !["staged"][cur] = "corrupt"]
          BY <3>3, <4>1 DEF Crash, Put
        <5>. QED
          BY <1>1, <5>1 DEF SafeInv, Typed, DataTyped
      <4>2. CASE pc # "fetch"
        BY <1>1, <3>3, <4>2 DEF Crash, Applies
      <4>. QED
        BY <4>1, <4>2
    <3>4. CASE Apply
      BY <1>1, <3>4, ApplyFlow DEF SafeInv
    <3>5. CASE UNCHANGED vars
      BY <3>1, <3>5 DEF vars
    <3>. QED
      BY <1>1, <3>1, <3>2, <3>3, <3>4, <3>5, PlanSafe DEF Next
  <2>2. ASSUME NEW f \in (cur + 1 .. cnt) \ skipped PROVE disk["staged"][f] = "signed"
    BY <1>1, <2>1, <2>2 DEF SafeInv, Typed, ControlTyped, Ready, Waiting
  <2>. QED
    BY <2>1, <2>2
<1>2. SafeInv /\ [Next]_vars => SafeInv'
  BY NextSafe
<1>3. SafeInv /\ [Next]_vars =>
        [(\E p \in Places \ {"staged"} : disk'[p] # disk[p]) =>
           /\ pc \in Applies
           /\ \A f \in (cur + 1 .. cnt) \ skipped : disk["staged"][f] = "signed"]_vars
  BY <1>1
<1>. QED
  BY <1>2, <1>3, InitSafe, PTL DEF Spec, AllVerifiedFirst

----------------------------------------------------------------------------
(* What a run of the updater may do to an installation: which files it may *)
(* touch, that it asks for elevation before it touches the game directory, *)
(* that it never undoes a file or loses the last copy of one, and that it  *)
(* implements UpdatePromise.  A theorem excludes a kind of failure from    *)
(* Faults only where that failure refutes the property.                    *)

\* Every step keeps the types.
LEMMA NextTyped == ASSUME Typed, [Next]_vars PROVE Typed'
BY StartTyped, InfoTyped, ParseTyped, FetchTyped, ApplyTyped, CrashTyped, StutterTyped DEF Next

\* The steps that only look: they leave the disk and end before the downloads.
LEMMA LookEffect ==
    ASSUME Typed, Launch \/ RestartElevated \/ RestartRefused \/ Info \/ Parse
    PROVE  /\ UNCHANGED disk
           /\ pc' \in {"off", "info", "parse"} \/ (pc' = "fetch" /\ cur' = 1)
<1>1. CASE Launch \/ RestartElevated \/ RestartRefused
  BY <1>1 DEF Launch, RestartElevated, RestartRefused, Run, End
<1>2. CASE Info
  BY <1>2 DEF Info, InfoFails, InfoUpToDate, InfoEmpty, InfoManifest, InfoQuiet, End
<1>3. CASE Parse
  BY <1>3 DEF Parse, ParseLine, ParseFails, ParseDone, End, Restart
<1>. QED
  BY <1>1, <1>2, <1>3

\* The download loop: it writes to updates/ only, one file at a time.
LEMMA FetchEffect ==
    ASSUME Typed, Fetch
    PROVE  /\ pc \in {"fetch", "verify"}
           /\ \A p \in Places \ {"staged"}, f \in File : Untouched(p, f)
           /\ UNCHANGED <<cnt, skipped, needElevation, elevated, told>>
           /\ \/ pc' = "off"
              \/ pc' = "fetch"
              \/ pc' = "verify" /\ cur' = cur /\ cur \notin skipped
              \/ pc' = "dropOld" /\ cur' = 1
<1>1. /\ pc \in {"fetch", "verify"}
      /\ UNCHANGED <<cnt, skipped, needElevation, elevated, told>>
      /\ \/ pc' = "off"
         \/ pc' = "fetch"
         \/ pc' = "verify" /\ cur' = cur /\ cur \notin skipped
         \/ pc' = "dropOld" /\ cur' = 1
  BY DEF Fetch, FetchSkips, FetchFails, FetchWrites, FetchWriteFails, FetchVerifies, FetchDone,
         Advance, End, Goto, Restart
<1>2. UNCHANGED disk \/ \E c : disk' = [disk EXCEPT !["staged"][cur] = c]
  BY DEF Fetch, FetchSkips, FetchFails, FetchWrites, FetchWriteFails, FetchVerifies, FetchDone
<1>3. \A p \in Places \ {"staged"}, f \in File : Untouched(p, f)
  BY <1>2 DEF Typed, DataTyped, Untouched
<1>. QED
  BY <1>1, <1>3

\* In the steps that work on one file, that file is one the run has to replace.
LEMMA InitWorking == Init => Working
BY DEF Init, Working, Applies

LEMMA NextWorking == ASSUME Typed, Working, [Next]_vars PROVE Working'
<1>1. CASE UNCHANGED vars
  BY <1>1 DEF Working, vars, control
<1>2. CASE Launch \/ RestartElevated \/ RestartRefused \/ Info \/ Parse
  BY <1>2, LookEffect DEF Working, Applies
<1>3. CASE Fetch
  BY <1>3, FetchEffect DEF Working, Applies
<1>4. CASE Apply
  BY <1>4, ApplyFlow DEF Working, Applies
<1>5. CASE Crash
  BY <1>5 DEF Crash, End, Working, Applies
<1>. QED
  BY <1>1, <1>2, <1>3, <1>4, <1>5 DEF Next

\* A process that dies while it copies leaves the copy torn.
Torn(p, f) == /\ f = cur /\ p = Dest(f) /\ pc = "placeCopy" /\ disk'[p][f] = "torn"

LEMMA CrashEffect ==
    ASSUME Typed, Crash, NEW p \in Places \ {"staged"}, NEW f \in File
    PROVE  /\ Untouched(p, f) \/ Broken(p, f) \/ Torn(p, f)
           /\ ~Untouched(p, f) => pc \in Applies \ {"dropOld"}
<1>1. CASE UNCHANGED disk
  BY <1>1 DEF Untouched
<1>2. ASSUME NEW q \in Places, NEW c, Put(q, c), ~Untouched(p, f) PROVE q = p /\ f = cur /\ disk'[p][f] = c
  BY <1>2 DEF Put, Untouched, Typed, DataTyped
<1>3. CASE pc = "fetch" /\ Put("staged", "corrupt")
  BY <1>2, <1>3 DEF Places
<1>4. CASE pc = "backupCopy" /\ Exists("inst", cur) /\ Put("old", "torn")
  BY <1>2, <1>4 DEF Broken, Replacing, Applies, Places
<1>5. CASE pc = "legacyCopy" /\ Exists("new", cur) /\ Put("inst", "torn")
  BY <1>2, <1>5 DEF Broken, Replacing, Applies, Places
<1>6. CASE pc = "placeCopy" /\ Put(Dest(cur), "torn")
  <2>1. Dest(cur) \in Places
    BY DestPlace DEF Places
  <2>. QED
    BY <1>2, <1>6, <2>1 DEF Torn, Applies
<1>. QED
  BY <1>1, <1>3, <1>4, <1>5, <1>6 DEF Crash

\* Whatever changes outside updates/, it is the file the apply loop works on,
\* one it has to replace, in one of five ways.
LEMMA Touches ==
    ASSUME Typed, Working, [Next]_vars, NEW p \in Places \ {"staged"}, NEW f \in File,
           ~Untouched(p, f)
    PROVE  /\ pc \in Applies /\ (Apply \/ Crash)
           /\ f = cur /\ f \in (1 .. cnt) \ skipped
           /\ \/ Removed(p, f) \/ Broken(p, f) \/ Shifted(p, f)
              \/ Applied(p, f) \/ Torn(p, f)
<1>1. CASE UNCHANGED disk
  BY <1>1 DEF Untouched
<1>2. CASE Fetch
  BY <1>2, FetchEffect
<1>3. CASE Apply
  <2>1. pc \in Applies /\ (Removed(p, f) \/ Broken(p, f) \/ Shifted(p, f) \/ Applied(p, f))
    BY <1>3, ApplyFlow, ApplyEffect DEF Effect
  <2>2. cur <= cnt /\ cur \notin skipped
    <3>1. CASE pc # "dropOld"
      BY <2>1, <3>1 DEF Working, Typed, ControlTyped, InLoop
    <3>2. CASE pc = "dropOld"
      <4>1. ~UNCHANGED disk
        BY DEF Untouched
      <4>2. DropOldBackup
        BY <1>3, <3>2, <4>1 DEF Apply, ApplySkips, ApplyDone, BackUp, BackUpCopies, BackUpBreaks,
           BackUpUnlinks, ClearOld, MoveLegacy, LegacyCopies, LegacyBreaks, LegacyUnlinks, Place,
           PlaceCopies, PlaceUnlinks, Confirm
      <4>. QED
        BY <4>2 DEF DropOldBackup
    <3>. QED
      BY <3>1, <3>2
  <2>3. f = cur
    BY <2>1 DEF Removed, Broken, Shifted, Applied
  <2>. QED
    BY <1>3, <2>1, <2>2, <2>3
<1>4. CASE Crash
  <2>1. (Broken(p, f) \/ Torn(p, f)) /\ pc \in Applies \ {"dropOld"}
    BY <1>4, CrashEffect
  <2>. QED
    BY <1>4, <2>1 DEF Broken, Torn, Working, Typed, ControlTyped, InLoop
<1>. QED
  BY <1>1, <1>2, <1>3, <1>4, LookEffect DEF Next, vars
----------------------------------------------------------------------------
(* What is up to date stays so.  A run must not plan to replace a file     *)
(* whose destination is already verified; NotInPlace follows the planned   *)
(* files through the loops.  What an earlier release left in .new is moved *)
(* into place on the way (LegacyStale: those are not the signed bytes).    *)

Planned(f) == \/ pc = "parse" /\ f < cur
              \/ pc \in {"fetch", "verify"}
              \/ pc \in Applies /\ f > cur
              \/ pc \in BeforePlaced /\ f = cur

NotInPlace == \A f \in (1 .. cnt) \ skipped : Planned(f) => ~Verified(f)

LegacyStale == \A f \in File : disk["new"][f] \in {"absent", "stale"}

PlanInv == Typed /\ Working /\ LegacyStale /\ NotInPlace

LEMMA InitPlan == Init => PlanInv
<1> SUFFICES ASSUME Init PROVE PlanInv
  OBVIOUS
<1>1. Typed /\ Working
  BY InitTyped, InitWorking
<1>2. LegacyStale
  BY DestPlace DEF Init, LegacyStale, Places
<1>3. NotInPlace
  BY DEF Init, NotInPlace, Planned, BeforePlaced, Applies
<1>. QED
  BY <1>1, <1>2, <1>3 DEF PlanInv

\* A file the run is about to replace is not brought up to date by anything but
\* its own replacement, and a file that is up to date is not touched.
LEMMA DestinationKept ==
    ASSUME PlanInv, [Next]_vars, NEW f \in File
    PROVE  /\ Verified(f) => Verified(f)'
           /\ ~Verified(f) => ~Verified(f)' \/ (/\ pc \in {"place", "placeCopy"} /\ f = cur
                                                /\ pc' \in {"placeUnlink", "confirm"})
<1> USE DEF PlanInv
<1>p. Dest(f) \in Places \ {"staged"}
  BY DestPlace DEF Places
<1>1. CASE Untouched(Dest(f), f)
  BY <1>1 DEF Untouched, Verified, Dest
<1>2. CASE ~Untouched(Dest(f), f)
  <2>1. /\ pc \in Applies /\ f = cur /\ f \in (1 .. cnt) \ skipped
        /\ \/ Removed(Dest(f), f) \/ Broken(Dest(f), f) \/ Shifted(Dest(f), f)
           \/ Applied(Dest(f), f) \/ Torn(Dest(f), f)
    BY <1>2, <1>p, Touches
  <2>2. pc \in BeforePlaced
    BY <1>p, <2>1 DEF Removed, Broken, Shifted, Applied, Torn, Replacing, BeforePlaced
  <2>3. ~Verified(f)
    BY <2>1, <2>2 DEF NotInPlace, Planned
  <2>4. CASE Removed(Dest(f), f) \/ Broken(Dest(f), f) \/ Torn(Dest(f), f)
    BY <2>3, <2>4 DEF Removed, Broken, Torn, Verified, Dest
  <2>5. CASE Shifted(Dest(f), f)
    BY <2>3, <2>5, DestPlace DEF Shifted, LegacyStale, Verified, Dest
  <2>6. CASE Applied(Dest(f), f)
    BY <2>1, <2>3, <2>6 DEF Applied
  <2>. QED
    BY <2>1, <2>4, <2>5, <2>6
<1>. QED
  BY <1>1, <1>2

LEMMA NextPlan == ASSUME PlanInv, [Next]_vars, "unreadable" \notin Faults PROVE PlanInv'
<1> USE DEF PlanInv
<1>1. Typed' /\ Working'
  BY NextTyped, NextWorking
<1>2. LegacyStale'
  <2>1. SUFFICES ASSUME NEW f \in File PROVE disk'["new"][f] \in {"absent", "stale"}
    BY DEF LegacyStale
  <2>2. "new" \in Places \ {"staged"}
    BY DEF Places
  <2>3. CASE Untouched("new", f)
    BY <2>3 DEF Untouched, LegacyStale
  <2>4. CASE ~Untouched("new", f)
    BY <2>2, <2>4, Touches, DestPlace DEF Removed, Broken, Shifted, Applied, Torn
  <2>. QED
    BY <2>3, <2>4
<1>3. NotInPlace'
  <2>1. SUFFICES ASSUME NEW f \in ((1 .. cnt) \ skipped)', Planned(f)' PROVE ~Verified(f)'
    BY DEF NotInPlace
  <2>2. f \in File
    BY <1>1 DEF Typed, ControlTyped
  <2>3. ASSUME f \in (1 .. cnt) \ skipped, Planned(f),
               f # cur \/ pc \notin {"place", "placeCopy"} \/ pc' \notin {"placeUnlink", "confirm"}
        PROVE  ~Verified(f)'
    BY <2>2, <2>3, DestinationKept DEF NotInPlace
  <2>4. CASE UNCHANGED vars
    BY <2>1, <2>3, <2>4 DEF vars, control, Planned, Applies, BeforePlaced
  <2>5. CASE Launch \/ RestartElevated \/ RestartRefused \/ Info
    <3>1. pc' \in {"off", "info"} \/ (pc' = "parse" /\ cur' = 1)
      BY <2>5 DEF Launch, RestartElevated, RestartRefused, Run, Info, InfoFails, InfoUpToDate,
                  InfoEmpty, InfoManifest, End
    <3>. QED
      BY <2>1, <2>2, <3>1 DEF Planned, BeforePlaced, Applies
  <2>6. CASE ParseLine
    <3>1. /\ pc = "parse" /\ pc' = "parse" /\ cur' = cur + 1 /\ UNCHANGED <<cnt, disk>>
          /\ skipped \subseteq skipped'
          /\ cur \notin skipped' => ~Verified(cur)
      BY <2>6 DEF ParseLine, Fault
    <3>2. CASE f = cur
      BY <2>1, <3>1, <3>2 DEF Verified, Dest
    <3>3. CASE f < cur
      BY <2>1, <2>3, <3>1, <3>3 DEF Planned
    <3>. QED
      BY <2>1, <2>2, <3>1, <3>2, <3>3 DEF Planned, BeforePlaced, Applies, Typed, ControlTyped
  <2>7. CASE ParseFails \/ ParseDone
    BY <2>1, <2>2, <2>3, <2>7 DEF ParseFails, ParseDone, End, Restart, Planned, BeforePlaced, Applies,
                            Typed, ControlTyped
  <2>8. CASE Fetch
    BY <2>1, <2>3, <2>8, FetchEffect DEF Planned, BeforePlaced, Applies
  <2>9. CASE Apply
    <3>1. Planned(f) /\ f \in (1 .. cnt) \ skipped /\ (f = cur => pc' \in BeforePlaced)
      BY <2>1, <2>2, <2>9, ApplyFlow DEF Planned, BeforePlaced, Applies, Typed, ControlTyped
    <3>. QED
      BY <2>3, <3>1 DEF BeforePlaced
  <2>10. CASE Crash
    BY <2>1, <2>10 DEF Crash, End, Planned, BeforePlaced, Applies
  <2>. QED
    BY <2>4, <2>5, <2>6, <2>7, <2>8, <2>9, <2>10 DEF Next, Parse
<1>. QED
  BY <1>1, <1>2, <1>3

\* A file that was brought up to date stays so through all later runs, whatever
\* fails or crashes in them, unless Sec_VerifyFile cannot read it (then the apply
\* loop moves it away like any other).
THEOREM UpToDateStays ==
    ASSUME "unreadable" \notin Faults PROVE Spec => InstalledForever
<1>1. PlanInv /\ [Next]_vars => PlanInv'
  BY NextPlan
<1>2. PlanInv /\ [Next]_vars => [\A f \in File : Verified(f) => Verified(f)']_vars
  BY DestinationKept
<1>. QED
  BY <1>1, <1>2, InitPlan, PTL DEF Spec, InstalledForever
----------------------------------------------------------------------------
(* The game directory is written with permission.  Asked carries what the  *)
(* parse loop found out to the apply loop.                                 *)

GameOnly == \A f \in File \ RootFiles, p \in {"inst", "old", "new"} : disk[p][f] = "absent"

Asked == /\ pc = "parse" /\ (\E f \in (1 .. cur - 1) \cap RootFiles : f \notin skipped)
              => needElevation
         /\ pc \in {"fetch", "verify"} \cup Applies
              /\ (\E f \in (1 .. cnt) \cap RootFiles : f \notin skipped) => Permitted

AskInv == Typed /\ Working /\ GameOnly /\ Asked

LEMMA InitAsk == Init => AskInv
<1> SUFFICES ASSUME Init PROVE AskInv
  OBVIOUS
<1>1. GameOnly
  BY DEF Init, GameOnly, Dest, Places
<1>2. Asked
  BY DEF Init, Asked, Applies
<1>. QED
  BY <1>1, <1>2, InitTyped, InitWorking DEF AskInv

LEMMA NextAsk == ASSUME AskInv, [Next]_vars PROVE AskInv'
<1> USE DEF AskInv
<1>1. Typed' /\ Working'
  BY NextTyped, NextWorking
<1>2. GameOnly'
  <2>1. SUFFICES ASSUME NEW f \in File \ RootFiles, NEW p \in {"inst", "old", "new"}
                 PROVE  disk'[p][f] = "absent"
    BY DEF GameOnly
  <2>2. p \in Places \ {"staged"} /\ Dest(f) = "save"
    BY DEF Places, Dest
  <2>3. CASE Untouched(p, f)
    BY <2>3 DEF Untouched, GameOnly
  <2>4. CASE ~Untouched(p, f)
    BY <2>2, <2>4, Touches DEF Removed, Broken, Shifted, Applied, Torn, Exists, GameOnly
  <2>. QED
    BY <2>3, <2>4
<1>3. Asked'
  <2>1. CASE UNCHANGED vars
    BY <2>1 DEF vars, control, Asked, Permitted
  <2>2. CASE Launch \/ RestartElevated \/ RestartRefused \/ Info
    <3>1. pc' \in {"off", "info"} \/ (pc' = "parse" /\ cur' = 1)
      BY <2>2 DEF Launch, RestartElevated, RestartRefused, Run, Info, InfoFails, InfoUpToDate,
                  InfoEmpty, InfoManifest, End
    <3>. QED
      BY <3>1 DEF Asked, Applies
  <2>3. CASE ParseLine
    <3>1. /\ pc = "parse" /\ pc' = "parse" /\ cur' = cur + 1 /\ skipped \subseteq skipped'
          /\ needElevation => needElevation'
          /\ cur \in RootFiles \ skipped' => needElevation'
      BY <2>3 DEF ParseLine
    <3>2. ASSUME NEW f \in (1 .. cur) \cap RootFiles, f \notin skipped' PROVE needElevation'
      BY <3>1, <3>2 DEF Asked, Typed, ControlTyped
    <3>. QED
      BY <3>1, <3>2 DEF Asked, Applies, Typed, ControlTyped
  <2>4. CASE ParseFails
    BY <2>4 DEF ParseFails, End, Asked, Applies
  <2>5. CASE ParseDone
    <3>1. /\ pc = "parse" /\ cur > cnt
          /\ \/ pc' = "off"
             \/ pc' = "fetch" /\ (needElevation => Permitted) /\ UNCHANGED <<cnt, skipped, elevated>>
      BY <2>5 DEF ParseDone, End, Restart
    <3>. QED
      BY <3>1 DEF Asked, Permitted, Applies, Typed, ControlTyped
  <2>6. CASE Fetch
    BY <2>6, FetchEffect DEF Asked, Permitted, Applies
  <2>7. CASE Apply
    <3>1. /\ pc \in Applies /\ pc' \in {"off"} \cup Applies
          /\ UNCHANGED <<cnt, skipped, elevated>>
      BY <2>7, ApplyFlow DEF Applies
    <3>. QED
      BY <3>1 DEF Asked, Permitted, Applies
  <2>8. CASE Crash
    BY <2>8 DEF Crash, End, Asked, Applies
  <2>. QED
    BY <2>1, <2>2, <2>3, <2>4, <2>5, <2>6, <2>7, <2>8 DEF Next, Parse
<1>. QED
  BY <1>1, <1>2, <1>3

\* The updater changes the game directory only in a process that may write it.
THEOREM AsksBeforeItWrites == Spec => ElevationRespected
<1>1. ASSUME AskInv, AskInv', [Next]_vars, NEW p \in {"inst", "old", "new"}, disk'[p] # disk[p]
      PROVE  Permitted
  <2>1. PICK f \in File : ~Untouched(p, f)
    <3>1. p \in Places
      BY DEF Places
    <3>. QED
      BY <1>1, <3>1 DEF AskInv, Typed, DataTyped, Untouched
  <2>2. pc \in Applies /\ f \in (1 .. cnt) \ skipped
    BY <1>1, <2>1, Touches DEF AskInv, Places
  <2>3. f \in RootFiles
    BY <1>1, <2>1 DEF AskInv, GameOnly, Untouched
  <2>. QED
    BY <1>1, <2>2, <2>3 DEF AskInv, Asked
<1>2. AskInv /\ [Next]_vars => AskInv'
  BY NextAsk
<1>3. AskInv /\ AskInv' /\ [Next]_vars =>
        [(\E p \in {"inst", "old", "new"} : disk'[p] # disk[p]) => Permitted]_vars
  BY <1>1
<1>. QED
  BY <1>2, <1>3, InitAsk, PTL DEF Spec, ElevationRespected
----------------------------------------------------------------------------
(* What was applied is in place.  Neither a failing fclose nor a failing   *)
(* copy is among the faults: FS_CopyFile's result is not looked at, and    *)
(* then the apply loop goes on and removes the file in updates/.           *)

Replaced(f) == /\ pc \in Applies
               /\ f < cur \/ (f = cur /\ pc \in {"placeUnlink", "confirm"})

InPlace == \A f \in (1 .. cnt) \ skipped : Replaced(f) => Verified(f)

\* What the user was told is about this run's loop.
Told == \A f \in told : pc = "off" \/ (pc \in Applies /\ f < cur)

PlaceInv == SafeInv /\ InPlace /\ Told /\ AppliedIsTrue

LEMMA InitPlace == Init => PlaceInv
<1> SUFFICES ASSUME Init PROVE PlaceInv
  OBVIOUS
<1>1. pc = "off" /\ told = {}
  BY DEF Init
<1>. QED
  BY <1>1, InitSafe DEF PlaceInv, InPlace, Replaced, Told, AppliedIsTrue, Applies

\* A file that was replaced is not touched again.
LEMMA PlacedKept ==
    ASSUME SafeInv, [Next]_vars, NEW f \in File, Verified(f),
           f # cur \/ pc \notin BeforePlaced
    PROVE  Verified(f)'
<1>1. Dest(f) \in Places \ {"staged"}
  BY DestPlace DEF Places
<1>2. Untouched(Dest(f), f)
  <2>1. SUFFICES ASSUME ~Untouched(Dest(f), f) PROVE FALSE
    OBVIOUS
  <2>2. f = cur /\ pc \in BeforePlaced
    BY <1>1, <2>1, Touches DEF SafeInv, Removed, Broken, Shifted, Applied, Torn, Replacing,
                               BeforePlaced, Applies
  <2>. QED
    BY <2>2
<1>. QED
  BY <1>2 DEF Untouched, Verified, Dest

\* The step that puts a file into place puts the verified bytes there.
LEMMA PlacesVerified ==
    ASSUME SafeInv, Apply, "copy" \notin Faults, pc \in {"place", "placeCopy"},
           pc' \in {"placeUnlink", "confirm"}
    PROVE  Verified(cur)' /\ UNCHANGED cur
<1> USE DEF SafeInv
<1>1. cur \in (1 .. cnt) \ skipped /\ cur \in File
  BY DEF Working, Typed, ControlTyped, InLoop, Applies
<1>2. disk["staged"][cur] = "signed"
  BY <1>1 DEF Ready, Waiting, BeforePlaced, Applies
<1>p. "staged" \in Places /\ Dest(cur) \in Places \ {"staged"}
  BY DestPlace DEF Places
<1>3. Place \/ PlaceCopies
  BY DEF Apply, ApplySkips, ApplyDone, DropOldBackup, BackUp, BackUpCopies, BackUpBreaks,
         BackUpUnlinks, ClearOld, MoveLegacy, LegacyCopies, LegacyBreaks, LegacyUnlinks,
         PlaceUnlinks, Confirm
<1>4. UNCHANGED cur
  BY <1>3 DEF Place, PlaceCopies, Rename, Copy, Goto
<1>5. disk'[Dest(cur)][cur] = "signed"
  <2>1. CASE Place
    <3>1. Rename("staged", Dest(cur), "placeCopy", "confirm")
      BY <2>1 DEF Place
    <3>. QED
      BY <1>1, <1>2, <1>p, <3>1, RenameEffect
  <2>2. CASE PlaceCopies
    <3>1. Put(Dest(cur), "signed")
      BY <1>2, <2>2 DEF PlaceCopies, Copy, Fault, Exists
    <3>. QED
      BY <1>1, <1>p, <3>1, PutEffect DEF SetTo
  <2>. QED
    BY <1>3, <2>1, <2>2
<1>. QED
  BY <1>4, <1>5 DEF Verified, Dest

LEMMA NextPlace ==
    ASSUME PlaceInv, [Next]_vars, "flush" \notin Faults, "copy" \notin Faults
    PROVE  PlaceInv'
<1> USE DEF PlaceInv
<1>1. SafeInv'
  BY NextSafe
<1>t. Typed /\ Typed'
  BY <1>1 DEF SafeInv
<1>2. CASE UNCHANGED vars
  BY <1>1, <1>2 DEF vars, control, InPlace, Replaced, Told, AppliedIsTrue, Verified, Dest
<1>3. CASE Launch \/ RestartElevated \/ RestartRefused \/ Info \/ Parse
  <2>1. /\ UNCHANGED disk /\ pc' \notin Applies
        /\ told' = {} \/ (told' = told /\ pc \notin Applies /\ (pc = "off" => pc' = "off"))
    BY <1>3, <1>t, LookEffect DEF Applies, Launch, RestartElevated, RestartRefused, Run, End,
       Info, InfoFails, InfoUpToDate, InfoEmpty, InfoManifest, InfoQuiet,
       Parse, ParseLine, ParseFails, ParseDone
  <2>. QED
    BY <1>1, <2>1 DEF InPlace, Replaced, Told, AppliedIsTrue, Verified, Dest
<1>4. CASE Fetch
  <2>1. told = {} /\ told' = {}
    BY <1>4, <1>t, FetchEffect DEF Told, Applies
  <2>2. InPlace'
    BY <1>4, <1>t, FetchEffect DEF InPlace, Replaced, Applies, Typed, ControlTyped
  <2>. QED
    BY <1>1, <2>1, <2>2 DEF Told, AppliedIsTrue
<1>5. CASE Apply
  <2>1. InPlace'
    <3>1. SUFFICES ASSUME NEW f \in (1 .. cnt) \ skipped, Replaced(f)' PROVE Verified(f)'
      BY <1>5, <1>t, ApplyFlow DEF InPlace
    <3>2. f \in File
      BY <1>t DEF Typed, ControlTyped
    <3>3. CASE Replaced(f)
      <4>1. f # cur \/ pc \notin BeforePlaced
        BY <1>t, <3>3 DEF Replaced, BeforePlaced, Typed, ControlTyped
      <4>. QED
        BY <3>2, <3>3, <4>1, PlacedKept DEF InPlace
    <3>4. CASE ~Replaced(f)
      <4>1. /\ f = cur /\ pc \in {"place", "placeCopy"} /\ pc' \in {"placeUnlink", "confirm"}
        BY <1>5, <1>t, <3>1, <3>2, <3>4, ApplyFlow DEF Replaced, BeforePlaced, Applies, Typed, ControlTyped
      <4>. QED
        BY <1>5, <4>1, PlacesVerified
    <3>. QED
      BY <3>3, <3>4
  <2>2. /\ pc \in Applies /\ pc' \in {"off"} \cup Applies
        /\ \/ told' = told /\ (pc' = "off" \/ cur' \in {cur, cur + 1})
           \/ told' = told \cup {cur} /\ pc = "confirm" /\ cur' = cur + 1
    <3>1. CASE Confirm
      BY <3>1 DEF Confirm, Advance, End, Applies
    <3>2. CASE ~Confirm
      BY <1>5, <1>t, <3>2, ApplyFlow DEF Applies, Apply, ApplyQuiet, ApplySkips, ApplyDone,
         DropOldBackup, BackUp, BackUpCopies, BackUpBreaks, BackUpUnlinks, ClearOld, MoveLegacy,
         LegacyCopies, LegacyBreaks, LegacyUnlinks, Place, PlaceCopies, PlaceUnlinks
    <3>. QED
      BY <3>1, <3>2
  <2>3. \A f \in told : f < cur /\ f \in File
    BY <1>t, <2>2 DEF Told, Applies, Typed, DataTyped
  <2>4. Told'
    BY <1>t, <2>2, <2>3 DEF Told, Typed, ControlTyped
  <2>5. ASSUME NEW f \in told PROVE Verified(f)'
    BY <1>t, <2>3, <2>5, PlacedKept DEF AppliedIsTrue, Typed, ControlTyped
  <2>6. ASSUME pc = "confirm", NEW f \in {cur} PROVE Verified(f)'
    <3>1. f \in (1 .. cnt) \ skipped /\ f \in File
      BY <1>t, <2>6 DEF SafeInv, Working, Typed, ControlTyped, InLoop, Applies
    <3>. QED
      BY <2>6, <3>1, PlacedKept DEF InPlace, Replaced, BeforePlaced, Applies
  <2>7. AppliedIsTrue'
    BY <2>2, <2>5, <2>6 DEF AppliedIsTrue
  <2>. QED
    BY <1>1, <2>1, <2>4, <2>7
<1>6. CASE Crash
  <2>1. pc' = "off" /\ told' = told /\ pc # "off"
    BY <1>6 DEF Crash, End
  <2>2. ASSUME NEW f \in told PROVE Verified(f)'
    <3>1. f \in File /\ f # cur
      BY <1>t, <2>1 DEF Told, Typed, DataTyped, ControlTyped
    <3>. QED
      BY <3>1, PlacedKept DEF AppliedIsTrue
  <2>. QED
    BY <1>1, <2>1, <2>2 DEF InPlace, Replaced, Told, AppliedIsTrue, Applies
<1>. QED
  BY <1>2, <1>3, <1>4, <1>5, <1>6 DEF Next

\* "Update on file %s successfully applied." is true as long as no copy and no
\* fclose fails; the run MCUpdateInstall_copy shows what happens otherwise.
THEOREM AppliedWhenCopied ==
    ASSUME "flush" \notin Faults, "copy" \notin Faults PROVE Spec => []AppliedIsTrue
<1>1. PlaceInv /\ [Next]_vars => PlaceInv'
  BY NextPlace
<1>2. PlaceInv => AppliedIsTrue
  BY DEF PlaceInv
<1>. QED
  BY <1>1, <1>2, InitPlace, PTL DEF Spec

\* The apply loop removes a file from updates/ in two places only.
LEMMA StagedKept ==
    ASSUME Typed, [Next]_vars, pc \in Applies, NEW f \in File, ~Untouched("staged", f)
    PROVE  f = cur /\ pc \in {"place", "placeUnlink"} /\ pc' # "placeCopy" /\ Apply
<1>p. "staged" \in Places
  BY DEF Places
<1>1. CASE UNCHANGED disk
  BY <1>1 DEF Untouched
<1>2. CASE Apply
  BY <1>2, <1>p, ApplyEffect, DestPlace DEF Effect, Removed, Broken, Shifted, Applied
<1>3. CASE Crash
  <2>1. UNCHANGED disk \/ \E q \in Places \ {"staged"} : \E c : Put(q, c)
    <3>1. {"old", "inst"} \subseteq Places \ {"staged"} /\ Dest(cur) \in Places \ {"staged"}
      BY DestPlace DEF Places
    <3>. QED
      BY <1>3, <3>1 DEF Crash, Applies
  <2>. QED
    BY <2>1, <1>p DEF Put, Typed, DataTyped, Untouched
<1>4. CASE Fetch
  BY <1>4, FetchEffect DEF Applies
<1>. QED
  BY <1>1, <1>2, <1>3, <1>4, LookEffect DEF Next, vars

\* While files are replaced, each keeps an intact copy, the old or the new bytes,
\* wherever the process dies: until the new bytes are in place they are in updates/.
THEOREM ACopySurvives ==
    ASSUME "flush" \notin Faults, "copy" \notin Faults PROVE Spec => ApplyKeepsACopy
<1>1. ASSUME PlaceInv, PlaceInv', [Next]_vars, pc \in Applies, NEW f \in File, Survives(f)
      PROVE  Survives(f)'
  <2>t. SafeInv /\ Typed /\ Working
    BY <1>1 DEF PlaceInv, SafeInv
  <2>1. CASE f # cur \/ f \notin (1 .. cnt) \ skipped
    <3>1. \A p \in {"inst", "old", "save"} : Untouched(p, f)
      BY <1>1, <2>t, <2>1, Touches DEF Places
    <3>2. Untouched("staged", f)
      BY <1>1, <2>t, <2>1, StagedKept DEF Working, Typed, ControlTyped, InLoop, Applies
    <3>. QED
      BY <1>1, <3>1, <3>2 DEF Survives, Untouched
  <2>2. CASE f = cur /\ f \in (1 .. cnt) \ skipped /\ pc \in BeforePlaced
    <3>1. disk["staged"][f] = "signed"
      BY <2>t, <2>2 DEF SafeInv, Ready, Waiting
    <3>2. CASE Untouched("staged", f)
      BY <3>1, <3>2 DEF Survives, Untouched
    <3>3. CASE ~Untouched("staged", f)
      <4>1. pc = "place" /\ pc' # "placeCopy" /\ Apply
        BY <1>1, <2>t, <2>2, <3>3, StagedKept DEF BeforePlaced
      <4>2. pc' = "confirm"
        BY <2>t, <4>1, ApplyFlow
      <4>3. Verified(cur)' /\ UNCHANGED cur
        BY <2>t, <4>1, <4>2, PlacesVerified
      <4>. QED
        BY <2>2, <4>3, DestPlace DEF Verified, Survives, Dest
    <3>. QED
      BY <3>2, <3>3
  <2>3. CASE f = cur /\ f \in (1 .. cnt) \ skipped /\ pc \notin BeforePlaced
    <3>1. Verified(f)
      BY <1>1, <2>3 DEF PlaceInv, InPlace, Replaced, BeforePlaced, Applies
    <3>2. Verified(f)'
      BY <1>1, <2>t, <2>3, <3>1, PlacedKept
    <3>. QED
      BY <3>2 DEF Verified, Survives, Dest
  <2>. QED
    BY <2>1, <2>2, <2>3
<1>2. PlaceInv /\ [Next]_vars => PlaceInv'
  BY NextPlace
<1>3. PlaceInv /\ PlaceInv' /\ [Next]_vars =>
        [(pc \in Applies) => (\A f \in File : Survives(f) => Survives(f)')]_vars
  BY <1>1
<1>. QED
  BY <1>2, <1>3, InitPlace, PTL DEF Spec, ApplyKeepsACopy
----------------------------------------------------------------------------
(* The refinement.  Both invariants are needed: that the plan is disjoint  *)
(* from what is up to date (PlanInv) and that what was applied is in place *)
(* (PlaceInv).                                                             *)

RefInv == PlanInv /\ PlaceInv

Good == {f \in File : Verified(f)}

LEMMA InitPromise == Init => Promise!Init
BY DestPlace DEF Init, Promise!Init, Verified, Dest, Places

\* Only the step that puts a file into place changes what is up to date.
LEMMA GoodKept ==
    ASSUME RefInv, [Next]_vars,
           ~(pc \in {"place", "placeCopy"} /\ pc' \in {"placeUnlink", "confirm"})
    PROVE  UNCHANGED Good
BY DestinationKept DEF RefInv, Good

LEMMA GoodGrows ==
    ASSUME RefInv, Apply, "copy" \notin Faults,
           pc \in {"place", "placeCopy"}, pc' \in {"placeUnlink", "confirm"}
    PROVE  /\ cur \in ((1 .. cnt) \ skipped) \ Good /\ cur \in File
           /\ Good' = Good \cup {cur}
<1>1. Next
  BY DEF Next
<1>2. cur \in (1 .. cnt) \ skipped /\ cur \in File
  BY DEF RefInv, PlanInv, Working, Typed, ControlTyped, InLoop, Applies
<1>3. ~Verified(cur)
  BY <1>2 DEF RefInv, PlanInv, NotInPlace, Planned, BeforePlaced, Applies
<1>4. Verified(cur)' /\ UNCHANGED cur
  BY PlacesVerified DEF RefInv, PlaceInv
<1>5. ASSUME NEW f \in File, f # cur PROVE Verified(f)' <=> Verified(f)
  BY <1>1, <1>5, DestinationKept DEF RefInv
<1>6. \A f \in File : Verified(f)' <=> (Verified(f) \/ f = cur)
  BY <1>4, <1>5
<1>. QED
  BY <1>2, <1>3, <1>6 DEF Good

\* A step of the apply loop goes on, ends in failure, or is the end of the loop.
LEMMA ApplyOutcome ==
    ASSUME Apply
    PROVE  \/ pc' = "off" /\ outcome' = "failed"
           \/ ApplyDone
           \/ pc' \in Applies /\ UNCHANGED outcome
<1>1. CASE ApplySkips \/ Confirm \/ DropOldBackup \/ BackUp \/ BackUpCopies \/ BackUpBreaks
  BY <1>1 DEF ApplySkips, Confirm, DropOldBackup, BackUp, BackUpCopies, BackUpBreaks,
              Rename, Copy, CopyFails, Unlink, Goto, End, Advance, Applies
<1>2. CASE BackUpUnlinks \/ ClearOld \/ MoveLegacy \/ LegacyCopies \/ LegacyBreaks \/ LegacyUnlinks
  BY <1>2 DEF BackUpUnlinks, ClearOld, MoveLegacy, LegacyCopies, LegacyBreaks, LegacyUnlinks,
              Rename, Copy, CopyFails, Unlink, Goto, End, Applies
<1>3. CASE Place \/ PlaceCopies \/ PlaceUnlinks
  BY <1>3 DEF Place, PlaceCopies, PlaceUnlinks, Rename, Copy, Unlink, Goto, Applies
<1>. QED
  BY <1>1, <1>2, <1>3 DEF Apply

LEMMA LookKeepsPromise ==
    ASSUME RefInv, Launch \/ RestartElevated \/ RestartRefused \/ Info \/ Parse
    PROVE  [Promise!Next]_(Promise!promise)
<1>1. Next /\ Typed
  BY DEF Next, RefInv, PlanInv
<1>g. UNCHANGED Good
  BY <1>1, LookEffect, GoodKept
<1> USE DEF Good, Applies
<1>2. CASE Launch \/ RestartElevated
  <2>1. pc = "off" /\ pc' = "info" /\ outcome' = "none"
    BY <1>2 DEF Launch, RestartElevated, Run
  <2>2. Promise!Begin
    BY <2>1, <1>g DEF Promise!Begin
  <2>. QED
    BY <2>2 DEF Promise!Next
<1>3. CASE RestartRefused
  <2>1. pc = "off" /\ pc' = "off" /\ outcome = "restart" /\ outcome' = "failed"
    BY <1>3 DEF RestartRefused, End
  <2>2. Promise!Decline
    BY <2>1, <1>g DEF Promise!Decline
  <2>. QED
    BY <2>2 DEF Promise!Next
<1>4. CASE Info \/ Parse
  <2>1. /\ pc \in {"info", "parse"}
        /\ \/ pc' = "off" /\ outcome' \in Outcomes \ {"none"}
           \/ pc' \in {"parse", "fetch"} /\ UNCHANGED outcome
    BY <1>4 DEF Info, InfoFails, InfoUpToDate, InfoEmpty, InfoManifest, Parse, ParseLine,
                ParseFails, ParseDone, End, Restart, Outcomes
  <2>2. CASE pc' = "off" /\ outcome' = "installed"
    <3>1. Promise!Succeed
      BY <1>g, <2>1, <2>2 DEF Promise!Succeed
    <3>. QED
      BY <3>1 DEF Promise!Next
  <2>3. CASE pc' = "off" /\ outcome' # "installed"
    <3>1. Promise!GiveUp
      BY <1>g, <2>1, <2>3 DEF Promise!GiveUp, Promise!Results, Outcomes
    <3>. QED
      BY <3>1 DEF Promise!Next
  <2>4. CASE pc' \in {"parse", "fetch"} /\ UNCHANGED outcome
    BY <1>g, <2>1, <2>4 DEF Promise!promise
  <2>. QED
    BY <2>1, <2>2, <2>3, <2>4
<1>. QED
  BY <1>2, <1>3, <1>4

LEMMA FetchKeepsPromise == ASSUME RefInv, Fetch PROVE [Promise!Next]_(Promise!promise)
<1>1. Next /\ Typed
  BY DEF Next, RefInv, PlanInv
<1>2. pc \in {"fetch", "verify"} /\ UNCHANGED <<cnt, skipped>>
  BY <1>1, FetchEffect
<1>g. UNCHANGED Good
  BY <1>1, <1>2, GoodKept
<1> USE DEF Good, Applies
<1>3. \/ pc' = "off" /\ outcome' = "failed"
      \/ pc' \in {"fetch", "verify", "dropOld"} /\ UNCHANGED outcome
  BY DEF Fetch, FetchSkips, FetchFails, FetchWrites, FetchWriteFails, FetchVerifies, FetchDone,
         Advance, End, Goto, Restart
<1>4. CASE pc' = "off"
  <2>1. Promise!GiveUp
    BY <1>2, <1>3, <1>4, <1>g DEF Promise!GiveUp, Promise!Results
  <2>. QED
    BY <2>1 DEF Promise!Next
<1>5. CASE pc' \in {"fetch", "verify"}
  BY <1>2, <1>3, <1>5, <1>g DEF Promise!promise
<1>6. CASE pc' = "dropOld"
  <2> DEFINE P == (1 .. cnt) \ skipped
  <2>1. P \cap Good = {} /\ P \in SUBSET File
    BY <1>1, <1>2 DEF RefInv, PlanInv, NotInPlace, Planned, Typed, ControlTyped
  <2>2. Promise!Commit(P)
    BY <1>2, <1>3, <1>6, <1>g, <2>1 DEF Promise!Commit
  <2>. QED
    BY <2>1, <2>2 DEF Promise!Next
<1>. QED
  BY <1>3, <1>4, <1>5, <1>6

LEMMA ApplyKeepsPromise ==
    ASSUME RefInv, Apply, "copy" \notin Faults PROVE [Promise!Next]_(Promise!promise)
<1>1. Next /\ Typed
  BY DEF Next, RefInv, PlanInv
<1>2. pc \in Applies /\ UNCHANGED <<cnt, skipped>>
  BY <1>1, ApplyFlow
<1> USE DEF Good, Applies
<1>3. CASE pc' = "off" /\ outcome' = "failed"
  <2>1. Promise!GiveUp
    BY <1>1, <1>2, <1>3, GoodKept DEF Promise!GiveUp, Promise!Results
  <2>. QED
    BY <2>1 DEF Promise!Next
<1>4. CASE ApplyDone
  <2>1. pc' = "off" /\ outcome' = "installed" /\ cur > cnt
    BY <1>4 DEF ApplyDone, End
  <2>2. (1 .. cnt) \ skipped \subseteq Good
    BY <1>1, <1>2, <2>1 DEF RefInv, PlaceInv, InPlace, Replaced, Typed, ControlTyped
  <2>3. Promise!Succeed
    BY <1>1, <1>2, <2>1, <2>2, GoodKept DEF Promise!Succeed
  <2>. QED
    BY <2>3 DEF Promise!Next
<1>5. CASE pc' \in Applies /\ UNCHANGED outcome
  <2>1. CASE pc \in {"place", "placeCopy"} /\ pc' \in {"placeUnlink", "confirm"}
    <3>1. cur \in ((1 .. cnt) \ skipped) \ Good /\ cur \in File /\ Good' = Good \cup {cur}
      BY <2>1, GoodGrows
    <3>2. Promise!Replace(cur)
      BY <1>2, <1>5, <3>1 DEF Promise!Replace
    <3>. QED
      BY <3>1, <3>2 DEF Promise!Next
  <2>2. CASE ~(pc \in {"place", "placeCopy"} /\ pc' \in {"placeUnlink", "confirm"})
    BY <1>1, <1>2, <1>5, <2>2, GoodKept DEF Promise!promise
  <2>. QED
    BY <2>1, <2>2
<1>. QED
  BY <1>3, <1>4, <1>5, ApplyOutcome

\* Sec_Update with all its steps, failures and restarts implements UpdatePromise.
\* Each of the three excluded failures refutes it: a failed fclose or copy lets a
\* run report a file that is not in place, and a file that cannot be read is
\* replaced although it is up to date.
THEOREM PromiseKept ==
    ASSUME "flush" \notin Faults, "copy" \notin Faults, "unreadable" \notin Faults
    PROVE  Spec => KeepsPromise
<1>1. Init => RefInv
  BY InitPlan, InitPlace DEF RefInv
<1>2. RefInv /\ [Next]_vars => RefInv'
  BY NextPlan, NextPlace DEF RefInv
<1>3. RefInv /\ [Next]_vars => [Promise!Next]_(Promise!promise)
  <2> SUFFICES ASSUME RefInv, [Next]_vars PROVE [Promise!Next]_(Promise!promise)
    OBVIOUS
  <2>1. CASE UNCHANGED vars
    BY <2>1 DEF vars, control, Promise!promise, Verified, Dest
  <2>2. CASE Crash
    <3>1. pc # "off" /\ pc' = "off" /\ outcome' = "crashed"
      BY <2>2 DEF Crash, End
    <3>2. UNCHANGED Good
      BY <3>1, GoodKept
    <3>3. Promise!GiveUp
      BY <3>1, <3>2 DEF Promise!GiveUp, Promise!Results, Good, Applies
    <3>. QED
      BY <3>3 DEF Promise!Next
  <2>. QED
    BY <2>1, <2>2, LookKeepsPromise, FetchKeepsPromise, ApplyKeepsPromise DEF Next
<1>. QED
  BY <1>1, <1>2, <1>3, InitPromise, PTL DEF Spec, KeepsPromise, Promise!Spec
============================================================================
