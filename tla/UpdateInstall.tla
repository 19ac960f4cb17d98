--------------------------- MODULE UpdateInstall ---------------------------
(***************************************************************************)
(* One installation of CoD4X and the updater that works on it: Sec_Update, *)
(* Sec_DownloadFile and the file operations they call, launched by         *)
(* CoD4UpdateMain, ended by it, by a crash or by the user, and launched    *)
(* again.  Every call that changes the disk is a step, so that a run may   *)
(* end between any two of them.                                            *)
(*                                                                         *)
(* The manifest's files are numbered 1..N in the order of its lines.  A    *)
(* file is abstracted to the kind of bytes it holds:                       *)
(*    "prev"    what the game had before this update                       *)
(*    "signed"  bytes whose hash is the one signed in the manifest         *)
(*    "corrupt" downloaded bytes that are not (or a half-written download) *)
(*    "torn"    a copy that was cut off                                    *)
(*    "stale"   a .old or .new file that an earlier release left behind    *)
(***************************************************************************)
EXTENDS Integers, FiniteSets

CONSTANTS N,                    \* number of files in the server's manifest
          RootFiles,            \* files of the game directory (not fs_savepath/...)
          VersionFiles,         \* files under fs_savepath/bin/cod4x_<new version>
          UserMayWrite,         \* may a process that is not elevated write the game directory
          ServerTrustsVersion,  \* does the server answer 204 to whoever reports the new version
          Faults,               \* the kinds of failure that may happen
          MaxFaults             \* bound: how many failures happen at most

FaultKinds == {"reply", "cut", "crash", "consent", "unreadable", "write", "flush",
               "rename", "copy", "remove"}

File == 1 .. N

ASSUME UpdateAssumption ==
    /\ N \in Nat /\ MaxFaults \in Nat
    /\ RootFiles \subseteq File
    /\ VersionFiles \subseteq File \ RootFiles
    /\ UserMayWrite \in BOOLEAN /\ ServerTrustsVersion \in BOOLEAN
    /\ Faults \subseteq FaultKinds

\* Where the bytes of a file can be.  inst is <install>/<name>, old and new are
\* the same path with .old and .new, staged is <savepath>/updates/<name>, save
\* is <savepath>/<name without fs_savepath/>.
Places  == {"inst", "old", "new", "staged", "save"}
Content == {"absent", "prev", "signed", "corrupt", "torn", "stale"}
Plans   == {"info", "parse", "fetch", "verify"}
Applies == {"dropOld", "backup", "backupCopy", "backupUnlink", "clear",
            "legacy", "legacyCopy", "legacyUnlink",
            "place", "placeCopy", "placeUnlink", "confirm"}

VARIABLES
    pc,             \* where Sec_Update is; "off" when no updater runs
    cur,            \* the line or file the current loop is at
    cnt,            \* number of lines in the manifest that was received
    skipped,        \* files whose currFile->skipped is set
    needElevation,  \* a file of the game directory has to be replaced
    elevated,       \* this process was started with "runas"
    body,           \* the downloaded bytes in memory
    disk,           \* disk[place][file]
    versionDir,     \* does <savepath>/bin/cod4x_<new version> exist
    told,           \* files reported as "successfully applied" in this run
    outcome,        \* how the last run ended
    faultsLeft

control == <<pc, cur, cnt, skipped, needElevation, elevated, outcome>>
vars    == <<control, body, disk, versionDir, told, faultsLeft>>

Outcomes == {"none", "installed", "failed", "restart", "upToDate", "crashed"}

TypeOK ==
    /\ pc \in {"off"} \cup Plans \cup Applies
    /\ cur \in 1 .. N + 1
    /\ cnt \in 0 .. N
    /\ skipped \subseteq File
    /\ needElevation \in BOOLEAN /\ elevated \in BOOLEAN /\ versionDir \in BOOLEAN
    /\ body \in {"signed", "corrupt"}
    /\ disk \in [Places -> [File -> Content]]
    /\ told \subseteq File
    /\ outcome \in Outcomes
    /\ faultsLeft \in Nat
----------------------------------------------------------------------------
\* Sec_BuildDestinationFilePath: the file's own path.
Dest(f) == IF f \in RootFiles THEN "inst" ELSE "save"

Exists(p, f)   == disk[p][f] # "absent"

\* Sec_VerifyFile on the destination: only the signed bytes pass.
Verified(f) == disk[Dest(f)][f] = "signed"

\* Sys_TestPermissions: can the game directory be written.
Permitted == elevated \/ UserMayWrite

\* CoD4UpdateMain reports the number of the last bin/cod4x_* directory.  Its
\* order, Sys_SortVersionDirs, is that of the numbers if they have one length.
ReportsNewVersion == versionDir

Fault(kind) == /\ kind \in Faults
               /\ faultsLeft > 0
               /\ faultsLeft' = faultsLeft - 1

NoFault == UNCHANGED faultsLeft

Init ==
    /\ pc = "off" /\ cur = 1 /\ cnt = 0 /\ skipped = {} /\ told = {}
    /\ needElevation = FALSE /\ elevated = FALSE /\ versionDir = FALSE
    /\ body = "corrupt"
    /\ \E had \in SUBSET (File \ VersionFiles),
          oldLeft \in SUBSET RootFiles, newLeft \in SUBSET RootFiles :
         disk = [p \in Places |-> [f \in File |->
                   IF p = Dest(f) /\ f \in had THEN "prev"
                   ELSE IF (p = "old" /\ f \in oldLeft) \/ (p = "new" /\ f \in newLeft)
                        THEN "stale" ELSE "absent"]]
    /\ outcome = "none"
    /\ faultsLeft = MaxFaults

\* Sec_Update returns, CoD4UpdateMain shows its message box and shuts down.
End(result) == /\ pc' = "off" /\ outcome' = result
               /\ UNCHANGED <<cur, cnt, skipped, needElevation, elevated>>

Goto(label) == /\ pc' = label
               /\ UNCHANGED <<cur, cnt, skipped, needElevation, elevated, outcome>>

\* The loops' currFile = currFile->next.
Advance(label) == /\ pc' = label /\ cur' = cur + 1
                  /\ UNCHANGED <<cnt, skipped, needElevation, elevated, outcome>>

\* A loop starts over with currFile = files.next.
Restart(label) == /\ pc' = label /\ cur' = 1
                  /\ UNCHANGED <<cnt, skipped, needElevation, elevated, outcome>>
----------------------------------------------------------------------------
(* Starting the updater: CoD4UpdateMain up to its call of Sec_Update.      *)

Run(asAdmin) ==
    /\ pc' = "info" /\ cur' = 1 /\ cnt' = 0 /\ skipped' = {} /\ told' = {}
    /\ needElevation' = FALSE /\ elevated' = asAdmin /\ outcome' = "none"
    /\ UNCHANGED <<body, disk, versionDir>>

Launch == pc = "off" /\ outcome # "restart" /\ Run(FALSE) /\ NoFault

\* Sys_RestartProcess: the same program again through "runas" ...
RestartElevated == pc = "off" /\ outcome = "restart" /\ Run(TRUE) /\ NoFault

\* ... which the user may refuse, or which fails: the updater just returns.
RestartRefused ==
    /\ pc = "off" /\ outcome = "restart"
    /\ Fault("consent") /\ End("failed")
    /\ UNCHANGED <<body, disk, versionDir, told>>
----------------------------------------------------------------------------
(* Sec_GetUpdateInfo and what Sec_Update does with its result.             *)

InfoQuiet == UNCHANGED <<body, disk, versionDir, told>>

\* No connection, no complete answer, an error code, or no "baseurl: " line.
InfoFails == pc = "info" /\ Fault("reply") /\ End("failed") /\ InfoQuiet

\* 204: the server sees the new version number.  -1 all the same.
InfoUpToDate ==
    /\ pc = "info" /\ InfoQuiet /\ NoFault /\ End("upToDate")
    /\ ReportsNewVersion /\ ServerTrustsVersion

\* 200 with no content: Sec_Update returns 0.
InfoEmpty == pc = "info" /\ Fault("reply") /\ End("installed") /\ InfoQuiet

\* 200 with the manifest's first n lines; all of them unless the answer is cut.
InfoManifest(n) ==
    /\ pc = "info" /\ InfoQuiet
    /\ IF n = N THEN NoFault ELSE Fault("cut")
    /\ pc' = "parse" /\ cur' = 1 /\ cnt' = n
    /\ UNCHANGED <<skipped, needElevation, elevated, outcome>>
----------------------------------------------------------------------------
(* The parse loop and the test for elevation.                              *)

\* (variant) No destination is ever found up to date.
ParseLineNeverSkips ==
    /\ pc = "parse" /\ cur <= cnt /\ NoFault
    /\ needElevation' = (needElevation \/ cur \in RootFiles)
    /\ cur' = cur + 1
    /\ UNCHANGED <<pc, cnt, skipped, elevated, outcome, body, disk, versionDir, told>>

ParseLine ==
    /\ pc = "parse" /\ cur <= cnt
    /\ \E valid \in BOOLEAN :
         /\ IF valid THEN Verified(cur) /\ NoFault
                     ELSE IF Verified(cur) THEN Fault("unreadable") ELSE NoFault
         /\ skipped' = IF valid THEN skipped \cup {cur} ELSE skipped
         /\ needElevation' = (needElevation \/ (~valid /\ cur \in RootFiles))
    /\ cur' = cur + 1
    /\ UNCHANGED <<pc, cnt, elevated, outcome, body, disk, versionDir, told>>

\* Sec_ParseLine rejects the line.  For the first line Sec_FreeFileStruct is
\* called with NULL and the process dies.
ParseFails ==
    /\ pc = "parse" /\ cur <= cnt
    /\ Fault("reply") /\ End(IF cur = 1 THEN "crashed" ELSE "failed")
    /\ UNCHANGED <<body, disk, versionDir, told>>

\* (variant) Sys_TestPermissions is not asked.
ParseDoneUnasked ==
    /\ pc = "parse" /\ cur > cnt /\ NoFault
    /\ IF cnt = 0 THEN End("crashed") ELSE Restart("fetch")
    /\ UNCHANGED <<body, disk, versionDir, told>>

\* (variant) Without permission the update just fails.
ParseDoneGivesUp ==
    /\ pc = "parse" /\ cur > cnt /\ NoFault
    /\ IF needElevation /\ ~Permitted THEN End("failed")
       ELSE IF cnt = 0 THEN End("crashed")
       ELSE Restart("fetch")
    /\ UNCHANGED <<body, disk, versionDir, told>>

\* All lines are parsed.  Without permission the process restarts itself; with
\* a manifest of no files the download loop dereferences NULL.
ParseDone ==
    /\ pc = "parse" /\ cur > cnt /\ NoFault
    /\ IF needElevation /\ ~Permitted THEN End("restart")
       ELSE IF cnt = 0 THEN End("crashed")
       ELSE Restart("fetch")
    /\ UNCHANGED <<body, disk, versionDir, told>>
----------------------------------------------------------------------------
(* The download loop, Sec_DownloadFile.                                    *)

FetchSkips ==
    /\ pc = "fetch" /\ cur \in skipped /\ NoFault
    /\ Advance("fetch") /\ UNCHANGED <<body, disk, versionDir, told>>

\* The request cannot be made, fails, or is not answered with 200.
FetchFails ==
    /\ pc = "fetch" /\ cur <= cnt /\ cur \notin skipped
    /\ Fault("reply") /\ End("failed")
    /\ UNCHANGED <<body, disk, versionDir, told>>

\* The answer is complete and is written to updates/<name> before anything is
\* verified.  A failed fclose goes unnoticed: the file then differs from body.
FetchWrites ==
    /\ pc = "fetch" /\ cur <= cnt /\ cur \notin skipped
    /\ \E b \in {"signed", "corrupt"}, flushed \in BOOLEAN :
         /\ body' = b
         /\ disk' = [disk EXCEPT !["staged"][cur] = IF flushed THEN b ELSE "corrupt"]
         /\ CASE b = "signed" /\ flushed  -> NoFault
              [] b = "signed" /\ ~flushed -> Fault("flush")
              [] OTHER                    -> flushed /\ Fault("reply")
    /\ Goto("verify") /\ UNCHANGED <<versionDir, told>>

\* updates/<name> cannot be opened, or the write is short.
FetchWriteFails ==
    /\ pc = "fetch" /\ cur <= cnt /\ cur \notin skipped
    /\ Fault("write") /\ End("failed")
    /\ \/ UNCHANGED disk
       \/ disk' = [disk EXCEPT !["staged"][cur] = "corrupt"]
    /\ UNCHANGED <<body, versionDir, told>>

\* (variant) The hash is computed and not compared.
FetchVerifiesNothing ==
    /\ pc = "verify" /\ NoFault /\ Advance("fetch")
    /\ UNCHANGED <<body, disk, versionDir, told>>

\* Sec_VerifyMemory, on the bytes in memory.
FetchVerifies ==
    /\ pc = "verify" /\ NoFault
    /\ IF body = "signed" THEN Advance("fetch") ELSE End("failed")
    /\ UNCHANGED <<body, disk, versionDir, told>>

\* (variant) Applying starts with the first file that is there.
FetchDoneEarly ==
    /\ pc = "fetch" /\ cur > 1 /\ NoFault
    /\ Restart("dropOld") /\ UNCHANGED <<body, disk, versionDir, told>>

\* DisableExit and the start of the apply loop.
FetchDone ==
    /\ pc = "fetch" /\ cur > cnt /\ NoFault
    /\ Restart("dropOld") /\ UNCHANGED <<body, disk, versionDir, told>>
----------------------------------------------------------------------------
(* FS_RenameOSPath and FS_RenameOSPathUni: rename, or else copy and then   *)
(* remove the source, whether the copy succeeded or not.                   *)

Put(p, c) == disk' = [disk EXCEPT ![p][cur] = c]

\* Windows renames no file over another and none into a missing directory.
CanRename(from, to) == /\ Exists(from, cur) /\ ~Exists(to, cur)
                       /\ (to = "save" /\ cur \in VersionFiles => versionDir)

Rename(from, to, copying, done) ==
    \/ /\ CanRename(from, to) /\ NoFault /\ Goto(done)
       /\ disk' = [disk EXCEPT ![from][cur] = "absent", ![to][cur] = disk[from][cur]]
    \/ /\ IF CanRename(from, to) THEN Fault("rename") ELSE NoFault
       /\ Goto(copying) /\ UNCHANGED disk

Copy(from, to, unlinking) ==
    /\ \/ /\ Exists(from, cur) /\ NoFault /\ Put(to, disk[from][cur])
       \/ /\ IF Exists(from, cur) THEN Fault("copy") ELSE NoFault
          /\ UNCHANGED disk
    /\ Goto(unlinking)

\* In FS_CopyFile a short write is a Com_Error, which ends the process.
CopyFails(from, to) ==
    /\ Exists(from, cur) /\ Fault("copy") /\ Put(to, "torn") /\ End("failed")

Unlink(p, done) ==
    /\ \/ /\ Put(p, "absent") /\ NoFault
       \/ /\ Exists(p, cur) /\ Fault("remove") /\ UNCHANGED disk
    /\ Goto(done)
----------------------------------------------------------------------------
(* The apply loop.                                                         *)

ApplyQuiet == UNCHANGED <<body, versionDir, told>>

\* (variant) The list is walked past its end.
ApplySkipsPastEnd ==
    /\ pc = "dropOld" /\ cur \in skipped \cup {N + 1} /\ NoFault
    /\ Advance("dropOld") /\ UNCHANGED disk /\ ApplyQuiet

ApplySkips ==
    /\ pc = "dropOld" /\ cur \in skipped /\ NoFault
    /\ Advance("dropOld") /\ UNCHANGED disk /\ ApplyQuiet

\* (variant) The loop ends one file early.
ApplyDoneEarly ==
    /\ pc = "dropOld" /\ cur >= cnt /\ NoFault
    /\ End("installed") /\ UNCHANGED disk /\ ApplyQuiet

ApplyDone ==
    /\ pc = "dropOld" /\ cur > cnt /\ NoFault
    /\ End("installed") /\ UNCHANGED disk /\ ApplyQuiet

\* "Old backup file exists, delete it".
DropOldBackup ==
    /\ pc = "dropOld" /\ cur <= cnt /\ cur \notin skipped /\ ApplyQuiet
    /\ Unlink("old", "backup")

\* "Old file exists, back it up": FS_SV_Rename(name, name.old).
BackUp ==
    /\ pc = "backup" /\ ApplyQuiet
    /\ IF Exists("inst", cur) THEN Rename("inst", "old", "backupCopy", "clear")
                              ELSE Goto("clear") /\ NoFault /\ UNCHANGED disk

BackUpCopies  == pc = "backupCopy" /\ ApplyQuiet /\ Copy("inst", "old", "backupUnlink")
BackUpBreaks  == pc = "backupCopy" /\ ApplyQuiet /\ CopyFails("inst", "old")
BackUpUnlinks == pc = "backupUnlink" /\ ApplyQuiet /\ Unlink("inst", "clear")

\* "We couldn't back it up. Now we try to just delete it."
ClearOld ==
    /\ pc = "clear" /\ ApplyQuiet
    /\ \/ /\ Exists("inst", cur) /\ Fault("remove") /\ End("failed") /\ UNCHANGED disk
       \/ /\ Put("inst", "absent") /\ NoFault /\ Goto("legacy")

\* FS_SV_Rename(name.new, name): moves whatever an earlier release left there.
MoveLegacy     == pc = "legacy" /\ ApplyQuiet /\ Rename("new", "inst", "legacyCopy", "place")
LegacyCopies   == pc = "legacyCopy" /\ ApplyQuiet /\ Copy("new", "inst", "legacyUnlink")
LegacyBreaks   == pc = "legacyCopy" /\ ApplyQuiet /\ CopyFails("new", "inst")
LegacyUnlinks  == pc = "legacyUnlink" /\ ApplyQuiet /\ Unlink("new", "place")

\* updates/<name> becomes the destination.
Place == pc = "place" /\ ApplyQuiet /\ Rename("staged", Dest(cur), "placeCopy", "confirm")

\* (variant) The directories are made, the copy is forgotten.
PlaceCopiesNothing ==
    /\ pc = "placeCopy" /\ Goto("placeUnlink") /\ NoFault
    /\ versionDir' = (versionDir \/ cur \in VersionFiles)
    /\ UNCHANGED <<body, told, disk>>

\* FS_CopyFileUni creates the destination's directories before it copies.
PlaceCopies ==
    /\ pc = "placeCopy" /\ Copy("staged", Dest(cur), "placeUnlink")
    /\ versionDir' = (versionDir \/ cur \in VersionFiles)
    /\ UNCHANGED <<body, told>>

PlaceUnlinks == pc = "placeUnlink" /\ ApplyQuiet /\ Unlink("staged", "confirm")

\* The destination has to exist; nothing else about it is tested.
Confirm ==
    /\ pc = "confirm" /\ NoFault /\ UNCHANGED <<body, disk, versionDir>>
    /\ IF Exists(Dest(cur), cur) THEN Advance("dropOld") /\ told' = told \cup {cur}
                                 ELSE End("failed") /\ UNCHANGED told

\* The process dies (a crash, a power failure, or, before DisableExit, the
\* user's WM_CLOSE).  A write or a copy in progress is cut off.
Crash ==
    /\ pc # "off" /\ Fault("crash") /\ End("crashed")
    /\ \/ UNCHANGED disk
       \/ pc = "fetch" /\ cur <= cnt /\ cur \notin skipped /\ Put("staged", "corrupt")
       \/ pc = "backupCopy" /\ Exists("inst", cur) /\ Put("old", "torn")
       \/ pc = "legacyCopy" /\ Exists("new", cur) /\ Put("inst", "torn")
       \/ pc = "placeCopy" /\ Exists("staged", cur) /\ Put(Dest(cur), "torn")
    /\ versionDir' \in {versionDir, versionDir \/ (pc = "placeCopy" /\ cur \in VersionFiles)}
    /\ UNCHANGED <<body, told>>
----------------------------------------------------------------------------
Info  == InfoFails \/ InfoUpToDate \/ InfoEmpty \/ \E n \in 0 .. N : InfoManifest(n)
Parse == ParseLine \/ ParseFails \/ ParseDone
Fetch == \/ FetchSkips \/ FetchFails \/ FetchWrites \/ FetchWriteFails
         \/ FetchVerifies \/ FetchDone
Apply == \/ ApplySkips \/ ApplyDone \/ DropOldBackup
         \/ BackUp \/ BackUpCopies \/ BackUpBreaks \/ BackUpUnlinks \/ ClearOld
         \/ MoveLegacy \/ LegacyCopies \/ LegacyBreaks \/ LegacyUnlinks
         \/ Place \/ PlaceCopies \/ PlaceUnlinks \/ Confirm

Next == \/ Launch \/ RestartElevated \/ RestartRefused
        \/ Info \/ Parse \/ Fetch \/ Apply \/ Crash

Spec == Init /\ [][Next]_vars

\* The user keeps starting the game, which starts the updater; a running
\* updater is a single thread that the system schedules.
FairSpec == Spec /\ WF_vars(Next)
----------------------------------------------------------------------------
(* Properties.                                                             *)

Installed == \A f \in File : Verified(f)

\* Bytes that did not pass Sec_VerifyMemory are written to updates/ before they
\* are tested; they never get anywhere else (Sec_DownloadFile, Sec_Update).
UnverifiedStaysStaged ==
    \A p \in Places \ {"staged"}, f \in File : disk[p][f] # "corrupt"

\* Nothing outside updates/ changes before every file that is still to be
\* replaced lies downloaded and verified in updates/ (the two loops of Sec_Update).
AllVerifiedFirst ==
    [][(\E p \in Places \ {"staged"} : disk'[p] # disk[p]) =>
         /\ pc \in Applies
         /\ \A f \in (cur + 1 .. cnt) \ skipped : disk["staged"][f] = "signed"]_vars

\* A file that was brought up to date stays so through every later run, failed
\* ones and crashes included: the parse loop finds it verified and skips it.
InstalledForever == [][\A f \in File : Verified(f) => Verified(f)']_vars

\* While files are replaced, every file keeps an intact copy somewhere, the old
\* bytes or the new ones, wherever the process dies (the order of the backup,
\* the copy and the removal in the apply loop).
Survives(f) == \E p \in {"inst", "old", "staged", "save"} : disk[p][f] \in {"prev", "signed"}
ApplyKeepsACopy ==
    [][(pc \in Applies) => (\A f \in File : Survives(f) => Survives(f)')]_vars

\* The game directory is changed only by a process that may write it: the parse
\* loop's needElevation covers every file the apply loop touches there.
ElevationRespected ==
    [][(\E p \in {"inst", "old", "new"} : disk'[p] # disk[p]) => Permitted]_vars

\* "Game files are up to date." (Sec_GetUpdateInfo, status 204) is true although
\* the version sent to the server only says that a directory exists.
UpToDateIsTrue == outcome = "upToDate" => Installed

\* Whatever went wrong before, a user who keeps starting the game ends up with
\* the update: no leftover of a failed run is in the way of the next one -- but
\* for the version directory.  A run that dies after the first file of it leaves
\* it behind, every later launch reports the new version (update_main.c:1477-1500),
\* and a server that answers 204 to it ends the repair for good: UpToDateIsTrue
\* is violated by that.  It is assumed too that failures stop at some time.
EventuallyInstalled == <>[](Installed \/ (ServerTrustsVersion /\ versionDir))

\* "Update on file %s successfully applied." (sec_update.c:489): the file's
\* destination then holds the new bytes.
AppliedIsTrue == \A f \in told : Verified(f)

\* A run commits when it enters the apply loop; its plan is what it did not skip.
Promise == INSTANCE UpdatePromise WITH
    phase  <- IF pc = "off" THEN "idle" ELSE IF pc \in Applies THEN "replacing" ELSE "looking",
    plan   <- IF pc \in Applies THEN (1 .. cnt) \ skipped ELSE {},
    good   <- {f \in File : Verified(f)},
    result <- outcome

\* The stepwise updater implements the promise: it commits before it touches
\* anything, replaces only what it committed to, never undoes a file, and says
\* "installed successfully" only when the plan is in place (Sec_Update).
KeepsPromise == Promise!Spec
=============================================================================
