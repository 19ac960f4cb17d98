-------------------------------- MODULE Paths --------------------------------
(***************************************************************************)
(* Paths and version directories (src/update_main.c).  A directory entry   *)
(* is its name and whether it is a directory; names are texts.             *)
(***************************************************************************)
EXTENDS Strings
LOCAL INSTANCE SequencesExt
LOCAL INSTANCE FiniteSetsExt

Separators == {Ch.slash, Ch.backslash}
PathSep    == Ch.backslash                                  \* PATH_SEP on Windows

FS_StripTrailingSeperator(path) ==
    IF path # <<>> /\ Last(path) = PathSep THEN Front(path) ELSE path
FS_StripTrailingSeperatorUni(path) == FS_StripTrailingSeperator(path)
FS_ReplaceSeparators(path) == Mapped(path, LAMBDA c : IF c \in Separators THEN PathSep ELSE c)
FS_ReplaceSeparatorsUni(path) == FS_ReplaceSeparators(path)

\* The base and the game directory lose one separator at their end each.
Trimmed(t, limit) ==
    LET s == Q_strncpyz(t, limit) IN IF s # <<>> /\ Last(s) \in Separators THEN Front(s) ELSE s

\* None stands for the Com_Error "os path length exceeded".
Joined(base, game, qpath, limit) ==
    Trimmed(base, limit) \o <<Ch.slash>> \o Trimmed(game, limit) \o <<Ch.slash>> \o qpath
Normal(path) == FS_StripTrailingSeperator(FS_ReplaceSeparators(path))
FS_BuildOSPathForThread(base, game, qpath, limit) ==
    LET path == Joined(base, game, qpath, limit)
    IN  IF Len(path) >= limit THEN None ELSE Normal(path)

\* The wide one copies qpath too, into qlimit characters.  Its Com_sprintfUni returns
\* -1 for a path longer than limit: that is not >= limit, and the buffer is used as
\* it is, full and without a zero.
FS_BuildOSPathForThreadUni(base, game, qpath, limit, qlimit) ==
    LET path == Joined(base, game, Q_StrToWStr(qpath, 2 * qlimit), limit)
    IN  IF Len(path) = limit THEN None ELSE Normal(Cut(path, limit))

\* The save path is the directory that holds updates/ (given as text).
FS_SetupSavePath(updatepath, updates) ==
    LET path == FS_StripTrailingSeperatorUni(updatepath)
    IN  FS_ReplaceSeparatorsUni(FS_StripTrailingSeperatorUni(
            IF IsSuffix(updates, path) THEN SubSeq(path, 1, Len(path) - Len(updates) - 1) ELSE path))
FS_SetupInstallPath(installpath) == FS_ReplaceSeparators(FS_StripTrailingSeperator(installpath))
----------------------------------------------------------------------------
(* The version is the number in the name of the last of the directories    *)
(* cod4x_<number>, in the order of their names.                             *)

cod4x_ == <<99, 111, 100, 52, 120, 95>>

Listed(e) ==
    /\ e.directory /\ e.name # <<>> /\ Q_WIsAnsiString(e.name)
    /\ ~(e.name[1] = Ch.dot /\ At(e.name, 2) \in {Ch.dot, 0})

\* The list keeps one place for its NULL.
Sys_ListDirectories(entries, limit) ==
    LET names == Mapped(SelectSeq(entries, Listed), LAMBDA e : e.name) IN Cut(names, limit - 1)

\* (variant) The order turned round.
SortDescending(s, t) == Q_stricmp(t, s)

Sys_SortVersionDirs(s, t) == Q_stricmp(s, t)

Filtered(names) == SelectSeq(names, LAMBDA n : Q_stricmpn(n, cod4x_, 6) = 0)

\* qsort, of which only the last place is used.
LastSorted(names) ==
    CHOOSE n \in ToSet(names) : \A m \in ToSet(names) : Sys_SortVersionDirs(m, n) <= 0

\* 0 stands for the version "1.0", a number n for "n.x".
Version(entries, limit) ==
    LET names == Filtered(Sys_ListDirectories(entries, limit))
    IN  IF names = <<>> THEN 0 ELSE atoi(From(LastSorted(names), Len(cod4x_) + 1))
=============================================================================
