------------------------------- MODULE Manifest ------------------------------
(***************************************************************************)
(* Reading the manifest (src/sec_update.c): the text the update server     *)
(* answers is cut into lines, and a line into a path, a size and a         *)
(* signature.                                                              *)
(***************************************************************************)
EXTENDS Strings
LOCAL INSTANCE SequencesExt
LOCAL INSTANCE FiniteSetsExt

Exhausted == [token |-> None, mem |-> None]
Split(mem, seps) ==
    IF Places(mem, seps) # {} THEN [token |-> Before(mem, seps), mem |-> After(mem, seps)]
    ELSE [token |-> IF mem = <<>> THEN None ELSE mem, mem |-> None]

\* (variant) Runs of separators taken for one, as strtok does.
NextTokMerging(mem, seps) ==
    IF mem = None THEN Exhausted
    ELSE Split(From(mem, Min({i \in 1 .. Len(mem) + 1 : At(mem, i) \notin seps})), seps)

\* Sec_StrTok(NULL, tokens, id): the text up to the next separator.
NextTok(mem, seps) == IF mem = None THEN Exhausted ELSE Split(mem, seps)

\* Sec_StrTok(str, tokens, id): starts at the first byte that differs from a
\* separator, unless an earlier text was not read to its end.
Sec_StrTok(mem, str, seps) ==
    LET P == {i \in 1 .. Len(str) : \E c \in seps : str[i] # c}
    IN  IF str = None THEN NextTok(mem, seps)
        ELSE IF mem = None /\ P = {} THEN Exhausted
        ELSE NextTok(IF mem = None THEN From(str, Min(P)) ELSE mem, seps)

\* isInteger(string, 0): spaces, then digits and one '-' anywhere among them.
isInteger(s) ==
    LET t    == Before(s, {Ch.newline, Ch.return})
        word == Before(From(t, Min({i \in 1 .. Len(t) + 1 : At(t, i) # Ch.space})), {Ch.space})
    IN  /\ \A i \in DOMAIN word : IsDigit(word[i]) \/ word[i] = Ch.minus
        /\ Q_CountChar(word, Ch.minus) <= 1

\* isFloat(string, 0): the same with one '.' and no stop at '\r'.
isFloat(s) ==
    LET t    == Before(s, {Ch.newline})
        word == Before(From(t, Min({i \in 1 .. Len(t) + 1 : At(t, i) # Ch.space})), {Ch.space})
    IN  /\ \A i \in DOMAIN word : IsDigit(word[i]) \/ word[i] \in {Ch.minus, Ch.dot}
        /\ Q_CountChar(word, Ch.minus) <= 1 /\ Q_CountChar(word, Ch.dot) <= 1

\* MAX_OSPATH and sizeof hash; a name is the path.
PathSize == 256
HashSize == 4096

Corrupt == [path |-> None, size |-> 0, hash |-> None]
Sec_ParseLine(line) ==
    LET rest == After(line, {Ch.space})
    IN  IF ~Has(line, Ch.space) \/ ~Has(rest, Ch.space) \/ ~isInteger(Before(rest, {Ch.space}))
        THEN Corrupt
        ELSE [path |-> Q_strncpyz(Before(line, {Ch.space}), PathSize),
              size |-> atoi(Before(rest, {Ch.space})),
              hash |-> Q_strncpyz(After(rest, {Ch.space}), HashSize)]

\* The loop of Sec_Update: lines until there are no more or one is corrupt.
RECURSIVE Files(_)
Files(mem) ==
    LET tok  == Sec_StrTok(mem, None, {Ch.newline})
        file == Sec_ParseLine(tok.token)
    IN  IF tok.token = None THEN <<>>
        ELSE IF file = Corrupt THEN <<Corrupt>> ELSE <<file>> \o Files(tok.mem)

baseurl == <<98, 97, 115, 101, 117, 114, 108, 58, 32>>         \* "baseurl: "

\* The first line names the server of the files.
Sec_Update(buff) ==
    LET first == Sec_StrTok(None, buff, {Ch.newline})
    IN  IF first.token = None \/ Q_stricmpn(baseurl, first.token, 9) # 0
        THEN [url |-> None, files |-> <<>>]
        ELSE [url |-> Q_strncpyz(From(first.token, 10), 1024), files |-> Files(first.mem)]
=============================================================================
