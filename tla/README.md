# Specifications of the CoD4X updater (cod4update.dll)

TLA+ models of the library that `mss32.dll` launches to download and install
new CoD4X files (`src/readme.txt`), with the TLC runs that check them and the
TLAPS proofs about them. Line numbers refer to the files under `src/`.
`PROJECT.json` holds the details: the source lines of every definition, the
hazards, the runs, and for every property a small bug that would break it.

## 1. The system

| part | source | state it keeps | operations |
|---|---|---|---|
| main program | `update_main.c` 1438-1535 | version string, save and install path, restart command line | `CoD4UpdateMain`, `CoD4UpdateShutdown`, `Sys_RestartProcess` |
| update | `sec_update.c` | the manifest's list of files (`skipped`, `path`, `hash`), the files on disk | `Sec_Update`, `Sec_GetUpdateInfo`, `Sec_ParseLine`, `Sec_DownloadFile` |
| file operations | `update_main.c` 215-782 | none (they act on the disk) | create path, copy, rename, remove, exists, write |
| console | `win_syscon.c` | mailboxes for status line, second status line, progress and log text; `quitOnClose` | `Sys_SetStatusText`, `Sys_SetProgress`, `Conbuf_AppendText`, `DisableExit`, the window thread |
| file transfer | `httpftp.c` | `ftRequest_t`: sockets, three message buffers, header length, content length, stage | `FileDownloadRequest`, `FileDownloadSendReceive`, the HTTP and FTP machines |
| message buffers | `msg.c` | `msg_t`: data, `cursize`, `readcount`, overflow flag | read and write bytes, numbers, texts, data, bits, base64 |
| sockets | `sys_net.c` | one TCP socket per connection | connect, send, receive, close |
| verification | `sec_sign.c`, `sec_crypto.c`, `sec_init.c`, `sec_rsa_functions.c` | `initialized` | hash, import the key, compare |
| strings | `qshared.c`, `sec_common.c` | none | copy, format, tokenise |
| vendored | `tomcrypt/`, `blake/` | hash and big-number state | RSA, DER, base64, hashes; third party |

**How they interact.** `CoD4UpdateMain` starts the console thread, initialises
the network and the crypto self-test, finds the newest installed version, and
calls `Sec_Update` on its own thread. `Sec_Update` asks the server for a
manifest, verifies what is installed, restarts elevated if needed, downloads
each file (a polling loop around `FileDownloadSendReceive`), and applies them.
It posts progress to the console through four mailboxes guarded by one critical
section. The window thread polls the mailboxes and handles the user's close.

**What is hard about it, and what has to be right.**

| part | hard behaviour | has to be right |
|---|---|---|
| update | the process may die between any two file operations; rename falls back to copy and unlink; the process restarts itself elevated; the next run starts from whatever the last one left | only verified bytes leave `updates/`; nothing is replaced before all of it is there; every file keeps an intact copy; success is reported only when it is one; launching again repairs what a failed run left, as far as the server lets it (section 3) |
| console | two threads, mailboxes tested outside the critical section, a message sent across threads that blocks, waiting loops without a timeout | no torn text, no lost status, nobody waits for ever, and after `DisableExit` the window cannot end the process |
| HTTP | segments end anywhere, the answer's state is parsed anew with each of them, redirects change the connection, the peer closes with the last data or before it | a completed transfer is the body the last server sent; a failed one had a failure; it ends; the socket is released |
| FTP | two connections that deliver independently, a numbered stage moved by replies, some of them by one | the whole file or a failure; no command before its time; both sockets released; it ends |
| versions | names are sorted as text, the new version exists with its first file | the reported version is the installed one |
| message buffers | bits share bytes with each other while whole bytes are written behind them; messages come in two parts | nothing beyond the buffer; what was written is read |
| texts, URLs, manifest | fixed buffers, empty lines and fields, a tokeniser that keeps its place between calls | an input is taken apart into what it was put together from |
| verification | RSA by its primes or with the public key, DER with its limits, five multiplications and four reductions chosen by size, messages hashed in pieces | a signature passes for its own file only; every algorithm computes the same integers |

The hazards are in `PROJECT.json`, each at its line; those without a property
say why.

## 2. The modules

| module | models | extends / instantiates |
|---|---|---|
| `UpdateInstall` | the update, the file operations, launch and elevation | `UpdatePromise` (as `Promise`) |
| `UpdatePromise` | abstract: what one run promises about the installation | |
| `UpdateInstallProofs` | theorems: types, verified before applied, nothing is undone or lost, the refinement of `UpdatePromise` | `UpdateInstall` |
| `Console` | both threads and the mailboxes | `Mailbox` (for each text channel) |
| `Mailbox` | abstract: a one-message mailbox without loss | |
| `ConsoleProofs` | theorems about `Console`, the refinement of `Mailbox` | `Console` |
| `HttpTransfer` | one HTTP download, call by call | |
| `HttpReadingProofs` | lemmas: what the parsing functions return on any part of an answer | `HttpTransfer`, `SetInduction` |
| `HttpTransferProofs` | theorems about `HttpTransfer` | `HttpReadingProofs` |
| `FtpTransfer` | one FTP download, call by call | |
| `FtpTransferProofs` | theorems about `FtpTransfer` | `FtpTransfer` |
| `MsgBuffer` | message buffers: all writers and readers of `msg.c` | |
| `MsgBufferProofs` | theorem: a message stays within its buffer | `MsgBuffer`, `SetInduction` |
| `MsgReadingProofs` | theorem: what was written is read | `MsgBufferProofs` |
| `SetInduction` | lemmas: induction over numbers, functions defined by recursion | |
| `Strings` | bounded copies, comparisons, searches, replacements (`qshared.c`) | |
| `InfoStrings`, `Tokens` | info strings; the tokenisers | `Strings` |
| `Paths` | paths, the list of version directories and the version chosen | `Strings` |
| `Manifest` | `Sec_StrTok`, `Sec_ParseLine` and the parse of the manifest | `Strings` |
| `Urls` | URLs, the HTTP request's parts, passive FTP addresses | `Strings` |
| `Addresses` | conversion, choice and comparison of network addresses | |
| `BigNum` | LibTomMath: numbers of digits | |
| `Encodings`, `DerSequences` | base64, PEM and DER | the latter extends the former |
| `Hashing` | cutting a message into blocks, padding, `Sec_HashMemory`, `Sec_HashFile` | |
| `Signatures` | RSA keys, PKCS #1 v1.5, `Sec_VerifyMemory`, `Sec_VerifyFile` | `DerSequences` |
| `BigNumReference` | what the operators of `BigNum` should compute | `BigNum` (as `Big`, with digits of three bits) |
| `MCLibrary` | the inputs and the properties of the modules without state | all of them |
| other `MC...` | model-checking instances | the module of that name |

Definitions marked *(variant)* are not part of a specification: they are the
plausible bugs that show that a property can fail.

### UpdateInstall

`disk[place][file]` says which bytes are where: at the file's name in the game
directory (`inst`), beside it as `.old` and `.new`, in `updates/` (`staged`) and
in the save path (`save`). `Dest` is `Sec_BuildDestinationFilePath`. Bytes are
known by their origin only: what the game had before, the signed ones, corrupt
ones, a copy that was cut off, or a leftover of an earlier release.

`pc` walks through `Sec_Update`. `Launch` to `Info...` is `CoD4UpdateMain` and
`Sec_GetUpdateInfo`; `ParseLine`, `ParseFails` and `ParseDone` are the parse
loop with the test for elevation; `Fetch...` is `Sec_DownloadFile`, where the
file is written before it is verified; `DropOldBackup` to `Confirm` are the
apply loop, one step per call that touches the disk. `Rename`, `Copy` and
`Unlink` are `FS_RenameOSPath(Uni)`: a rename, or else a copy and a removal of
the source whatever became of the copy. `Crash` ends the process at any step,
with a half-written file if one was being written. A run is followed by another
(`Launch`), so the models start from every state an earlier run can leave.

`Faults` names what can fail and `MaxFaults` how often.

### Console

`main` and `con` are the two threads. A buffer is its first byte (`head`), which
`consoleBuffer` also uses as a flag, and the rest (`body`), so that a write is
two steps. The critical section `cs` is entered and left in steps of their own,
and what the code does outside it (the tests of the flags, the second clearing
of `consoleBuffer` and `statusText2`) is outside it here. `EnableWindow` is a
message that the window thread has to take (`sentEnable`).

`posted` and `shown` are histories. `StatusMailbox` and `ConsoleMailbox` map
them to the abstract `Mailbox`: the status line implements it, the log does not.

### HttpTransfer

An answer is a sequence of symbols (`Wire`): bytes where a decision depends on
them (line ends, zero, the body) and whole lines where it does not. `arrived`
grows by any amount between two calls, so every segmentation occurs. The
actions of `Call` are the ways through `HTTP_SendReceiveData`: sending the rest
of the request, no new data, chunks, a further part of a body, and the header
with what follows it. `ReadStringLine`, `HeaderLines` and the chunk operators are the
functions of the code on the buffer's contents. `Redirect` closes the socket,
resets the request and connects to another server.

### FtpTransfer

A call has three phases, as in the code: receive or send on the control
connection, the loop over the replies (`Reaction`, the big switch: `Moves` is
the table of replies that do what they are meant for, `PassedOver` and `Fatal`
the rest, and the rule that any other 2xx reply adds one to the stage), and the
switch over the stage (`Issues`, `ReceiveFile`, `FinishFile`, ...). The server
answers each command it has got, in any of the ways `Answers` and `Refusals`
list; the file arrives on a connection of its own.

Stage -10 (line 1201) is overwritten with -20 in the same pass, because the case
ends without a `break`; it has no state of its own.

### MsgBuffer

`msg` is the record of `msg_t`'s fields with the bytes behind its pointers. A
writer or reader of the code is an operator on it; the loops over bytes and bits
are given by what they leave behind. `log` remembers what was written without an
overflow, and `Read` reads it in that order. `Receive` is
`MSG_InitReadOnly(Split)`: the reader has the same bytes in one part or in two.

A number is its bits: `Shifted` is the loop `bits >>= 1` of `MSG_WriteBits` and
`OfBits` puts a byte together again. `Place` says where bit number i of a number
goes: into what is left of the byte begun last, then into new bytes. `Legible`
says which inputs can be told apart from what ends them (section 3).

### The modules without state

They define the functions of the code as operators, under the code's names.
Texts are sequences of characters up to the terminating zero, so that a buffer
of size n holds n - 1 of them. `Signatures`, `Hashing` and `BigNum` have
parameters where the code has something a model checker cannot compute: the
size of a digit (28 bits in the code), what a block does to the state of a
hash, RSA on octets of a real size. `rsa_make_key`, `rsa_exptmod` and the forms
of a key are defined on numbers small enough to compute with.

`BigNum` follows LibTomMath algorithm by algorithm: which of them is taken
depends on the number of digits and on constants (`KaratsubaCutoff`, `MaxRow`,
...) that the instance makes small, so that each is taken.

`MCLibrary` builds inputs item by item; every state is one input of one kind.
What is asked of numbers, DER elements, keys and signatures are its constants
`Arithmetic`, `Encoding`, `KeyPair` and `Signing`; the configuration gives them
the definitions of the module (`NumbersAreExact`, `ListsAreReadBack`,
`KeyUndoesKey`, `SignatureIsOf`). These formulas reach thousands of definitions,
and as constants they are expanded once when TLC records coverage; with
`-coverage` it warns that it does not count inside them.

## 3. What is checked

| run | what it shows |
|---|---|
| `install` | Only verified bytes leave `updates/`; everything is fetched before anything is replaced; files once installed stay so; each file keeps an intact copy; the game directory is changed with permission only; the stepwise updater implements `UpdatePromise`. |
| `install_live` | With every kind of failure, and a server that does not answer 204 to a version directory, repeated launches end with the update in place. |
| `install_copy` | *Violated:* "Update on file %s successfully applied." (`sec_update.c:489`) is said of a file whose copy failed and whose download was deleted. |
| `install_204` | *Violated:* "Game files are up to date." (`sec_update.c:254`) after a crash in the apply loop: the version's directory exists, some of its files do not. |
| `console` | No torn text; the status line is a lossless mailbox; the bar only grows and catches up; no call waits for ever; a process that ends while files are replaced was ended in the gap between `EnableWindow` and `quitOnClose = qfalse`, and in no other way. |
| `console_lost` | *Violated:* a log text is wiped by the window thread after the updater has stored it (`win_syscon.c:172`). |
| `http` | Every segmentation, a buffer that has to grow, answers of every kind: a completed transfer has the whole body of the last server and nothing else, chunks are in order, (chunked answers aside) a failure is a real one, the code is the last server's, there is one socket at most, and every download ends. |
| `http_chunked` | *Violated:* a chunked answer of which every byte was received, in segments that tear no header line, is reported as failed (-1, `httpftp.c:1417`): every segment is searched for a header again, and with one that has no empty line in it the code forgets that the answer is chunked. |
| `ftp` | The whole file or a failure; no RETR without size, buffer and data connection; one command at a time; the sockets are released; every download ends. |
| `ftp_226` | *Violated:* "The FTP server closed the data connection" (`httpftp.c:1304`) is said of an open one: the reply 226 was read before the data. |
| `messages` | However bits, bytes, numbers, texts and base64 are mixed, nothing is written or read outside the buffer, and reading gives back what was written, in the order it was written, if its entries are `Legible`; a read past the last entry, or after a discard, finds nothing and overflows, but for bits left of a begun byte; the bits in use are those that were written. |
| `library` | The two tokenisers agree and what they yield survives quoting; the newest version is chosen; a manifest is read as its entries, or refused; URLs and passive addresses are taken apart into their fields; info strings are maps; texts fit their buffers and a path is whole or refused (exceptions below); comparisons are orders; arithmetic is that of the integers by whichever algorithm; what is written as DER is read back in every way of reading; a message hashes the same in whatever pieces; a signature passes for its file, its key and nothing else. |

**Bounds.** `install`: three files, one per kind of destination (game directory,
save path, version directory), are enough for a file before and a file after
the one that fails; three failures allow a crash in the recovery from a crash
after a failed rename. The version directory only matters for the files below
it, and one is enough. `install` leaves out failing copies, failing `fclose` and
failing reads, because with them `UnverifiedStaysStaged` and
`InstalledForever` do not hold; `install_live` has them all.

**What `EventuallyInstalled` assumes of the server.** A run that dies in the apply
loop can leave `bin/cod4x_<new version>` behind with some of its files missing.
Every later launch reports that version (`update_main.c:1477-1500`); if the server
answers 204 to it, the launch ends with "Game files are up to date." and the
installation is never repaired: `install_204` shows this. `EventuallyInstalled`
therefore says "in place, or the version directory exists and the server trusts
it" (`ServerTrustsVersion`), and `install_live` sets `ServerTrustsVersion =
FALSE`, so that there it says "in place". `install_copy` sets it so too, because
its question is another one.

`console`: three reports in a row fill a mailbox, wait for it and come back to
it; one close suffices, because the second finds the window closing.
`http`: bodies of up to five symbols with line ends, empty lines and zero bytes;
two connections; a buffer that must be enlarged within the header and the body. `ftp`: a file of three
units and a buffer of one make the buffer grow twice, the second time not by
doubling.

`messages`: three writes, a buffer of twelve bytes that the larger of them
overflow, bits in groups of 1, 3, 9 and 30, so that a byte is shared by up to
three groups and crossed by one; a string with a `%` and a base64 text of one
byte, which are not `Legible`, so that the other writes and reads also occur
around such a one. `library`: for each kind of input all inputs up
to the length at which every branch is taken (`MCLimit`): texts of up to seven
characters over the characters the code tests for; three version names of one
and two digits; all combinations of the fields of a URL; numbers of up to three
digits of three bits, so that Karatsuba and Toom-Cook have parts of one digit;
DER elements on both sides of each limit of an octet and of a sign (127/128,
255/256, ...) in lists of up to two; messages of up to three pieces about a
block (55, 56, 63, 64, 65) and more; all primes up to 13 and exponents up to 7.

**Headers cut inside a line (`torn`).** With a segment that ends between the
last two bytes of the header the code takes a shorter header (`httpftp.c:530`),
and what it hands over is off by a byte. `http` has such segments; the history
`torn` marks them, and `FullMessage` and `FailureIsReal` are stated for
transfers without one. The other properties of the run hold for all.

**What `ReadsWhatWasWritten` leaves out, because it does not hold.** A `%` in a
text, which is read as `.` (`msg.c:445-494`); a string or line with a zero in it,
a line with a newline in it, and a string that is too long for `MAX_STRING_CHARS`,
which is written as an empty one; base64 of no bytes, which marks with `=` the
bytes written before it (`msg.c:322-359`), and base64 that ends in two `=`, one of
which the reader leaves behind; a number of bits that has more of them than are
written. What there is past the end depends on the reader (`Nothing`): a number and
bits are -1, a text or line is empty, data is bytes of 255, base64 is three zero
bytes; each sets `overflowed`, except data of no bytes. Up to seven bits are taken
from what is left of the byte that was begun, without an overflow: they are zero at
the end of the message, and anything after `MSG_Discard`. What is said of the bits in use is said of a message that has not
overflowed: `MSG_WriteData` writes the part that fits and then reports an
overflow, and after it `MSG_GetUsedBitCount` counts bytes that are of no entry.

**What the library's properties leave out, because it does not hold.** Version
names with different numbers of digits (`cod4x_100` sorts before `cod4x_99`,
`update_main.c:1155`); the Host field of a port that begins with 80
(`httpftp.c:362`); bytes above 127 or below 16 in a URL (`httpftp.c:299`);
`mp_invmod` of a negative number with an odd modulus, and a multiple of a
negative modulus in `mp_mod`, which is the modulus and not 0; object
identifiers that begin with 2 and a number from 47 on, which come back
differently; a truth value, a UTF-8 text and, in a set, a nested list, which are
read back in the last place of a list only; an empty message under random
padding; a file of no bytes, which has no digest and never verifies. `TextsFit`
names the writers that do not keep to their size: `XML_Escape` counts the bytes it
reads and not those it writes, so that it goes beyond its buffer when a text has
more than one character to be escaped (`qshared.c:1268-1305`, against its comment
on a safe margin), and is only checked where there is room for the one entity;
`Info_SetValueForKey` refuses a string of more than its size and takes one of
exactly its size, whose zero lies beyond (`qshared.c:870`); `COM_DefaultExtension`
of an empty path reads before the buffer (`qshared.c:1497-1503`) and is not
asked; `FS_BuildOSPathForThreadUni` copies the queried path into `MAX_QPATH`
characters (`update_main.c:635`), and of a path longer than `MAX_OSPATH` the test at
line 649 sees a -1, so that the path is used cut off and without a zero: it is
stated for the paths that fit, and the narrow function for all. The
comment at `sys_net.c:524` that an IPv6 address is always greater than an IPv4
one holds only for those that begin with the same bytes.

**Fairness.** `UpdateInstall`: WF of the next step: a running updater is one
thread that the system schedules, the user starts the game again (which
launches the updater), and the number of failures is bounded. `Console`: WF of
each thread's steps; the updater need not make another report, and nothing is
assumed of the user. `HttpTransfer`: WF of the caller, which loops until it gets
1 or -1 (`sec_update.c:119`), and of the server, which sends its answer and then
closes, as the request asks for ("Connection: close"). `FtpTransfer`: WF of the
caller and of the server, which answers or gives up (421, then it closes); no
fairness is assumed of a single kind of answer. The code has no timeout of its
own after the connection is made, so termination cannot be had without the
server's part; `PROJECT.json` lists this as a hazard.

Deadlock is checked in every run: a request that was freed and a process that
ended stutter explicitly (`Over`), everything else must be able to go on.

## 4. What is proved

The theorems hold for every value of the constants that the modules' `ASSUME`s
allow (and TLC evaluates on each run). Every safety property the runs check of a
module with state is a theorem. Where a theorem
needs more than those assumptions, it says so as its hypothesis, and TLC finds
the property violated without it.

### `UpdateInstall`: any number of files and failures, any split of the files

`UpdateInstallProofs` first says what each kind of step may do to the disk 
(`ApplyEffect` and its like: which place of which file, and with which bytes);
most theorems then look at those effects and not at the steps.

| theorem | says | assumes that these do not fail | inductive invariant |
|---|---|---|---|
| `TypeCorrect` | `[]TypeOK` | | `Typed` |
| `OnlyVerifiedApplied` | `[]UnverifiedStaysStaged` | `fclose` | `SafeInv` |
| `VerifiedBeforeApplied` | `AllVerifiedFirst` | `fclose` | `SafeInv` |
| `UpToDateStays` | `InstalledForever` | reading a file | `PlanInv` |
| `AsksBeforeItWrites` | `ElevationRespected` | | `AskInv` |
| `AppliedWhenCopied` | `[]AppliedIsTrue` | `fclose`, copies | `PlaceInv` |
| `ACopySurvives` | `ApplyKeepsACopy` | `fclose`, copies | `PlaceInv` |
| `PromiseKept` | `KeepsPromise` (the refinement) | `fclose`, copies, reading | `RefInv` |

* `Typed` adds to `TypeOK` that `cur` is within the manifest in the steps that
  work on a file.
* `SafeInv`: that bytes which did not verify are only in `updates/` says nothing
  of the bytes in `updates/` themselves, from where the next step takes them.
  `Ready` says which files there are known to be signed: all before `cur` in
  the download loop, all from `cur` on in the apply loop. It fails with
  `fclose`, because the hash is taken of the bytes in memory
  (`sec_update.c:147`) and not of those in the file.
* `PlanInv`: no file that the run still has to replace is up to date. That needs
  that a file which is up to date is seen to be so: if it cannot be read it is
  fetched again, and moved away before the download takes its place.
* `AskInv`: what the parse loop found (`needElevation`) is what the apply loop
  acts on, with a restart in between.
* `PlaceInv`: what was replaced is in place. `FS_CopyFile`'s result is not looked
  at (`sec_update.c:489`), so a failing copy refutes it: `install_copy` is that
  counterexample.
* `RefInv` is `PlanInv` and `PlaceInv`: each step of the updater is a step of
  `UpdatePromise` or leaves the files that are up to date, the replaced ones and
  the result as they are.

### `Console`: any number of reports and of attempts to close

* `TypeCorrect`, and `TextsAreWhole` (`[]NoTornText`) from `TornInv`: mutual
  exclusion, and that a mailbox is half written only while the updater is between
  the two writes.
* `ExitIsFromGap` (`[]ExitOnlyFromGap`) from `ExitInv`, which follows the
  handshake of `EnableWindow`: once `quitOnClose` is cleared nobody sets it
  again, and a window thread about to exit does not answer. It assumes
  `WindowInTime`; a window that comes later than the three seconds `DisableExit`
  waits refutes it.
* `BarGrows` (`BarNeverBack`, the safety half of `BarFollows`) from `BarInv`:
  neither the mailbox nor the window thread's copy is ever behind the bar.
* `StatusIsMailbox` (`StatusLineIsLossless`), the refinement of `Mailbox` by the
  status line, from `StatusInv`: each text that was posted has been shown, is
  held by the window thread, or is in the box with its flag set.

### `HttpTransfer`: all answers, all segmentations, chains of redirects of any length

`HttpReadingProofs` shows what the functions that read an answer return on any
part of it: where its lines end, when the header is found, which chunks are
complete. They are recursive functions (`f[p] == ... f[q] ...`), and the facts
are proved by induction. The induction theorems of the library take an operator
as their parameter, which the provers cannot instantiate; `SetInduction` states
induction for the *set* of the numbers that have a property, derives it from
`WFMin`, and shows that such functions exist.

`HttpTransferProofs` proves from them that `HttpInv` is inductive: the socket and
the connection (`Sockets`, `Peers`); what a known length or header implies
(`Known`); of a chunked answer that a whole number of its chunks is taken
(`InChunks`); of another that reading stands at the end of a line or behind the
header (`InBody`); and what a result says (`Ended`). From it follow
`TypeCorrect`, `SocketIsReleased`, `CodeAnswered`, `ChunksOrdered` and
`FailuresReal` as they are checked, and `MessageIsFull` (`[]FullMessage`) on two
conditions:

* an answer with a length is, with its header, not larger than the limit
  (`MaxFinal`, 640 MB): for a larger one the code takes the header for the
  whole answer (`httpftp.c:634`);
* an answer with neither length nor chunks has no body: such an answer ends for
  the code with the segment that its header came with.

TLC refutes `FullMessage` without either. `HttpAssumption` also says that a
chunked answer has no empty chunk, which is not a restriction of the server: an
empty chunk is the end of the answer.

### `FtpTransfer`: any file, buffer, sequence of replies and set of failures

`SocketsAreReleased`, `TypeCorrect`, `CompleteIsWhole` (`[]FileIsWhole`),
`TransferPrepared` (`[]TransferIsPrepared`) and `OneAtATime`
(`[]OneCommandAtATime`). The stage is a number to which some replies add one, so
none of these can be shown stage by stage: that the right reply was read has to be
known from the connections. `FtpInv` says so. At each moment the two queues and the
two buffers hold at most one command, which belongs to the stage, or the one
answer to it, then perhaps the end of the transfer, then perhaps 421 (`Wire`);
the end is told once and after RETR (`Finality`); the replies are read to the
last before the switch (`Read`); and then each stage has what it relies on
(`Held`): size, buffer and data connection. `TypeOK` holds of the stage for the
same reason only.

### `MsgBuffer`: any buffer, any writes and reads

`FitsItsBuffer` (`[]MessageFits`), one lemma per writer and reader. The inductive
invariant `MsgInv` adds that while a message is written it is in one part, and
that once it is read `bit` is not beyond the bytes that were read: otherwise
`MSG_Discard`, which cuts the message off behind them, would leave `bit` beyond
its end. `InputsAssumption` says that an entry is a tuple of bytes, or one number of
which no more than 32 bits are written at once. `MSG_WriteBits` asks for four bytes
of room and does not look at the number of bits, so this is what its callers must
keep to.

`ReadBackAsWritten` (`[]ReadsWhatWasWritten`): for any buffer, any set of inputs and
any number of writes. That the last read gave what was written is not inductive: it
says nothing of the entries that are still to be read, nor of what the next write
does to those that are already there. `ReadInv` is `MsgInv` and:

* `LaidInv`: a message that is being written holds its log. There is a sequence of
  positions, from one to the next of which each entry lies with its bytes or bits;
  the bits that are left of the byte begun last (`Free`) are zero, and no entry has
  one of them. So the next write, which fills those bits and appends bytes, changes
  no entry (`EntryStays`), and where it begins later no entry is either
  (`EntryStaysApart`).
* `FoundInv`: a message that is being read holds its log in the bytes of its two
  parts and nothing behind it but blank bits, and has come to the position of the
  entry that is read next, or to the end; a discarded one is at its end. What a
  read finds there is shown by one more lemma per kind of reader (`NothingIsLeft`). One lemma
  per reader (`NumberReadBack` to `Base64ReadBack`, `BitsReadBack`) shows that it
  gives the entry at its position and comes to the next one, as `MoreLaid` shows
  for the writers.
* `PiecesInv`: only a log of bits is received in two parts, since the other readers
  do not go on into the second.
* `UsedInv`: in a log of bits the message ends in the byte that `bit` points into.
* `ResultInv`: what the property says of the last read.

`Shifted`, `OfBits` and `BitsWritten` are recursive functions; that they exist and
what they compute is shown with `SetInduction`, and from it that a number put
together from its bits has these bits, and that one with no more bits than were
written is the number that was written.

TLC checked `ReadInv` before it was proved. The attempt also showed that an earlier
form of the property, without `~msg.overflowed` in its third conjunct, does not
hold; the bounds of the run did not reach the case.

### What is only model-checked

* Everything under fairness: `EventuallyInstalled`, `CallsReturn`, `Terminates`,
  and the half of `BarFollows` that says that reports arrive.
* Everything in `library`: the definitions are recursive operators, which the
  proof system does not accept.
* That a hypothesis of a theorem is needed: a counterexample for each was found
  with TLC by adding the failure, or the answer, to the constants of the run.

## 5. What is not modelled

* Two updaters at the same time, other programs that hold or change files
  (`FS_FileExistsOSPath` is false for a file it may not open), manifests with a
  name twice, and names cut by fixed buffers.
* The Windows version check, the command line and console commands; printing.
* Allocation failures; what a block does to the state of a hash, and with it the
  text of the self-test; the random generators. In `UpdateInstall` `Verified` is
  the decision of `Sec_VerifyFile`; how it is made is in `Signatures`, not
  composed with it.
* `blake/`, of which only the header is included, and the parts of `tomcrypt/`
  without a caller in the updater: PSS and OAEP, `rsa_sign_hash`,
  `rsa_verify_hash`, `rsa_encrypt_key` and `rsa_decrypt_key`. The tables of
  hashes and generators that they need are never filled.
* The certificate functions of `sec_sign.c`, which return `qtrue` without doing
  anything.
* In `msg.c`: `MSG_Copy`, `MSG_SkipToString`, floating-point numbers, and the
  delta functions that are declared only. In `qshared.c`: vectors, angles,
  `va`, `COM_Parse` and the conversions of floating-point numbers. `sys_net.c`'s
  resolver, `select`, UDP and proxy code. None of these has a state the updater
  depends on.
* Buffers written beyond their end: `FTP_GetPassiveAddress` bounds 24 numbers by
  their size in bytes (`httpftp.c:814`); `fast_s_mp_mul_digs` copies a digit it
  has not computed (`bn_fast_s_mp_mul_digs.c:90`), which lies beyond the number.
* Sizes: answers above 640 MB (`httpftp.c:634`), SIZE outside 1 .. 1 GB, and a
  manifest larger than its buffer.
* A backup of a file under the save path: the code tests and renames a path in
  the game directory that does not exist (`sec_update.c:432`), so there is no
  such backup and the model has none.
* A window that appears after more than three seconds: with `WindowInTime =
  FALSE`, `DisableExit` does nothing and the window can end the process at any
  time; this is a hazard, and the constant is there to try it.
* Closing a socket twice: after a failed send the request still has the handle
  (`httpftp.c:219`) and closes it once more. Handles are not reused here.
* How an FTP download reaches the disk: a completed one has its data in
  `transfermsg`, while `Sec_DownloadFile` reads `recvmsg`, which is freed
  (`httpftp.c:1342`). The transfers and the update are separate models.

## 6. Plan

Done: the models of sections 2 and 3, and the theorems of section 4.

To model next: the table of sockets under both threads (`NET_Shutdown` runs on
the window thread at a close, `update_main.c:1440`), with reuse of handles, and
`HttpTransfer` composed with it; `UpdateInstall` with the version of `Paths`.

To prove next:

1. Facts about the library that need no recursive operator, in modules that can
   be separated from those that have one: the bounds of the copying functions of
   `Strings`, the comparisons of `Addresses`.
2. The round trip of base64 in `Encodings`, with the arithmetic of
   `SextetsMakeNumber` and `BytesOfNumber` in `MsgReadingProofs`.
