# FileZilla engine: TLA+ models, checks and proofs

This directory holds TLA+ models of the FileZilla client in `src/`: what they
model, which TLC runs check them, and what TLAPS proves about them. Paths
below are relative to `src/src/engine/` unless they say otherwise.

## 1. The system

FileZilla is a client for FTP, SFTP, HTTP and Storj. The interface
(`src/src/interface`) drives one or more **engines**. An engine runs one
command at a time for its user: connect, list, transfer, delete and so on.

```
 interface  --Execute/Cancel/SetAsyncRequestReply-->  CFileZillaEnginePrivate
     ^                                                   |   owns
     |  notifications (operation, request, listing)      v
     +---------------------------------------------  CControlSocket
                                                      stack of operations
        shared by all engines:                           |  commands, replies
        directory cache, path cache,                     v
        OpLockManager, capabilities,                 socket layers -- server
        failed logins                                    |
                                                     CTransferSocket (FTP data)
                                                         |
                                                     reader / writer + thread
```

All engines and sockets live in one event loop: a handler runs to its end
before the next starts. The concurrency is in what lies between two handlers,
in the calls of the interface from its own thread, in the worker threads of
readers and writers, and in the server, which answers when it likes or never.

### Inventory

| Part | State | Operations | What is hard |
|---|---|---|---|
| Engine (`engineprivate.cpp`) | current command, retry timer and count, failed logins, request counter | Execute, Cancel, SetAsyncRequestReply, their events, ResetOperation, ContinueConnect | calls of the interface race with events in the queue; retries after a delay |
| Control socket (`controlsocket.cpp`) | stack of operations, timer, current path, connection | SendNextCommand, ParseSubcommandResult, ResetOperation, SetWait, SendAsyncRequest, Cancel, DoClose | an operation ends in the middle of another; everything that waits must be timed |
| FTP control socket (`ftp/ftpcontrolsocket.cpp`) | pending replies, replies to skip, keep-alive timer, last type, restart flag | SendCommand, ParseResponse, ResetOperation, TransferEnd, OnTimer | replies carry no name; cancelled operations leave replies behind |
| FTP data connection (`ftp/transfersocket.cpp`, `ftp/rawtransfer.cpp`) | opState, end reason, activity block, postponed events, layers | Send, ParseResponse, OnConnect, OnAccept, OnReceive, OnSend, SetActive, TransferEnd | two connections report one result in any order; early data; TLS resumption |
| FTP operations (`ftp/*.cpp`) | opState and parameters of each | list, transfer, delete, rmd, mkd, rename, chmod, cwd, logon, raw command | what the server remembers between commands; resume of large files |
| Operation locks (`oplock_manager.cpp`) | vectors of sockets and locks | Lock, Unlock, Waiting, ObtainWaiting, Wakeup | indices that must survive erasure; lost wake-ups |
| Directory cache (`directorycache.cpp`) | listings with flags, LRU list, number of files | Store, Lookup, InvalidateFile, UpdateFile, RemoveFile, RemoveDir, Rename, InvalidateServer, Prune | it must know of changes whose replies nobody reads |
| Path cache (`pathcache.cpp`) | source and subdirectory to target | Store, Lookup, InvalidatePath, InvalidateServer | entries above and below a renamed directory |
| Readers (`reader.cpp`) | ring of buffers, position, handler | open, read, seek, set_handler, close; worker thread | read-ahead outside the mutex, joins |
| Writers (`writer.cpp`) | ring of buffers, finalize and handler flags | get_write_buffer, retire, finalize, preallocate, set_handler, close; worker thread | write-behind, failures, files that must not stay |
| Notifications, transfer status (`engineprivate.cpp`, `interface/statuslinectrl.cpp`) | list, flag, messages held back, atomic counter, polling timer | AddNotification, AddLogNotification, GetNextNotification, Update, Get, OnTimer | three threads, one flag; the client stops polling |
| Change of directory (`ftp/cwd.cpp`, `ftp/mkd.cpp`) | current path, path cache, directories to make | CWD, PWD, MKD, InvalidateCurrentWorkingDirs | another connection renames what one is in |
| HTTP, SFTP, Storj | request queue; dialogue with a helper process | requests, responses, input thread | kept-alive connections, events of a process that has ended |
| Options (`optionsbase.cpp`, `commonui/options.cpp`) | values, changed options, timer of the save | set, notify, save | an option changes while changes are handed out |
| Settings files (`commonui/xml_file.cpp`, `ipcmutex.cpp`, `xml_cert_store.cpp`) | file, backup, document in memory, lock between processes | Load, Modified, Save | processes killed and power lost between two steps |
| Recursive operations, command queue (`commonui/remote_recursive_operation.cpp`, `interface/commandqueue.cpp`) | directories to visit, commands, notifications not yet handled | start, ProcessDirectoryListing, ListingFailed, NextOperation, Cancel | listings do not say who asked; links, cycles, retries, reconnects |
| Updater, transfer queue (`commonui`, `interface`) | states, queues | check, start transfers | many engines, restarts |

`PROJECT.json` lists all parts, those not modelled with the reason, and under
`hazards` the places in the code that are hard to test.

## 2. Modules

| Module | Models | Kind |
|---|---|---|
| `ServerPath` | relations of `CServerPath` | operators |
| `OpLockManager`, `SharedProofs` | the lock manager | specification, proofs |
| `ReadStream` | what a reader promises | abstract specification |
| `FileReader`, `FileReaderProofs` | `file_reader` with its thread | implementation of `ReadStream`, proofs |
| `WriteStream` | what a writer promises | abstract specification |
| `FileWriter`, `FileWriterProofs` | `file_writer` with its thread | implementation of `WriteStream`, proofs |
| `Engine`, `EngineProofs` | engine and stack of operations | specification, proofs |
| `FtpControlSocket`, `FtpControlSocketProofs` | which reply belongs to which command | specification, proofs |
| `FtpTransfer`, `FtpTransferProofs` | a transfer over the data connection | specification, proofs |
| `FtpSession`, `FtpControlSocketProofs` | type, restart marker, resumption | specification, proofs |
| `DirectoryCache`, `SharedProofs` | the cache and the operations that change it, with a server | specification, proofs |
| `WorkingDir`, `WorkingDirProofs` | change of directory, creation, path cache, several connections and a server | composition, proofs |
| `Notifications`, `EngineProofs` | notifications and progress between three threads | composition, proofs |
| `Settings`, `SettingsProofs` | settings files, lock and options of several processes, with faults | composition, proofs |
| `RecursiveOperation` | the remote recursion, the command queue and an engine | composition |
| `MC...` | instances for TLC | |

The modules look at the system from different sides and leave open what
another one settles. `Engine` leaves the operations open: `Send`,
`ParseResponse` and `SubcommandResult` return any result the code allows.
`FtpControlSocket` keeps the same stack and adds the counting of replies.
`FtpTransfer` assumes that counting and details one operation, `FtpSession`
assumes that a transfer succeeds or fails and follows the state of the server
from one to the next. `FtpTransfer` assumes of readers and writers what
`ReadStream` and `WriteStream` say. `WorkingDir` assumes of the lock for
creating directories what `OpLockManager` shows, and `RecursiveOperation` of an
engine what `Engine` shows: each command is answered once, after its listing.

Definitions whose comment begins with *Variant* are not part of the model:
each is a definition with a plausible bug. `PROJECT.json` (`mutants`) says
which definition it replaces and which property must then fail.

### Handlers and steps

A handler of the event loop is one step where it is short. In `Engine`,
`FtpControlSocket` and `FtpTransfer` a handler may go on for long, because
`SendNextCommand` runs operations until one waits; there `todo` says what the
running handler has to do next, and no other handler starts before it is
`"nothing"` (`Idle`). In `FileReader` and `FileWriter` a step is what happens
between taking and giving up the mutex. Calls of the user of the engine are
steps of their own, which only append to the queue, as in the code.

## 3. What each module says

### OpLockManager
State: `socket_locks` is `socket_locks_`, `handles` the `OpLock` objects that
exist, `wakeups` the events on their way. Actions: `Lock`, `Unlock`,
`OnObtainLock`, `Destroy`, `Create`. Properties: locks of one server exclude
each other (`MutualExclusion`), no waiter is forgotten (`NoLostWakeup`), the
indices an `OpLock` keeps lead to its own unreleased lock (`HandlesValid`) and
always to the same one (`HandleStable`).

### FileReader, ReadStream
`ReadStream` delivers the bytes of a range in order, each once, then the end;
or an error. `FileReader` has the ring, the flags and the condition variable
of the code, and a user that reads, waits, seeks, moves to another handler
and closes at any moment. `ImplementsReadStream` is the refinement
(`INSTANCE ReadStream WITH start <- start_offset`); `WaitEnds` is about waiting
and about events that outlive the reader, `HoldingIntact` about the buffer in
the user's hands.

### FileWriter, WriteStream
The same for writing. `WriteStream` says that `finalize` reports success only
if everything handed over is in the file. `CleanEnd` is about what `close`
leaves on the disk after preallocation or an early failure. The return of
`preallocate` when the position in the file cannot be told (`writer.cpp:443`),
which changes nothing, is left out.

### Engine
`queue` has the events of `Execute`, `Cancel` and `SetAsyncRequestReply`,
`operations` the stack. Reply codes are sets of flags, as in
`src/include/commands.h`. `EveryCommandAnswered` is the promise to the
interface; `NoOrphans` says that command, operations and retry timer agree,
`ReplyGoesToAsker` that an answer of the user reaches the operation that asked. They hold for a client that waits until the
events of its last command have been handled (`PatientClient`); section 5 says
what happens otherwise.

### FtpControlSocket
`unanswered` is what only an observer knows: whose commands the server has
still to answer. `RightReply` says that a reply that is not skipped answers
the operation on top of the stack, `CountsAgree` that the counters are right.
`TimersRun` says that every wait is timed and an idle connection kept alive,
`OperationsEnd` that every operation ends.

### FtpTransfer
The events of both connections are in one queue. `verdict` records how the
last raw transfer ended and what had really happened (`VerdictIsTrue`).
`StaleEndIgnored` is why an event of an earlier transfer socket does no harm,
`ConsentFirst` is about `activity_block_` and reading, and `TransferEnds` about
postponed events and progress without the timeout. An error of the connection ends
the transfer whatever blocks it (`OnSocketError`). `SetActive` replays a postponed
read before the transfer command is written (`ftp/rawtransfer.cpp:121`, `:133`);
in `SendTransfer` both are one step, and the reply, which the order could only
concern, comes in a later one.

### FtpSession
The type and the restart marker of the server against `m_lastTypeBinary` and
`m_sentRestartOffset`; `ran` records what the server really did
(`TransfersAsMeant`, `ResumesWhereMeant`). `ResumeBugIsReal` is about what the
client concludes from a failed resume test.
Sizes are scaled: `TwoGB = 2` and `FourGB = 4` stand for 2^31 and 2^32, and
`Unsigned` is the cast of -1 to `uint64_t`. With `SizeUnknown = FALSE` the client
knows the real size of the remote file; with `TRUE` it may know none, or one from
a listing that is out of date.

### DirectoryCache
One server with directories in its root, and the cache as one record that
each function of `CDirectoryCache` maps to another. An operation marks
(`Before`), the server carries out (`Execute`), the operation corrects
(`After`), unless it was cancelled in between. `SureIsTrue` and
`AbsentIsAbsent` say what the cache may be trusted with when no reply is
outstanding; `BooksAgree` is about the LRU list, its limit and the count of
files, which each function raises and lowers by itself as in the code
(`directorycache.cpp:387`, `:434`). MKD relative to the parent updates the cache,
and a refused one ends there; MKD with the full path is an operation of its own
(`MkdFullPath`). The observer `mistaken` notes that a directory was renamed that the cache
takes for a file (section 5), after which the first two say nothing.

### WorkingDir
A tree of directories at the server, perhaps with a link in it, and several
connections that list, upload, make, rename and remove directories in it.
`at` is where a connection really is and `currentPath` where it believes to be;
`cache` is the path cache they share. Each state of `CFtpChangeDirOpData` and
`CFtpMkdirOpData` is a step between command and reply. `pending` holds the
events of `InvalidateCurrentWorkingDirs` under way, `invalidate` is
`m_invalidateCurrentPath`. MKD, and a change of directory on the way to an upload,
take the lock of their path and wait for an engine that holds it (`AwaitLock`,
`OnObtainLock`); a change of directory that has waited does not create the
directory any more (`ftp/cwd.cpp:80`). `BeliefsAreTrue`: beliefs and cache entries are what
the server would say. `ActsWhereMeant`: no command is carried out in another
directory than the user meant, although it names no directory. `MadeExists`: a
directory that the command Mkdir reports as made exists, unless the server has
said of a plain file that it exists (section 5); nothing is said about uploads.
The connection may be lost during any command. The observer `raced` notes the
races the code loses (section 5), after which nothing is claimed; the run stops
there (`CONSTRAINT Unraced`). `Scope` says for which commands of the user the
properties hold: what is changed, or whose parent is listed, is named by its own
path and not by one through the link. The proofs have it as hypothesis, and TLC
evaluates it for the commands of the run (`InScope`). What the code does outside
it is in section 5.

### Notifications
The event loop, the thread that calls `Update`, and the client, with steps
between operations on a mutex or an atomic variable. `ClientIsTold`: something
in the list means that the client has been called back and has not yet found
the list empty. That messages held back are delivered in order is not claimed, since raw commands
break it (section 5). `BytesCounted`: status and counter have every byte once, and the
status line does not show more. `DisplayCatchesUp`: what a stalled transfer has
transferred is shown in the end, however the polling stops and notifications
start again.

### Settings
One settings file with its backup, used in one of three ways (`mode`): options
(saved without loading, by a timer and at the end), sites (loaded and saved for
every change) and trusted certificates (kept in memory, loaded again when
modified). Every write to the disk can be cut off: by a full disk, by killing
the process, or by a power failure, after which unsynced content is any of the
contents in `after`; and the sync of a copy may fail (`CopiedUnsynced`,
`RestoredUnsynced`). `Modified` compares modification times, so that a save may
leave the file looking the same to others (`Touched`). `LoadTrustedCerts` may
save what it has loaded (`GoOn`). `NeverLost`: what was saved is found by the next `Load`,
which may repair the file and be interrupted in turn. `NoLostUpdate`: no process
undoes an entry of another. `NoLostChange`: an option that has been changed will
be handed out and saved. The observer `spoiled` notes the ways in which the code
does lose a file, `missed` that a process has overlooked a save (section 5). The
lock is taken to work; where its file cannot be opened or locked
(`ipcmutex.cpp:85`, `:100`) the code goes on without it, and nothing of this
section holds. Kiosk mode 2, in which `Save` clears `dirty_` and writes nothing
(`commonui/options.cpp:239`), is left out: there no change is meant to be saved.

### RecursiveOperation
A tree with links and with mounts, by which a directory shows another one or
itself as if it were a plain subdirectory; the recursion with
its roots and directories to visit; the list of commands with their origin; an
engine that runs the first of them; and notifications the interface has yet to
handle. The user starts operations from the file list, the tree or the search,
opens directories, stops and cancels; listings fail or are gone from the cache,
and the connection breaks. `ActsInReach`: DELE, RMD and CHMOD only reach
what was selected and what mounts in it lead to below the root of the recursion,
which is more than the selection (section 5); links in it are not followed.
`QueuedWhereMeant`: every download goes to the local
directory that mirrors its remote one, once. `CompleteWhenFinished`: an operation
that finished by itself has done all of what could be listed, behind mounts, too:
it is about downloads and deletions, not about permissions, and does not notice a
file that is removed twice. `RecursionEnds`: every operation ends. The observer
`crossed` notes one crossing of replies (section 5), after which the first three
say nothing. In the tree of the run the user looks at `w` with the directories `d`
and `x` and a link `k` to `o`, and selects `{d}`, `{d, x}` or `{k}`; `d` holds
itself, `x` and a link to a file of `o`, and `o` holds `d`.

## 4. Runs

| Run | Configuration | Distinct states | Shows |
|---|---|---|---|
| `oplock` | 3 sockets, a directory and a subdirectory, 3 OpLocks | 437,873 | exclusion, wake-ups, indices |
| `file_reader` | ring of 2, 4 blocks, 2 handlers, 1 seek | 81,047 | refinement, waiting |
| `file_writer` | ring of 2, 4 blocks, 2 handlers | 184,014 | refinement, waiting, what stays on disk |
| `engine` | 2 commands, 1 cancel, 2 requests, 2 retries | 398,725 | commands, operations and answers agree, every command is answered |
| `ftp_replies` | 10 operations, depth 3, 8 rounds | 80,292 | replies reach their operation |
| `ftp_transfer` | 3 transfer sockets, early connections, 3 events | 1,000,866 | verdicts, stale events, consent, transfers end |
| `ftp_session` | 2 operations, sizes to 5, all servers | 5,361,050 | type, offset and resume test |
| `directory_cache` | 2 names, 5 commands, 2 listings | 1,519,295 | what the cache may be trusted with |
| `working_dir` | 2 connections, 2 names and a link, depth 2, 3 commands, 1 fault | 2,198,734 | beliefs, cache, where commands act |
| `notifications` | 2 transfers, 3 bytes, 2 messages | 105,704 | calls, bytes, the status line |
| `settings` | 2 processes, 2 changes and 2 faults or 3 and none | 1,818,381 | no file, entry or change is lost |
| `recursive_operation` | 11 entries, 2 operations, 1 listing of the user, 1 fault | 358,268 | reach, mirror, completeness, ends |

The type invariant of a module is a conjunct of one of its invariants; in the
modules of section 6 it is proved as part of the inductive invariant.

Why the bounds are enough. Locks conflict in pairs, and a third socket is what
makes an entry in the middle be released while a later one is in use. A ring
of two is the smallest that is neither empty nor full, and four blocks fill it
twice. Two commands let the events of the first meet the second. A stack of three has an operation with one above and one below. Two
transfers let one leave something behind for the next. In the cache, two names
and three directories are more than `MaxLru`, and five commands are enough to
fill it, change it on the server and look again; one of the trees has no
directory, so that one can be made in place of a file. Two connections are a victim
and a culprit, and three commands let one go somewhere, the other take the
directory away and the first act. Two faults interrupt a save and then its
repair, and a third change is one that another process makes between two of the
first; `CONSTRAINT Small` keeps the two apart. In `FtpTransfer`, `CONSTRAINT
Small` leaves room for a stale event, one of the present connection and one of the
user in the queue. Two recursive operations let the listing of one that was stopped meet
the other, and one listing of the user crosses with theirs. `CHECK_DEADLOCK
FALSE` is in the configurations whose clients stop when a bound is reached.

### Fairness
Weak fairness is assumed of the event loop's handlers, of worker threads and of
timers that have been started: the loop and the threads run until they are
stopped, and a timer fires. `FtpTransfer` also assumes that the server answers
and connects and that the user answers; the property is about the client not
stalling by itself, and supposes a server that does not connect before the
transfer command (see below). `Notifications` assumes that the client handles
its events and its timer fires; nothing makes a transfer move. In
`RecursiveOperation` the engine answers and the interface handles what it is
told, which are never both possible at once. `Engine`
assumes that the user answers requests and that a lock is obtained, which is
what `OpLockManager!NoLostWakeup` is for; the server may be silent for ever.
The timers need `OPTION_TIMEOUT` not to be zero.

## 5. Findings

TLC finds the following with other constants or properties of the modules. None
has a configuration of its own: the configuration of the module's run, with the
constants and the property of the table, shows the counterexample.

| Module, property | Constants | What happens |
|---|---|---|
| `FtpControlSocket`, `WriteErrorCloses` | `MaxOperations = 4`, `MaxRounds = 3` | the `int` that `CRealControlSocket::Send` returns is taken for a `bool` (`ftp/ftpcontrolsocket.cpp:309`); a command that cannot be written counts as sent and its operation waits for the timeout, after `controlsocket.cpp:734` has logged "Disconnected from server" |
| `FtpSession`, `ResumeBugIsReal` | `SizeUnknown = TRUE`, `Bugs <- NoBugs`, 1 command | an unknown size, -1, is compared as an unsigned number (`ftp/filetransfer.cpp:196`); the resume test starts at byte -2, fails, and a sound server "does not support resume of files > 2GB" (`:446`) |
| `FtpSession`, `ResumeBugIsReal` | `SizeUnknown = TRUE`, `Bugs <- NoBugs`, known sizes only (`RemoteSizes == 0..MaxSize`) | the size in the directory cache is taken for that of the file (`ftp/filetransfer.cpp:327`); if the file has grown or shrunk since, the resume test gets more or less than one byte and a sound server is recorded as one that cannot resume |
| `DirectoryCache`, `SureIsTrue` | `MkdFullPath = TRUE` | MKD with the full path succeeds (`ftp/mkd.cpp:164`) and the listing of the parent in the cache stays as it is, not marked, against `directorycache.h:11` |
| `Engine`, `NoOrphans` | `PatientClient = FALSE`, 3 commands | a late cancel event ends a command whose command event is in the queue; the next command is started by that event and then, by its own, answered as "already connected" while its connection attempt goes on |
| `Engine`, `CancelHitsItsCommand` | `PatientClient = FALSE` | `Cancel` hits the next command: its event names none |
| `FtpControlSocket`, `DisconnectedIsClosed` | `MaxOperations = 4`, `MaxRounds = 3` | `ftp/ftpcontrolsocket.cpp:445` says "Closing control connection to start over"; the operations end as disconnected, the connection stays open |
| `FtpTransfer`, `NoStaleTransferEnd` | 3 sockets | the second listing (`ftp/list.cpp:296`) makes its transfer socket with the event of the first in the queue, against the comment at `ftp/ftpcontrolsocket.cpp:420`; harmless by `StaleEndIgnored` |
| `FtpSession`, `EndedIsComplete` | `SizeUnknown = TRUE` | a local file that has vanished and a remote one of unknown size have the same size, 2^64 - 1 (`ftp/filetransfer.cpp:200`) |
| `FtpSession`, `AppendIsPlain` | 1 operation | REST is sent before APPE, too (`ftp/rawtransfer.cpp:202`), against `servercapabilities.h:35` |
| `DirectoryCache`, `SureIsTrue` | `Abandon = {"rmd"}` | RMD, cancelled before its reply, of a directory whose parent is not in the cache (`directorycache.cpp:302`) leaves a sure listing of it |
| `DirectoryCache`, `SureIsTrue` | `Abandon = {"mkd"}` | MKD, cancelled before its reply, leaves the listing of the parent unmarked: `UpdateFile` is only called after the reply (`ftp/mkd.cpp:141`) |
| `DirectoryCache`, `AbsentIsAbsent` | `Abandon = {"rename"}` | a rename, cancelled before its reply, of a name that the target directory's listing does not have: marking it before RNTO adds no entry |
| `DirectoryCache`, `SureIsTrue` without `~mistaken` | none | `UpdateFile` keeps the type of an entry that is there (`directorycache.cpp:349`). After a cancelled DELE, MKD of the same name leaves a file in the listing; a rename then takes the branch for files (`:559`) and the listing of the directory stays, sure, under its old name |
| `DirectoryCache`, `SureIsTrue` | two connections | a listing read before another connection deletes a file is stored after, as sure (`ftp/list.cpp:266`) |
| `WorkingDir`, `BeliefsAreTrue`, `ActsWhereMeant` | `Requests` with `Ask("list", <<"l">>, Up)` and `Move(<< >>, "a", << >>, "b")` | the path cache keeps that `l/..` is the root after the target of the link has been renamed: `InvalidatePath` compares paths, and neither source nor target of the entry lies in the directory that moved (`pathcache.cpp:82`) |
| `WorkingDir`, `BeliefsAreTrue`, `ActsWhereMeant` | `Requests` with listings and `Move(<<"l">>, "b", << >>, "b")` | a rename by a path through a link tells the path cache and the other engines of `l/b`, not of `a/b`: `ftp/rename.cpp:32` takes the path of the command, where `ftp/rmd.cpp:74` goes on with the one the server has named |
| `WorkingDir`, `BeliefsAreTrue`, `ActsWhereMeant` | `Requests` with `Ask("dele", << >>, "l")` | DELE of a link to a directory leaves the path cache alone (`ftp/delete.cpp:20`) |
| `WorkingDir`, `MadeExists` without `wire[e].reply # "file"` in `ResetOperation` | none | a refusal of MKD that says "file exists" counts as success unless the directory cache knows the file (`ftp/mkd.cpp:108`, `:131`): of a plain file that nobody has listed, the user is told that the directory was created |
| `Settings`, `NoLostUpdate` without `~missed[p]` | none | `Modified` compares modification times (`commonui/xml_file.cpp:143`): certificates that another process saved within the same tick are not loaded, and the next save drops them |
| `RecursiveOperation`, `ActsInReach` with `path \in selected \/ \E r \in selected : IsSubdirOf(path, r)` for `IsReached` | none | a deletion or chmod of `d` follows a directory in `d` that is really `x` (a mount, or a link the server shows as a directory) and deletes in `x`, which is not selected: `BelowRecursionRoot` compares with the root, the directory the file list shows (`commonui/remote_recursive_operation.cpp:119`, `interface/RemoteListView.cpp:1502`), not with the selection |
| `DirectoryCache`, `AbsentIsAbsent` | `Fold <- OnlyInCase`, `CaseSensitive = TRUE` | `RemoveFile` compares directories without regard to case (`directorycache.cpp:411`): a file that still exists is removed from the listing of a directory of similar name |

The observers of these modules mark where the code does not keep a property:

* `WorkingDir`, `raced`. A CWD is under way while another engine removes or
  renames the directory: the event of `InvalidateCurrentWorkingDirs` finds
  `currentPath_` empty and is dropped, and the reply to CWD or PWD sets the old
  path, in the path cache, too (`ftp/cwd.cpp:145`, `:161`). An operation that
  waits also goes on from a directory it has been told to forget, because
  `m_invalidateCurrentPath` is looked at only when it ends. So does a rename
  between RNFR and RNTO: its relative name is now that of an entry in a directory
  that has moved, and the path cache and the other engines are told of the old one
  (`ftp/rename.cpp:32`). This was found while proving `BeliefsAreTrue`; the
  observer had only marked changes of directory before.
* `DirectoryCache`, `mistaken`. The third row about it in the table: the entry of
  a directory is that of a file that was deleted before, and `Rename` believes it.
  Found while proving `SureIsTrue`.
* `Settings`, `spoiled`. `copy_file` does not notice a short write
  (`commonui/xml_file.cpp:41`), and does not look at the result of `fsync`
  (`:46`). An options save after another process was killed
  in the middle of its save copies the torn file over the only good backup
  (`:267`). Content a killed process has not synced is copied into the backup,
  and then power fails.
* `Settings`, `missed`. The row about `NoLostUpdate` in the table.
* `RecursiveOperation`, `crossed`. The answer "link is not a directory" to a
  listing the *user* asked for is passed on to the recursion
  (`interface/commandqueue.cpp:186`,
  `interface/remote_recursive_operation.cpp:39`), which takes it for the answer
  about its own next directory. The listing of that directory, when it comes, is
  taken for that of the one after it, and a deletion or chmod can act in a directory
  that was not selected.

Observations without a run:

* Engine: a disconnect command is answered `FZ_REPLY_ERROR |
  FZ_REPLY_DISCONNECTED`; `ObtainWaiting` compares locks of all servers while
  `Lock` compares those of one; `preallocate` that cannot restore the position
  leaves its space behind.
* Transfers: with a server that connects early, a failed `accept`, or an
  unanswered question about TLS resumption, keeps the operation until its
  timeout; a local file of exactly 2^32 bytes is tested for the 4 GB bug but
  recorded under the 2 GB bug.
* Directories: the comment at `ftp/mkd.cpp:15` says "If either part fails, try MKD
  with the full path directly". A refused MKD of a subdirectory sets `mkd_tryfull`,
  but breaks out of the `switch` (`:121`) to the return of `FZ_REPLY_INTERNALERROR`
  (`:176`), which ends all operations on the stack (`controlsocket.cpp:152`), an
  upload included: the full path is never tried, and neither is the upload with
  its full path. `ftp/mkd.cpp:87` and `:157` set a path the server has not confirmed; a raw
  command invalidates no other connection's directory; `ftp/rmd.cpp:61` looks up
  what `:33` has just removed, as does `sftp/rename.cpp:35`.
* Notifications: a raw command clears `queue_logs_` and leaves `queued_logs_` as
  it is (`engineprivate.cpp:393`). Messages held back before, of keep-alive commands
  for instance, are overtaken by those of the raw command; if it succeeds they are
  dropped, if it fails they come last. `sftp/sftpcontrolsocket.cpp:119` calls `Get` itself and takes
  the change away from the client that polls (`FileZillaEngine.h:47` says that it
  is the client who asks); `madeProgress` is only copied when `Update` sends a
  notification (`engineprivate.cpp:912`).
* Settings: a first save that is cut off leaves a torn file and no backup, which
  `Load` refuses from then on; a save that fails leaves `dirty_` false
  (`commonui/options.cpp:239`); `ipcmutex.cpp:47` counts instances down in the
  constructor.
* Recursion: a recursive chmod that meets a link to a file queues a download,
  since `LinkIsNotDir` does not look at the mode; `CCommandQueue::Cancel` drops
  the commands when the engine is done and its reply still in the list, so that
  the reply is taken for that of the next command (`CState::Connect` cancels and
  connects in one handler); a connection that ends between two commands gives no
  reply with the flag for disconnection, and no automatic reconnect; a link
  selected in the results of a search is neither downloaded nor deleted.

## 6. Proofs

TLAPS checks the theorems for every value of the constants (every number of
sockets, operations, locks, buffers, blocks, processes, faults). They rest on the
assumptions on the constants that the modules name (`ASSUME ...Assumption`) and,
for `FtpSession`, `Engine`, `DirectoryCache` and `WorkingDir`, on the hypothesis
that is part of each theorem. The inductive invariant of a module is called `IInv`
(`EInv` for `Engine`, `CInv` for `DirectoryCache`, `SInv` for `FtpSession`, `Inv`
for `WorkingDir`). TLC has checked it, too, on the instance of the module's run
(`Settings`, `DirectoryCache`, `WorkingDir`) or on one with a larger ring (readers and writers: three buffers).
`EngineProofs`, `SharedProofs` and `FtpControlSocketProofs` each have the proofs
of two specifications that share nothing; one of the two has `EngineSpec`,
`CacheSpec` or `SessionSpec` where others have `Spec`.

| Property of a run | Theorem | Module |
|---|---|---|
| `HandlesValid`, `MutualExclusion`, `NoLostWakeup`, `HandleStable` | `HandlesAreValid`, `LocksExclude`, `NoWakeupIsLost`, `HandlesAreStable` | `SharedProofs` |
| `SureIsTrue`, `AbsentIsAbsent` | `SureListingsAreTrue`, `AbsentFilesAreAbsent` | `SharedProofs` |
| `NoOrphans`, `ReplyGoesToAsker` | `CommandsAreNotOrphaned`, `AnswersReachTheirAsker` | `EngineProofs` |
| `CountsAgree`, `RightReply`, `TimersRun` | `CountersAgree`, `RepliesReachTheirOperation`, `TimersAreRunning` | `FtpControlSocketProofs` |
| `ClientIsTold`, `BytesCounted` | `ClientIsAlwaysTold`, `EveryByteCounts` | `EngineProofs` |
| `VerdictIsTrue`, `StaleEndIgnored`, `ConsentFirst` | `VerdictIsAlwaysTrue`, `StaleEndAlwaysIgnored`, `ConsentAlwaysFirst` | `FtpTransferProofs` |
| `TransfersAsMeant`, `ResumesWhereMeant`, `ResumeBugIsReal` | `TransfersRunAsMeant`, `DownloadsResumeWhereMeant`, `BugsAreReal` | `FtpControlSocketProofs` |
| `BeliefsAreTrue`, `ActsWhereMeant`, `MadeExists` | `BeliefsAreAlwaysTrue`, `CommandsActWhereMeant`, `MadeAlwaysExists` | `WorkingDirProofs` |
| `HoldingIntact`, `ImplementsReadStream` | `HeldBufferIsIntact`, `ReaderImplementsStream` | `FileReaderProofs` |
| `CleanEnd`, `ImplementsWriteStream` | `NothingIsLeftBehind`, `WriterImplementsStream` | `FileWriterProofs` |
| `NeverLost`, `NoLostUpdate`, `NoLostChange` | `SavedIsNeverLost`, `NobodyIsOverwritten`, `ChangesAreSaved` | `SettingsProofs` |

**`SharedProofs`, the lock manager**: `TypeCorrectness`, `HandlesAreValid`, `LocksExclude`,
`NoWakeupIsLost`, `HandlesAreStable`. `IInv` is `TypeOK /\ HandlesValid /\
OneEntryPerSocket /\ NoLocksWithoutSocket`. `OneEntryPerSocket` is needed because
`Lock` compares sockets where `ObtainWaiting` compares indices: a socket with two
entries could block itself or overlook itself. `NoLocksWithoutSocket` is needed
because `Unlock` cuts off entries without a socket: an `OpLock` that led into one
would lose its lock. There is a lemma for each thing an action does to the vectors
(append a lock, drop entries at the end, mark one released) and one per action
and invariant. `MutualExclusion` is then preserved by each action on top of
`IInv`, by the symmetry of `Overlap`: `Lock` tests the new lock against those
that are held, `ObtainWaiting` a waiting one. `NoLostWakeup` needs one thing
more: a lock that waits belongs to an `OpLock` of its socket (`WaitingIsOwned`).
Otherwise a socket created at the address of one that is gone could inherit a
lock whose wake-up went with the old one. `HandleStable` is an action property: no step moves the entry an
`OpLock` leads to, because only released entries at the end are dropped.

**`FtpControlSocketProofs`, replies and timers**: `TypeCorrectness`, `CountersAgree`,
`RepliesReachTheirOperation`, `TimersAreRunning`. `RightReply` is not inductive:
whether the next reply finds its operation depends on what was pending when that
operation was pushed. `IInv` adds that at most one reply is pending and is skipped
or not (`OneReply`), that the server owes exactly what is pending (`Owed`), that
without an operation, or when one may send, what is pending will be skipped
(`Settled`), and that nothing is sent before the connection stands
(`BeforeConnect`). `SendCommand` keeps this because `CanSendNextCommand` lets
nothing be sent while replies are to be skipped, `ResetOperation` because it skips
all that is pending. `TimersRun` speaks of the moments between two handlers;
`Watched` also says what holds in the middle of one: an operation with a reply
pending is timed unless the handler is about to send for it, which starts the
timer. `KeptAlive` is the other half, the idle connection.

**`EngineProofs`, notifications**: `ClientIsAlwaysTold`, `EveryByteCounts`.
`ClientIsTold` is inductive: the flag being cleared and the calls under way or
being handled are one number, and whatever a raw command does to the messages held
back does not touch it. `BytesCounted` is not: a status may wait in the
list or in the hands of `Update` while the transfer goes on or the next one
begins. `IInv` adds that each of these belongs to the present transfer and does
not exceed what was sent, or to an earlier one (`AllHonest`). The statement is
about `Spec`, the safety part of `FairSpec`, which the run uses.

**`EngineProofs`, the engine**: `CommandsAreNotOrphaned`, `AnswersReachTheirAsker`,
for any number of commands, cancels, requests, retries and any depth of the stack,
if the client is patient.
`NoOrphans` speaks of the moments between two handlers, and whether a command is
still alive there depends on what is in the queue. `EInv` adds the order of the
queue: a command event is the first in it, and nothing has been done for its
command (`Order`). Then all operations are those of the current command (`Works`), only the one on top
waits for an answer, to the last request (`Asks`), and in the middle of a handler,
too, a command has an event, an operation or a retry timer (`Remembered`). A
handler of several steps is proved step by step, the stack growing and shrinking
under `todo`.

**`FtpTransferProofs`**: `VerdictIsAlwaysTrue`, `StaleEndAlwaysIgnored`,
`ConsentAlwaysFirst` (about reading), for any number of transfer sockets. That the operation
reports what happened depends on which socket an event in the queue is of. `Queue`
says what can be in it: events of a connection are of the one there is
(`OfTheLink`), reports of reader and writer were asked for (`AskedFor`), and while
the end of an earlier socket is in it, the socket of today has neither connected
nor ended, and its events come later (`StaleFirst`). `Phases` says which state of
the operation has a socket and has sent its command, `Reports` that what the
operation has noted is what happened to its own socket, `BlockCounts` is about
`activity_block_`, and `Carries` says that nothing flows over a connection that is
not up. The queue is filtered when a socket goes away (`Without`, which drops
events by position rather than with a recursive operator); that an event left in
it has kept its place among the others is shown with a least counterexample
(`Least`).

**`FtpControlSocketProofs`, the session**: `TransfersRunAsMeant`, `DownloadsResumeWhereMeant`,
`BugsAreReal`, for any server with any of the resume bugs, any number of commands
and any sizes, if the remote size is known (`SizeUnknown = FALSE`; with unknown
sizes they are false, section 5). What the client believes of the server is not
true at every moment: a TYPE or REST may be under way, its reply may be skipped
after a cancel. `TypeKnown` and `MarkerKnown` say that a type the client believes in is
the server's and stays it whatever is under way, and that a marker is set or on
its way only if the client has noted it; `InStep` says which command can be under
way in which state of the operation. `Learned` says that what the client has
concluded from resume tests is true, and `JobOK` what the operation has decided
about the transfer.

**`FileReaderProofs`**: `HeldBufferIsIntact`, `ReaderImplementsStream` and
`NoEventOutlivesReader` (a part of `WaitEnds`). For the refinement `IInv` must say
what is in every buffer of the ring: `Consecutive` says that there are positions
`pos[0] <= pos[1] <= ...` in the file such that buffer `i` after `ready_pos` has
the blocks from `pos[i]` to `pos[i + 1]`, the last position is where the worker
reads next and the first where the user is. `Filling` says that the buffer the
worker fills outside the mutex is the one after the last, `Held` that the one the
user works with is the first; they differ because a ring that is full is not
filled. Each step is then a step of `ReadStream` or leaves its state alone.
`Known` and `EventsForHandler` relate what the user has been told, the thread and
the events; the latter is why nothing is left in the event loop after `close`.

**`FileWriterProofs`**: `NothingIsLeftBehind`, `WriterImplementsStream` and
`NoEventOutlivesWriter`, in the same way. `Queued` is the counterpart of
`Consecutive`: the file and the buffers together are what was handed over. It is
given up after an error and once `close` has stopped the worker, and `Stored`,
the file is a beginning of what was handed over, remains. `Target` keeps book of
preallocated space: only `preallocate` makes the file larger, and `close` undoes
it or says that it cannot.

**`SettingsProofs`**: `SavedIsNeverLost`, `NobodyIsOverwritten`,
`ChangesAreSaved`, for any number of processes, entries, kills, full disks and
power failures, as long as nothing is `spoiled` (`NeverLost`, `NoLostUpdate`) and
for processes that have not `missed` a save (`NoLostUpdate`). `NeverLost` is not inductive: that every pair of contents has a
good one does not say which. `Kept` says for each step of a load or save which it
is: while a backup is made all files a power failure may leave are good
(`FileGood`), from the moment the file is opened for writing until it is synced
or put back all backups are (`BackupGood`), and at any other time the file in
place is good or all backups are. `Disk` says that what a process leaves when it
is killed is one of the contents a power failure may leave, too. `Exclusive` is
the lock between the processes. `NoLostUpdate` is a conjunct of `Kept`: a process
has what was saved because it has just loaded it, or because the file is still
the one it knows, or looks like it and the process has `missed` a save. For `NoLostChange` the invariant `Options` follows an option
through announcement, document, timer and save; it needs that documents found on
the disk only have entries that were written once (`Entries`).

**`SharedProofs`, the directory cache**: `CacheInvariance`, `SureListingsAreTrue`,
`AbsentFilesAreAbsent`, for any names, trees, limits of the cache and number of
commands. The hypothesis `Scope` leaves out what section 5 shows to be false: more
than one connection, names that differ only in case, MKD with a full path that
succeeds, and cancelled commands that change directories. Cancelled deletions,
uploads, chmods, listings and raw commands are in it. The properties speak of the
moments when no reply is outstanding; `CInv` says what the cache has wrong in
between. `Honest`: all listings are right but that of a directory that is gone
(`Gone`), and all entries but the one the reply will correct (`Open`). `Under`:
the entries a command changes have been marked before it was sent and stay
marked, so that it does no harm if its reply is never read. There is a lemma for
each function of the cache that says which entries it keeps, marks and removes
(`Keeps`, `Marks`, `Lacks`), one for each operation on what its reply corrects
(`AfterPlain`) and one for each change the server makes. Which listings are in the
cache does not matter, so that nothing is needed about its limit.

**`WorkingDirProofs`**: `DirInvariance`, `BeliefsAreAlwaysTrue`,
`CommandsActWhereMeant`, `MadeAlwaysExists`, for any number of engines, any names,
depth and tree of directories, any number of commands in `Scope`, of cancels and of
lost connections. Whether a command acts where it is meant depends on what the
operations below it have done, on what other engines have under way and on every
entry of the path cache. `Inv` is `Types`, `Control` for every engine, and `Truth`
until there is a race. `Control` says what a stack of operations looks like, whose
turn it is and which command each state of an operation has sent. `Truth` has
three parts. `Local` follows an operation: in each state of `CFtpChangeDirOpData`
and `CFtpMkdirOpData` where the connection is, before and after the reply
(`CwdWhere`, `MkdWhere`), that an operation that has gone to its directory is in it
(`UserWhere`), and that what is believed is true or about to be forgotten
(`Belief`). While a change of directory waits for a lock, another engine may destroy
the directory it has found in the path cache (`Waited`): it learns so from the
reply, and creates nothing. `CacheTrue` says that each entry leads where the server would go, and
that an entry for a parent does not start from a link. The third part is about
several engines: no connection changes its directory while another one destroys
one (`Apart`, which is what `raced` leaves), and before an RMD or RNTO is carried
out nothing in the path cache is about its directory (`Spared`) and nobody who
believes to be in it or below has not been told (`Announced`). A successful RMD or
RNTO is the hard step: every path that is still believed or cached must lead to
the same place in the tree before and after, which `ReachStays` shows for what is
not covered by the directory that goes, and `RelocatedIs` for what moves with it.

Facts used more than once are lemmas, with a comment each. The proofs have also
found mistakes: in the models, the type of `request` in `FileReader` left out
the value it has before the first seek; in the code, the directory that is taken
for a file (section 5, `mistaken`), for which the run had had no tree to begin
with, the rename that goes on from a directory it should forget (`raced`), and the
two rows about the link in section 5, for which the run had had no commands.

Left to TLC:

* liveness under fairness, which TLAPS cannot reason about: `WaitEnds` apart from
  its last part, `OperationsEnd`, `EveryCommandAnswered`, `TransferEnds`,
  `DisplayCatchesUp`, `RecursionEnds`;
* `BooksAgree` of `DirectoryCache`: a sum over a set of listings, which would need
  induction over data, beyond the installed provers;
* `ActsInReach`, `QueuedWhereMeant` and `CompleteWhenFinished` of
  `RecursiveOperation`, which hold of the trees of the run and are about what a
  loop over the entries of a listing (`SelectSeq`, `FlattenSeq`) has collected:
  induction over data again.

## 7. Plan

1. `Listing`: the lock of a listing, its second look at the cache, outdated
   listings; composes `OpLockManager` and `DirectoryCache`.
2. `FtpLogon`: the sequence of logon commands and what a failed one leaves.
3. `Http` (kept-alive connections, redirects), `Sftp` (input thread and process).
4. `Updater`, the transfer queue of the interface, the local recursion.

## 8. Not modelled

Parsing and formatting of text (paths, listings, URLs, XML), which has tests of
its own; the widgets; encryption, TLS and SSH themselves; third-party code
(`putty`, `pugixml`); time other than the firing of timers. The log is left out
except where an operation ends because of it and for the messages an engine
holds back. `PROJECT.json` names the parts that are still to come; the thread of
`activity_logger.cpp`, two counters and a flag under one mutex, is too
plain for a model of its own.
