# nocc in TLA+

nocc compiles C++ on other machines: `nocc`, a small wrapper, passes a compiler's
command line to `nocc-daemon` on the same machine; the daemon finds the
dependencies of the .cpp file, chooses one of its remotes, uploads what that
`nocc-server` does not have yet, and writes the .o that comes back.  These modules
specify the parts in which goroutines, streams and failures meet, and the algorithms
on which the result of a compilation depends.  TLC checks them on small instances (the
`MC*` modules and the `.cfg` files); TLAPS proves some of the invariants for all values
of the constants (the `*Proofs` modules).  `PROJECT.json` maps each definition to the
lines it stands for and lists the hazards of the code with the properties aimed at them.

Paths are relative to `src/`; files named without one are in
`src/internal/server` or `src/internal/client`.

## 1. The system

### Components, their state and what they do

| component | state | operations |
|---|---|---|
| sessions and uploads (server: `nocc-server.go`, `client.go`, `session.go`, `files-stream-server.go`) | per client: `files` (state, sha256 of each file), `sessions`; per session: `files`, `compilationStarted`; the files in the working directory | `StartCompilationSession`, `UploadFileStream`, launch of ready sessions, `CloseSession` |
| src and obj cache (server: `file-cache.go`, `src-cache.go`, `obj-cache.go`) | table by sha256, doubly linked LRU list, files on disk, total size | lookup, hard link from it, save, purge to a limit, `DropAll` |
| compilation and delivery (server: `cxx-launcher.go`, `nocc-server.go`, `session.go`) | throttle, `chanReadySessions`, streams of the client, .o files | `LaunchCxxWhenPossible`, `PushToClientReadyChannel`, `RecvCompiledObjStream` |
| clients storage and cron (server: `clients-storage.go`, `cron.go`) | table of clients, times | connect (deletes a namesake), delete, delete inactive ones, stop all |
| precompiled headers (server and daemon: `pch-compilation.go`, `own-pch-files.go`, `pch-generation.go`) | compiled pchs by hash, directories | compile once, others wait; link into a working directory |
| capability caches (server: `cxx-capability.go`, `system-headers.go`) | result of a probe by compiler, header by path | probe and remember |
| attempts on a remote (daemon: `invocation.go`, `compile-remotely.go`, `remote-connection.go`, `files-uploading.go`, `files-receiving.go`) | per attempt: two WaitGroups, `waitUploads`, `doneRecv`, `err`; per remote: `chanToUpload`, the two streams, `isUnavailable` | start a session, queue uploads, wait, receive .o files, recreate streams, `ForceInterrupt` |
| routing, retries, reconnects (daemon: `daemon.go`, `daemon-sock.go`, `compile-locally.go`) | remotes, active invocations, connections of `nocc` processes | choose a remote by hash, retry, reconnect, compile locally, quit |
| includes (daemon: `includes-collector.go`, `own-includes-parser.go`, `includes-cache.go`, `include-dirs.go`) | resolved includes, size/sha256/nested includes of headers | collect dependencies recursively |
| command line, dep files (daemon: `invocation.go`, `dep-cmd-flags.go`, `dep-files.go`, `cxx-target.go`) | none shared | parse; write a .d file |
| discovery (`internal/discovery`) | a cache file | browse, merge with the static list, cache |
| tools (`manage-servers.go`, `cmd/`, flags, loggers, statsd) | none that goroutines share | start-up, administration, statistics |

### How they interact

- The daemon opens one connection, one upload stream and one stream of .o files per
  remote.  Its own attempts are goroutines; they share the stream goroutines of the
  remote through `chanToUpload` and `activeInvocations`.
- The server runs every gRPC call in a goroutine.  Handlers and upload streams of
  one client meet in `client.files` and `client.sessions`; `client.mu` guards the
  two maps but not the state of a file.
- A ready session goes through the throttle, which all clients share, and
  `chanReadySessions`, which is the client's, to whichever goroutine of
  `RecvCompiledObjStream` takes it.
- The src cache and the obj cache are shared among all clients.
- When a stream breaks, the two sides learn of it at different times.  The daemon
  fails the attempts whose .o may be lost and retries; the server gives sessions
  back to the next stream.

### What is hard

Wake-ups among handlers and streams; states read without a lock; timeouts that race
the late answer; one step of several failing (a system header that differs, an upload
that breaks, the disk); WaitGroups released by interrupts at any moment; queues at
their limit; broken streams that one side has not noticed; a linked list changed by
lookups and purges in several goroutines; connections that are replaced while streams
and attempts still use the old ones; retries that write to the paths of an attempt that
is not over; deletions of a client from three places with nothing that orders them; a
shared cache of includes which is used while it is half filled.

### What makes each component correct

- *Sessions and uploads*: a session is compiled once, with all its files, of the
  contents it asked for; nobody waits for an upload that no one will make.
- *Caches*: list, table, disk and size agree; eviction is LRU; purges end; what is
  saved is found.
- *Delivery*: what a client waits for is on its way to the stream it reads, once.
- *Attempts*: an attempt ends; it is taken as compiled only when it is.
- *Transfer of an .o*: a file that is there under its final name is whole, and its .gcno
  is there before it; a failed write costs no other session its .o.
- *Clients storage*: an entry in the table is alive; a client that nothing has disturbed
  is found and has a working directory of its own.
- *Precompiled headers, capabilities*: one probe or compilation serves all.
- *Key of the obj cache*: equal keys mean equal inputs.
- *Routing*: a request takes the .o of its own attempt, does not wait for a connection
  that was given up, and is answered.
- *Includes*: the list is what a compiler would read, in a stable order; the cache tells
  the truth; a .d file misses nothing.

## 2. Modules

    SessionUploads      <- MCSessionUploads, SessionUploadsProofs
    LruCache  <-(refinement)-  FileCache  <- MCFileCache, FileCacheProofs
    ObjDelivery         <- MCObjDelivery, ObjDeliveryProofs
    ObjTransfer         <- MCObjTransfer, ObjTransferProofs
    ClientsStorage  <-  SessionAdmission  <- MCSessionAdmission, ServerClientsProofs
    PchCompilation      <- MCPchCompilation, ServerClientsProofs
    ObjCacheKey         <- MCObjCacheKey
    RemoteAttempts      <- MCRemoteAttempts, RemoteAttemptsProofs
    DaemonRetries       <- MCDaemonRetries, DaemonRetriesProofs
    CommandLine, DepFiles, IncludeStatements
      <-  OwnIncludesParser  <- MCOwnIncludesParser, OwnIncludesParserProofs

An action is what a goroutine does between two points at which another can observe or
disturb it: a section under a mutex, an atomic operation, a read of an unguarded
field, a gRPC call, an operation on a file.  A goroutine's stage is its `pc`; files,
messages and attempts are model values.  Operators called *Mutant of X* are plausible
bugs in X, with which the matching property fails; nothing else uses them.

### SessionUploads (server)

One client on one server.  `fileState`, `fileSha` are `client.files`; `onDisk` the
contents in the working directory; `sessions`, `started` are `client.sessions` and
`compilationStarted`.  A handler of `StartCompilationSession` goes through
`CreateNewSession` (with `LookupFile`/`InsertFile`, the double-checked
`StartUsingFileInSession`), then file by file through the switch of
`nocc-server.go:167-220` (`SwitchOnState`, `ClaimFile`, `SystemHeaderEqual`,
`SystemHeaderDiffers`, `LinkedFromSrcCache`, `AskForFile`, `AskAgain`), then
`RegisterCreatedSession` and the scan.  An upload stream goes through `FirstChunk`,
`TakeFile`, `ReceiveFile` or `UploadFails`, `CompileOwnPch`, `FileUploaded`, the scan,
`SaveFileToCache`.  The scan is `launchCxxOnServerOnReadySessions`: the
sessions are listed under the lock, the states of a session's files are read one by
one, and `SwapCompilationStarted` decides who launches.

Reading `file.state` without a lock is a data race in Go; on the supported platforms
an aligned word is read whole, so a read yields the old or the new value, which the
interleaving of single reads and writes covers.

Abstracted: chunks, coverage, directories, the compiler itself; the src cache is a set
of key/content pairs (what it may hold at the start is chosen by `Init`); from its
launch to its close a session is one action (`CloseSession`), which `ObjDelivery`
details; a hanging upload is one the next session may ask for again.  From
`FirstChunk`, which finds the session, to `TakeFile`, which takes its file, the session may
be closed: `session.files` then turns nil at a moment of its own (`client.go:138`), which
nobody notices, or ends the stream, or panics if it falls between the two accesses of
`nocc-server.go:254-259`.  Nothing recovers, so the server is gone: `Running` guards every
step of `Next`.  An instance in which the upload of a file hangs, is asked for again and
then arrives twice gets there (`UploadsLate`).

### FileCache and LruCache (server)

`FileCache` is the code of `file-cache.go` down to the pointers: `next`, `prev`,
`lruHead`, `lruTail` are functions over nodes, 0 is nil.  A save is `TakeIndex`,
`LinkToCache`, then `InsertEntry` or, if another goroutine was faster, `FindEntry` and
`RemoveDuplicate`; then a purge (`CheckLimit`, `EvictTail`, `RemoveEvicted`), which
the cron also runs, to the soft limit.  The link may fail for any reason, and must when the
directories are gone.  `DropAll` includes the failing
re-creation of the directories and does not reset `lruTail`.
`LruCache` is the promise: keys in the order of their last use, evicted
from the other end, never the one in use.

### ObjDelivery (server)

The way of a session from `LaunchCxxWhenPossible` (or the hit in the obj cache)
through the throttle, the push and `chanReadySessions` to a goroutine of
`RecvCompiledObjStream`, with `GiveBack`, `FailSession`, the
trailer, and a `Send` that only queues.  The client is modelled as far as it matters:
it reads one stream, fails everything it waits for when that breaks, a single session
when the server named it, and opens the next one.  `NoticesAtOnce` says whether the
server learns that a stream was cancelled before anything the client sends later
arrives; this is so when the connection itself survives (the reset of the stream is in
order with the rest), and not when the connection died silently: the server
then learns of it from its keepalive (`cmd/nocc-server/main.go:151`, 20 s and 10 s).

### ObjTransfer (server and daemon)

What `ObjDelivery` takes for one step: `sendObjFileByChunks` cuts an .o and its .gcno into
chunks (`Chunks`), several sessions share a stream (`wire`), and the daemon's goroutine
of the stream receives them (`ReceiveAtOnce` for a body of one chunk, `ReceiveFirst`,
`ReceiveNext`, `ReceivedAll`), writes to a temporary file, saves the .gcno (`SaveNotes`)
and then renames the .o (`SaveObj`).  `Take` is the closure that splits the bytes between
the two files and goes on counting when a write has failed.  A byte is known by the
attempt whose compiler made it, so a mixture of two attempts would show, and so would the
.o of one beside the .gcno of another; for these `saved` remembers how far the saving of
each attempt got, and whether a sibling's .gcno came in between.  An attempt
may be interrupted at any time and retried over another stream; both then write to the
paths of one request.

### ClientsStorage and SessionAdmission (server)

`ClientsStorage` is everything that happens to the one entry of the table that has a given
clientID: `OnClientConnected` (`StartClient`, which deletes an old client, `Mkdir`, `Insert`),
`StopClient`, `DeleteInactiveClients` and `StopAllClients`.  `DeleteClient` is the three steps
`Unlist`, `CloseChan`, `RemoveWorkingDir`, and the goroutine that removes the renamed
directory (`RemoveOldDir`).  A `Client` is named by the `StartClient` that made it.  Closing a
channel twice is a panic (`panicked`), which the code can reach.  `SessionAdmission` adds
the first part of `StartCompilationSession`: finding the client, the
cache of compilers' targets, which is not single-flight (`StartDetecting`, `Detect`; an
`Untargeted` session, of a client that doesn't know its own target, suits any), and the
probe of coverage, which is (`EnterCoverage` holds the mutex to `EndProbingCoverage`).  Then
`CreateSession` and, unless the client has all its directories already, `MkdirAllForSession`, a step of
its own, which may make the working directory again after the client was deleted (`Stray`).

### PchCompilation (server)

One hash of an own pch, uploaded by several clients.  `CompileOwnPchOnServer` is
`ParseFails` or `StatRootDir`, then either waiting (`SeeListed`, `GiveUpWaiting`,
`RemoveRootDir`) or `ExtractAllDeps`, `StartCompiling`, `EndCompiling`, `AddToList`, and
`CreateHardLink` into the client's directory; `FileUploaded` and `SaveFileToCache`, which may
fail, are what the upload stream does after that.  A session that finds the .nocc-pch in the src
cache takes it for uploaded first (`StartFromSrcCache`) and links the .gch then
(`LinkFromSrcCache`); the clients in between are `linking`.  A .gch is named by the upload whose
compiler created it and `writers` says who has opened it, so that two
compilers on one file show.

### ObjCacheKey (server)

`MakeObjCacheKey` is a record of what is hashed: arguments without separators, their
number, the number of files and the xor of their contents, which keeps what is there
an odd number of times.  Sessions look the key up and save under it while files are edited.

### RemoteAttempts (daemon)

The daemon's side: an attempt is `Register`, `AddRecv`, `IncludesCollected`,
`StartCompilationSession`, `CheckAvailable`, `SetWaitUploads`, `AddUploads`, `StartUploadingFile` for each file,
`WaitUploads`, `WaitForCompiledObj`, `Unregister`.  The upload goroutine and the
receive goroutine of the remote share `chanToUpload` and `active` with it, open their
streams again or give up (`OnRemoteBecameUnavailable`, which marks the remote, and later
`InterruptInvocations`, under `Daemon.mu`; `marking` is who is between the two), and with the ticker they
interrupt attempts: `ForceInterrupt` is a loop over `DoneUploadFile` and then
`DoneRecvObj`, step by step.  Releasing a WaitGroup below zero is a panic
(`panicked`), after which the daemon does nothing more.  The server is external: it
answers an attempt, ends the stream with a trailer, or sends into a stream that broke.

When an upload fails and the stream is open again, a new goroutine listens
(`RecreateUploadStream`) while the old one has still to tell the attempt (`ReportUploadFailed`;
`reporting` counts these).  A stream of a connection made by a reconnect may be given up before the
connection is in the list (`daemon.go:192`, `:486`): in `Init` either stream may have quit with nobody told.

### DaemonRetries (daemon)

The pool of remotes and the life of a request: `HandleInvocation`,
`ChooseRemoteConnection` (the walk from the hash of the file's name to the first remote
that can compile it), `StartSession`, `FailToStart` or `StartRefused` (a refusal is remembered
as `incapable`), `EndAttempt`, `OnRemoteCompilationFailed` (retry, reconnect or fall back),
a round of reconnects under `reconnectMu` (`StartRound`, `SkipHost`, `ReconnectHost`,
`InstallRound`), and the local compiler with its throttle.  A connection has two streams,
`upload` and `receive`, each with its goroutine: one may break, come back, or report that the connection
is unavailable in two steps (`OnRemoteBecameUnavailable`, `InterruptInvocations`) at any time, also
when the connection is replaced, while the other goes on.  A connection that isn't in the list, because
it is replaced or because its round has not installed it yet, is not found: that stream is
`unheard`.  An attempt, which `RemoteAttempts` details, is one step that starts
a session and a wait.  `None` in `conns` is a nil entry while the daemon starts; a stream that
breaks then panics, which the code can reach.

### OwnIncludesParser with CommandLine, IncludeStatements and DepFiles (daemon)

`CommandLine` is `ParseCmdLineInvocation` as a fold over the arguments.
`IncludeStatements` is the scan of a file for `#include`: a fold over its tokens (directives,
the two kinds of comments, ends of lines), with `Endless` where the code's scan returns to
offset 0.  `OwnIncludesParser` follows one `#include` in a step: `SearchPaths` with
`#include_next` and `-iquote`, the two caches shared among the
invocations (`includesResolve`, `hFilesInfo`), own pchs in place of the first header, and
the clearing of the caches by a pch invocation.  The recursion of the code is a stack of files.
`DepFiles` is the .d file that results.  `invocation` is defined, not chosen: it is what
`CommandLine` makes of the constant command lines.  Which headers have an own pch is a constant
(`OwnPchs`): that the code remembers the absence of a .nocc-pch like that of any file
(`includes-collector.go:179-195`), and that a pch invocation clears the caches before it writes one
(`daemon.go:244-255`), is not modelled.

The reference (`Ref*`) is what a compiler does: the first
directory of the chain that has the file, and the closure over that.  It can only agree with the
code on command lines and files for which the code means to be right; this is said once, in three
definitions over the constants:

- `Agreeing`: the invocations have the same include directories, which are parsed as a compiler
  would; the scan finds each `#include` that counts; an `#include_next` stands in a directory
  that is searched, and no directory searched before it is a prefix of its name (the code compares
  prefixes, `own-includes-parser.go:187`); an own pch is no system header and is included by none.
- `SourcesAgree`: sources with the same text are compiled in the same directory, with the same
  `-include` files and the same use of own pchs.
- `DepsAgree`: `-MD`, `-MMD`, `-MP` and `-MF` are parsed if they are given, and no directory merely
  looks like one inside a directory of the compiler (`dep-cmd-flags.go:156` compares prefixes too).

`MCOwnIncludesParser` assumes them of its instance (`InstanceAgrees`), so that TLC evaluates them.

## 3. Runs

| run | instance | shows |
|---|---|---|
| UploadsMixed | 3 sessions, 1 upload stream, a header compiled as a pch, a system header with one session that has another version; src cache empty or not; uploads may hang | `NoLostWakeup`, `LaunchedAtMostOnce`, `UploadingIsAwaited`, `TypeOK` |
| UploadsCrossed | 2 sessions with the same two files in opposite order, 2 streams; uploads may fail; one .o may be cached | `LaunchedWithFiles`, `CompiledFromItsFiles`, `EverySessionStarts` |
| CacheLru | 3 keys (one of double size), 2 workers and the cron, 3 saves, 1 drop, limits 3 and 2 | `ListIsTable`, `SizeAccounted`, `FilesMatchTable`, `PurgeEnds`, `SavedIsCached`, `ImplementsLru` |
| AttemptsTwo | 2 attempts, at most 1 file each, queue of 1, 2 failing uploads, 1 break | `UploadsAreOwed`, `CompiledOnlyIfReceived`, `LostObjFailsItsAttempt` |
| AttemptsEnd | 1 attempt, 2 files, queue of 2, 2 failing uploads, 2 breaks | `EveryAttemptEnds` |
| Delivery | 3 sessions, 2 streams, ready channel of 1, throttle of 1, cancels noticed at once | `ReadySessionIsSentOnce`, `AwaitedObjArrives`, `QueuedIsCompiled` |
| Retries | 2 requests (one with coverage; one that is a .cpp, a pch or local), 2 servers of which one refuses to be the compiler and the other is too old for coverage, 1 retry, 1 reconnect per host, 1 break, 1 local slot | `WaitingIsInterrupted`, `ObjIsOfThisAttempt`, `ReplacedIsCleared`, `AvailableStays`, `EveryRequestIsAnswered` |
| Clients | 2 `StartClient`, 1 `StopClient`, the cron, the quitting server, 2 coverage sessions, one of a client without a target | `ListedIsOpen`, `ConnectedIsServed`, `AdmittedOnEvidence`, `CoverageProbedOnce` |
| Pch | 3 uploads of 2 clients, a third client that finds the file in the src cache | `LinkedIsComplete`, `UploadedHasPch`, `CompiledOnce`, `EveryUploadIsAnswered` |
| Includes | 4 invocations: two with the same options (`-I`, `-iquote`, `-include`) written differently, one own pch, one linking; 9 file systems | `FindsWhatCxxFinds`, `CacheIsTruth`, `OrderIsStable`, `DepFilesAreComplete` |
| Transfer | 5 attempts for 3 requests over 2 streams, chunks of 2 bytes, files of 1 to 4 bytes, 1 failing write, 1 break, 1 interrupt | `NotesBeforeObj`, `DoneIsWhole`, `StreamStaysInStep` |
| ObjKey | 3 sessions, a .cpp and two headers that may be copies of each other | *violates* `ReusedOnlyIfTheSame`, the one entry of "findings" |

`CHECK_DEADLOCK FALSE` is stated where the numbers of sessions, saves, attempts and streams
are bounded, so that the instance comes to an end; `Includes` instead has a step `AllDone` and
checks that no invocation gets stuck before it is finished.

### Further configurations

Each of these checks one property that a comment or a test of the repository suggests, and
TLC shows a behaviour of the code that violates it.  They are kept to be run by hand, as
`tlc -config <name>.cfg <module>` (for the three of PchPromises, name one of them in the file):

| configuration, module | property | what the code does |
|---|---|---|
| UploadsEdited, MCSessionUploads | `CreatedWithItsShas` (`client.go:174`) | the sha256 of a file is not compared when another session inserts it between the read lock and the write lock (`client.go:186`) |
| UploadsHeader, MCSessionUploads | `DifferingHeaderRefused` (`client.go:76`) | a system header that differs stays in the state Uploading (`nocc-server.go:174`), so that the next session with it is created |
| UploadsLate, MCSessionUploads | `StreamsOnlyEnd` (`nocc-server.go:233`) | an upload that arrives while its session is closed finds `session.files` nil between two accesses and panics (`nocc-server.go:254`, `:259`, `client.go:138`): the whole server ends, not the stream |
| CacheDropped, MCFileCache | `SavedFindsItsDirectory` (`nocc-server.go:472`) | `DropAll` removes `cacheDir` and can't make its subdirectories again (`file-cache.go:164`): nothing is cached until a restart |
| AttemptsQueueFull, MCRemoteAttempts | `DeadQueueNotAwaited` (`remote-connection.go:158`) | the remote dies after it was looked at, the upload queue is full, and the send blocks for good (`files-uploading.go:59`) |
| AttemptsReleased, MCRemoteAttempts | `UploadsNeverOverReleased` (`invocation.go:337`) | an interrupt between the store of `waitUploads` and `wgUpload.Add` panics (`remote-connection.go:163`) |
| DeliveryUnnoticed, MCObjDelivery | `AwaitedObjArrives` (`obj-stream_test.go:117`) | a stream whose connection died silently takes a session and sends its .o nowhere (`nocc-server.go:342`) |
| RetriesRefused, MCDaemonRetries | `RefusedByAll` (`daemon.go:303`) | whether all remotes are up is looked at after the walk over them; with a reconnect between the two a passing failure is taken for a refusal by all |
| RetriesStart, MCDaemonRetries | `NeverPanics` (`remote-connection.go:18`) | a stream that breaks while other remotes are still being connected meets a nil entry |
| ClientsRestart, MCSessionAdmission | `NewInstanceIsCreated` (`clients-storage.go:54`) | a `StartClient` beside a deletion, or after a renaming to a name that is taken, finds the directory there and fails; or a channel is closed twice |
| RetriesGivenUp, MCDaemonRetries | `GivenUpIsInterrupted` (`daemon.go:211`) | a stream that gives up a new connection before its round installs it isn't heard (`daemon.go:192`, `:486`): the connection comes into the list as available, and who waits on it waits for `forceInterruptTimeout` |
| TransferMixed, MCObjTransfer | `FromOneCompilation` (`docs/architecture.md:288`) | two attempts at a request replace the .gcno and then the .o, each in two steps with no lock (`files-receiving.go:217`): the .o of one is left beside the .gcno of the other |
| PchPromises, MCPchCompilation | `OneCompilesAtATime` (`pch-compilation.go:100`) | the look at the directory and its creation are two steps, and a second client that has waited in vain starts beside the first |
| PchPromises, MCPchCompilation | `UploadedIsUsable` (`pch-compilation.go:118`) | a .nocc-pch from the src cache is `Uploaded` before its .gch is linked (`nocc-server.go:188`, `:191`): another session of the client may start the compiler without it |
| PchPromises, MCPchCompilation | `CompiledIsLinked` (`pch-compilation.go:117`) | a client that uploads its .nocc-pch again has the .gch already, and the second link fails (`pch-compilation.go:135`), which makes the upload an error |

### Bounds

- Two sessions are enough to race for a file, three to have one claim it, one wait for
  it and one give up between them; two streams are enough for an upload asked for
  again to race the first one.
- Three saves by two workers give a full list with a middle node, a duplicate and an
  eviction that races a save; the key of double size makes one purge evict twice.
- Two attempts with one file each compete for a queue of 1, and one is interrupted
  while the other goes on; one attempt with two files is interrupted while some of its
  files are queued, uploaded or failed.
- A ready channel of 1 (200 in the code) and a throttle of 1 make both fill up with
  three sessions, so that one is held by a stream, one is in the channel, one blocks.
- `AttemptsEnd` has a queue as long as the files of its attempt (the code's is 50), so
  that it never fills up.  That is an assumption: with a full queue the property
  fails, which is what `AttemptsQueueFull` shows.
- `Retries`: both files hash to server 1, which refuses to be their compiler, and server 2 can't do
  coverage, which is known from its StartClient, so that a request walks over the pool, learns a refusal
  and may find nobody (in `RetriesRefused` the refusal of coverage is learnt as well);
  `RemoteRetries`, `MaxReconnects` and `MaxBreaks` of 1 let a connection break
  while it is used, be replaced, and its old streams report afterwards (an upload stream that breaks
  beside a broken receive stream is not counted, so that a whole connection may die); `MaxLocalCxx`
  of 1 makes two fallbacks compete.
- `Clients`: a client is replaced by a second `StartClient`, stopped and found inactive, so that
  three goroutines may delete it at once; two sessions look at the compiler together.
- `Pch`: three uploads are the first compilation, one that waits for it, and one that comes when
  it has failed.
- `Includes`: the nine file systems are all subsets of the optional headers
  (a header found in either of two directories or in none, with `#include_next` and
  a cycle), and one in which two sources differ.  The invocations interleave at every `#include`.
- `Transfer`: sizes make a body of one chunk, one whose last chunk of the .o is not full, and one
  with a .gcno of two chunks; one failure of each sort reaches every point at which
  a transfer may fail; the retry is over the other stream.

### Fairness

- Goroutines that can go on do (Go's scheduler, a mutex that does not starve); where a
  goroutine competes for `Daemon.mu` with the ticker again and again, strong fairness,
  since `sync.RWMutex` lets a waiting writer in.
- Uploads the server asks for are made or fail (the daemon's upload goroutine runs, and
  keepalive ends calls on a dead connection).
- The ticker finds every attempt late some day (`forceInterruptTimeout`).
- Compilers end (`QueuedIsCompiled`, `EveryUploadIsAnswered`, `EveryRequestIsAnswered`).
- The goroutine of a request goes on or the ticker interrupts its attempt, and a connection that it
  makes in a round is made or fails, since its context has a timeout (`EveryRequestIsAnswered`, which
  assumes nothing else).
- Ten seconds of waiting for a pch pass (`EveryUploadIsAnswered`).
- Nothing is assumed of clients starting sessions, sessions being closed, the server
  answering an attempt (`EveryAttemptEnds`, `EveryRequestIsAnswered`), streams breaking or
  recovering, or a client reading its stream (`QueuedIsCompiled`).

### Qualifications in the properties

- `NoLostWakeup`, `UploadingIsAwaited`: but for a handler that gave up on a system header
  that differs.  It returns without a scan and leaves files it had claimed in
  `Uploading`; sessions that wait for these are helped by the next session
  that asks for the file after the timeout, if there is one.
- `EverySessionStarts`, `UploadingIsAwaited`: but for files of which an upload failed,
  for the same reason: the code leaves it to the next session.
- `EverySessionStarts`: as long as the server is `Running` (`UploadsLate`).
- `ListIsTable`, `SizeAccounted`, `PurgeEnds` and the refinement: up to the
  first `DropAll`, after which the cache is out of order (`CacheDropped`; `lruTail` is
  stale and the size may become negative).
- `PurgeEnds` is for files that fit the soft limit: the loop never removes the last
  entry, so that a larger one keeps it running.
- `SavedIsCached`: for what was linked into the cache; whether it can be linked at all is the question
  of `CacheDropped`.
- `UploadsAreOwed`: while the remote is available; then `EveryAttemptEnds` takes over.
- `ConnectedIsServed`: for a client that nothing has put at risk (`atRisk`): its `StartClient` ran
  beside no other call or deletion, and it was not stopped, replaced or inactive.
  Without that a late deletion takes the successor off the table, or its directory.
- `LinkedIsComplete`, `UploadedHasPch`, `CompiledOnce`: unless two uploads were busy in the
  directory at the same time (`crossed`, which `OneCompilesAtATime` shows to be possible).
- `UploadedHasPch`: but while a session that found the file in the src cache has yet to link the .gch
  (`linking`); `UploadedIsUsable` says it without this window, and fails.
- `WaitingIsInterrupted`: for a connection that is marked, or was given up while it was in the list.
  `GivenUpIsInterrupted` says it of any that was given up, and fails.
- `ReplacedIsCleared`: the connection in the list is open but between `old.Clear()` (`daemon.go:482`)
  and the end of the round (`:486`); it is unavailable then, which the property says.
- `NotesBeforeObj`: but for an .o that comes after a sibling has saved its .gcno over this one's
  (`overtaken`), and while the .gcno is of a sibling that has not saved its .o, or could not.
  `FromOneCompilation` is without these exceptions, and fails.
- `DoneIsWhole`: but for another attempt at the same request that `Endangers` the .o.  A late .o
  which fits one chunk is written over the other in place, not through a temporary file; and a late
  .o that lacks the .gcno its request wants is saved over the other and then removed.
- `FindsWhatCxxFinds`, `CacheIsTruth`, `OrderIsStable`, `DepFilesAreComplete`: for invocations with
  the same include directories, on files that are not edited; the caches are not keyed by either.
  The exact conditions are `Agreeing`, `SourcesAgree` and `DepsAgree` (section 2).

## 4. Proofs

Checked by `tlapm` for every value of the constants that satisfies the named assumptions
(`SessionUploadsAssumption`, `FileCacheAssumption`, `ClientsStorageAssumption`,
`SessionAdmissionAssumption`, `PchAssumption`, `ObjDeliveryAssumption`, `RemoteAttemptsAssumption`,
`DaemonRetriesAssumption`, `ObjTransferAssumption`), which only say of what kind the constants are
(the last one also that `None` is no file) and are evaluated by TLC in the runs.  Three results have
hypotheses beyond these, stated in the theorem: `Unedited`, `NoticesAtOnce`, and the conditions on
command lines and files of `OwnIncludesParser`.  TLC evaluates them for the instances.

**SessionUploadsProofs.**  The inductive invariant is `Inv == TypeOK /\ Stages /\
StoredFiles`.  `Stages`: a handler in a file's steps has a file, a scanner that
checks has a session, a stream that works has a request.  Without it `TypeOK` is not
inductive, as the next step would look up a file out of bounds.  `StoredFiles`: a file in
the state `Uploaded`, or received by a stream, is on the disk; it is needed because the
contents then go to the src cache, and it is what the compiler relies on.

- `TypeCorrect`: `Spec => []TypeOK`.
- `CompiledAtMostOnce`: `Spec => []LaunchedAtMostOnce`, as a launch is
  only by the goroutine that found `compilationStarted` unset.
- `NoWakeupIsLost`: `Spec => []NoLostWakeup`.  The argument: a
  session can become ready by its own registration, whose handler then scans; by a stream
  that marks the file, which then scans; or by another handler that takes the file
  from the src cache or the system, which will scan or gives up.  A scanner that has passed
  over a session has read the state of a file that was not `Uploaded`, so whoever
  changes it later scans later.
- `CompiledWithItsFiles`: `Spec => []LaunchedWithFiles`.  States are read one by one and
  may fall back afterwards, but a file once on the disk stays there.
- `NobodyWaitsInVain`: `Spec => []UploadingIsAwaited`, from `UInv`, which adds `Opening` (a session
  that is not registered yet is known to no scan), `AskedFor` and `UploadingIsOnItsWay`.  A file in the
  state `Uploading` was claimed by a session; until a stream has taken it (`Taking`, then `Sending`) that
  session asks for it.  The session can't be closed before, as nobody starts it: every scan that reads
  this file's state (`NotPassed` are those that have not yet) finds it not `Uploaded`.
- `CompiledFromOwnFiles`: `Unedited => (Spec => []CompiledFromItsFiles)`.  `Unedited` says that the
  sessions of one client ask for a file with one sha256; `UploadsEdited` shows what happens without.
  `CInv` adds `Contents`: a file on the disk or in the hands of a stream has the content of
  its sha256, but for a system header that was not compared yet, and so has each entry
  of the src cache.

**FileCacheProofs.**  `Inv == TypeOK /\ Allocated /\ Owned /\ Stored`.  `Allocated`: all
references are to nodes made so far.  `Owned`: a node is the entry of
its own key or in the hands of exactly one goroutine, never both; this is
what prevents two goroutines from removing one file.  `Stored`: where files may be.

- `NoFileIsLeaked`: `Spec => []FilesMatchTable`.
- `ListIsTheTable`: `Spec => []ListIsTable`, from `LInv == Inv /\ ListKnown /\ Fresh`.  `ListKnown`:
  some numbering of the entries is the list, linked in that order both ways, `ListOf(n, f)`; a lookup, a
  save and an eviction are shown to make `ToFront`, `WithHead` and `WithoutTail` of it, by following each
  assignment through a pointer.  `Fresh`: the `prev` of a node which was not in the list yet is nil; the
  code relies on this, as an insertion doesn't set the field.  That `NodeAt`, which TLC
  walks along the list with, enumerates the numbering is by the least index at which it would not.
- `FileCacheIsLru`: `Spec => ImplementsLru`, the refinement of `LruCache`.  With the numbering
  `KeyOrder` is a sequence of known keys, so that `LookupHit` is `Use`, `InsertEntry` is `Add`,
  `EvictTail` is `EvictOldest`, `DropAll` is `Drop`, and nothing else moves a key.
- `TotalSizeIsRight`: `Spec => []SizeAccounted`.  The sums are folds, about which the library has no
  theorem; `SumsExist`, `SizeSplits` (the size of a set is that of any of its nodes and of the others)
  and `SizeSame` (it depends on these nodes' keys only) are proved by minimal counterexamples
  among the subsets of a finite set (`SmallestOf`), in place of an induction.  The step is easy then: an
  insertion adds a node to the entries, an eviction moves one to those in hand to be
  removed, and the removal takes it from there.  It needs `LInv`: the node at the tail is
  an entry of the table, else the evicted size would be that of another file.

**ServerClientsProofs**, of `SessionAdmission` and of `PchCompilation`.  For the former,
`Inv == TypeOK /\ StorageInv /\ AloneInv /\ CapabilityInv`, for any number of `StartClient` and
`StopClient` calls and of sessions.

- `ListedAreOpen`: `Spec => []ListedIsOpen`, from `StorageInv`: a channel is closed only of a client
  that was entered, and a deleter that is about to close it (`pc[p] = "close"`) has
  taken that client off the table.  It never comes back, as only its own `StartClient`,
  which is over, enters it.
- `ConnectedAreServed`: `Spec => []ConnectedIsServed`, from `AloneInv`: while a client that is not
  at risk is being made or exists, no other call or deletion is under way
  (`Busy \subseteq {c}`), so the table is empty until it is inserted, the directory is
  what it made, and the cron, which only deletes clients that were found inactive
  (`inactive \subseteq atRisk`), does not touch it.
- `AdmissionNeedsEvidence`: `Spec => []AdmittedOnEvidence`, from `CapabilityInv`: what `byName`
  holds was told by some look at the compiler.
- `OneCoverageProbe`: `Spec => []CoverageProbedOnce`, from `CapabilityInv`: whoever probes holds the
  mutex, and until the outcome is stored `coverageByName` is unknown and one probe was made.

For `PchCompilation`, `PchInv` says, while nothing has crossed, where the compilation stands
(`AloneInRootDir`): one upload at most is in the directory; before a compiler has ended well
there is no .gch or the one being written; once it is listed nobody enters
the directory any more.  `ClientsHavePch` then follows what clients have linked: an upload
is only taken for uploaded with its link made, and a file out of the src cache, which nothing enters
before the pch is listed, has it when its session is not `linking` any more.

- `LinkedAreComplete`, `UploadedHavePch`, `OnlyCompiledOnce`: `Spec => []LinkedIsComplete`,
  `[]UploadedHasPch`, `[]CompiledOnce`.

**ObjDeliveryProofs.**  `Inv == TypeOK /\ OnePlace /\ OpenUntilSent /\ StreamsInOrder`, for any
number of sessions and streams and any capacity of the ready channel.  `OnePlace`: a session is
pushed by one goroutine, or once in the channel, or held by one stream; `Count`, which the
property is about, is a sum of cardinalities, and `Counted` takes it back to these three.
`OpenUntilSent`: a session is closed only by the stream that holds it, so one in any of the
places is open with its .o on the disk.  `StreamsInOrder`: when cancels are noticed at once, the only
stream that can take a session is the one the client reads.

- `SentOnce`: `Spec => []ReadySessionIsSentOnce`.
- `AwaitedArrives`: `Spec => []AwaitedObjArrives` under `NoticesAtOnce`; configuration
  DeliveryUnnoticed shows that it is false without.  The strengthening
  `OnItsWay` names the place where each awaited session is.

**RemoteAttemptsProofs.**  `Inv == Typed /\ Hands /\ Registered /\ Interrupts /\ Files /\ Sessions /\
Groups /\ Replies /\ Losing /\ Replied /\ UploadsAreOwed`, for any attempts, files,
capacity of `chanToUpload`, failures and breaks.  `OnTheWay` counts what of an attempt is
uploaded, queued or in the hand of the upload goroutine; `Groups` says that `wgRecv` is what `doneRecv`
says.  `Losing` follows an .o that was lost from the break of the stream on: its attempt has failed by
itself, is released (`Told`), is registered while the break was not seen to, or is before the
goroutine that interrupts.

- `UploadsAlwaysOwed`: `Spec => []UploadsAreOwed`.
- `CompiledWasReceived`: `Spec => []CompiledOnlyIfReceived`, from `Replied`, `Groups`, `Replies` and
  `Sessions`: who is released without an error has received, and the server replies once it has every file.
- `LostObjFails`: `Spec => []LostObjFailsItsAttempt`, from `Losing`: whoever lost its .o with a stream
  is told before the stream that replaces it listens, or had failed for another reason.

**DaemonRetriesProofs.**  `Inv == Typed /\ ConnectionsMade /\ Rounds /\ AttemptsKnown /\ SessionsKnown /\
GivenUpIsMarked /\ WaitingIsInterrupted /\ ReplacedIsCleared`, for any requests, servers, retries and reconnects.
`Rounds`: only the holder of `reconnectMu` is in a round; the list it prepares has the last connection
of each host, and differs from the one in use only where it has passed and cleared that one.
`GivenUpIsMarked`: a stream that interrupts, or has interrupted, the attempts of its connection
has marked it before; one that was not heard has not, and is no part of this.

- `MarkedIsNotAwaited`: `Spec => []WaitingIsInterrupted`.  The looks at `isUnavailable` when a remote is
  chosen and when a session starts are before or after the mark; after it no session starts, and before
  it the attempt is registered already, so that the interrupt finds it.
- `OwnObjIsTaken`, `NoConnectionIsLeaked`: `Spec => []ObjIsOfThisAttempt`, `[]ReplacedIsCleared`.
- `AvailableIsKept`: `Spec => AvailableStays`, a property of every step: whoever takes
  a connection out of use has found its stream broken, and a round replaces only what it found
  unavailable under the same mutex.

**ObjTransferProofs.**  For any attempts, streams, chunk size and sizes of files.  `Chopped` is first
put into closed form (`ObjPart`, `NotesPart`: the bytes that the first j chunks have of either file), so
that nothing is needed by induction over the bytes.  `WireOk`: what is in a stream is `Orderly`, each
chunk followed by the next of its session or the first of another, and ends with
a session unless the stream broke.  `StepOk`: a transfer has taken the first j chunks of
its session (`Progress`), and what comes is number j + 1 (`Coming`), or a new session if j is the last;
that the daemon and the server agree on which is the last is `ReadToTheEnd`, which rests on chunks of a
file that are not empty.  `Files` then follows the two files through the stages of a transfer (`SavedNotes`,
`SavedObj`).

- `InStep`: `Spec => []StreamStaysInStep`.
- `NotesFirst`: `Spec => []NotesBeforeObj`.  A transfer that is about to rename its .o has saved its
  .gcno, and that is still there or was overtaken (`HasNotes`); an .o that is there keeps what fits it
  (`NotesFit`) until a sibling saves a .gcno over it, which is then a sibling that has not saved its .o.
- `DoneStaysWhole`: `Spec => []DoneIsWhole`, as a transfer is answered as done only with its .o at
  the path or a sibling's over it.

**OwnIncludesParserProofs.**  For any invocations, command lines and file systems that satisfy
`Agreeing`, with cycles of headers, `#include_next`, own pchs, and invocations that interleave at every
`#include` on one cache.  What the scan and the reference compute are closures and recursive functions
over data; where an induction is wanted, a least set closed under inclusion or a least index at which the
claim fails takes its place (`LeastOf`, `BeforeIs`, `AfterIs`).

- `CacheTruth`: `Agreeing => (Spec => []CacheIsTruth)`, from `TruthInv`.  The code remembers of a
  name the directory where it was found, or "NO", and of a header where its includes led; `SharedIsTrue`
  says that this is what the reference finds, and `OwnIsTrue` the same of each frame of the stack, of
  what was read but is not remembered yet.  A header enters the cache at the end of its file; in a cycle, headers
  that it includes may still be being read then, so that the invariant is about what one header includes
  itself and not about closures.
- `FindsAll`: `Agreeing => (Spec => []FindsWhatCxxFinds)`, from `FoundInv`, whose core is `Collected`:
  for each file on the stack, what it includes is known already or still to be read (`Inner`, and
  `Outer` for the source, whose list begins with the predefined header and the `-include` files); a file
  that was taken and is not on the stack has all of its includes known (`AllRead`); all that is known is
  reachable (`Reached`) and in the list (`Listed`).  At the end the known files are closed under
  inclusion and reachable, which is the least closed set.  `Phase` keeps what comes before the
  source's first `#include` apart from the rest: that one may be replaced by an own pch, which
  hides what its header includes.
- `OrderHolds`: `Agreeing /\ SourcesAgree => (Spec => []OrderIsStable)`, from `OrderInv`.  `InOrder` says
  that each file of the list is the one that `NextIs` determines from those before it, which mentions
  neither the cache nor the stack: the first unknown include of the latest file that has one.  Two
  complete lists that are so `Ordered` agree, by the least index at which they would differ, and so a
  list read from disk and one out of the cache are the same.
- `DepFilesHold`: `Agreeing /\ DepsAgree => (Spec => []DepFilesAreComplete)`, from `DepInv`: a .d file
  tells of what its invocation had found.  The filter is a recursive function, which is
  shown to exist (`KeptExists`) and to keep exactly what is no header of the compiler (`FilterIs`).

**Model-checked only**: liveness (`EverySessionStarts`, `PurgeEnds`, `SavedIsCached`, `EveryAttemptEnds`,
`QueuedIsCompiled`, `EveryRequestIsAnswered`, `EveryUploadIsAnswered`), which is out of the prover's reach.
Every safety property of the passing runs is proved.

## 5. Not modelled

- **Discovery** (`internal/discovery`): runs before the daemon serves, in one goroutine; mDNS is the
  network's, the rest merges two lists of names.
- **Quitting**: `QuitDaemonGracefully`, quitting on idleness (the race of a connection accepted in
  `daemon-sock.go` with the decision to quit), SIGTERM.  `StopAllClients` of the server is modelled.
- **Start of an attempt**: in `RemoteAttempts` an interrupt between the registration and
  `wgRecv.Add` (`compile-remotely.go:14`) is a step of its own; in `DaemonRetries` it is not.
- **Hits in the obj cache**: that the path of a hit may be purged between the lookup and the sending
  (`nocc-server.go:147`), and that a session stays registered when its .o can't be
  read (`nocc-server.go:381`; `SendFails` of `ObjDelivery` has the step, no property is
  about it).
- **`cxx -M`** as the other way to collect dependencies: it is the compiler's.
- **The cache of system headers** (`system-headers.go`) is never refreshed; in `SessionUploads` the
  headers are a constant.
- **The layout of .gcno files and the compilations of the coverage probe** (`coverage.go`), the text
  of .nocc-pch files (`own-pch-files.go`), escaping in .d files, the target triplet.
- Start-up, flags, logging, statistics, administration, the C++ wrapper, generated code.

What could come next: `DaemonRetries` shown to be implemented by `RemoteAttempts` under a
retry loop; `FileCache` and `ObjDelivery` composed for a hit whose file is purged.
