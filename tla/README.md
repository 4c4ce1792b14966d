# A verification development for otus-c-2021-09-Smelskiy

The repository holds fifteen programs of a C course.  Five of them have the
concurrency, the failures and the shared state that tests hardly reach, and
are the core of this development; three smaller ones are modelled beside them:

| program | what it is | modules |
|---|---|---|
| `hw11-ParsingLogs` | worker threads that parse log files and merge their statistics | `LogCounting`, `ParallelLogs`, `MCParallelLogs`, `ParallelLogsProofs`, `TopInstances` |
| `hw3-hashmap` | the hash map in which hw11 weighs URLs and referers | `WordCounter`, `HashMap`, `MCHashMap`, `HashMapProofs` |
| `hw13-HTTP-server` | a server with an event loop and a pool of threads, and its client | `HTTPServer`, `HTTPExchange`, `MCHTTP`, `HTTPProofs` |
| `hw9-Daemon` | a daemon with a PID file that reports the size of a file to a server | `DaemonProcesses`, `PidFile`, `FileMonitor`, `MyDaemon`, `MonitorProofs` |
| `hw8-Valgrind/clib` | a package manager: its installer and its builder | `ClibInstall`, `MCClibInstall`, `ClibInstallProofs`, `ClibBuild`, `MCClibBuild`, `ClibBuildProofs` |
| `hw12-TelnetIllustrator` | a client that sends one command and prints the answer | `Telnet`, `MCTools`, `ToolsProofs` |
| `hw2-utf-convertor` | three Cyrillic encodings to UTF-8 | `TextConverter`, `MCTools`, `ToolsProofs` |
| `hw1-rarjpeg` | lists the files of an archive behind a picture | `ArchiveFinder`, `MCTools`, `ToolsProofs` |

`DataLemmas` has what several of the proofs need to know of numbers and sequences.
`PROJECT.json` lists the components, the runs, the lines that each definition
models, the hazards and the theorems.

## 1. Inventory

### hw11-ParsingLogs
* **State.** `FileWithMutex[]` (a `FILE*`, a mutex and an atomic `done` for each
  file), one `LogsStatistics` per worker, private packages of lines, the table
  of the top ten.
* **Operations.** The main thread opens the files, creates the workers, joins
  them in order, merges and prints.  A worker scans for a file that is neither
  done nor locked (`FindReadyFileAndLock`), reads up to `LOGS_BUFFER_LIMIT` lines
  under the mutex, unlocks, and parses the package.
* **Interaction.** Only through `done`, the mutexes and the `FILE` positions;
  the merge (`CombineTwoLogsStatistics`) uses the hash map of hw3.
* **Hard.** The second check of `done` after the trylock, the end of a scan, the
  end of a file at the end of a package, `exit(0)` in one of many threads.
* **Correct** when every line of a readable file is counted exactly once in what
  is printed, and the program ends.

### hw3-hashmap
* **State.** A table of buckets (word, count, -1 when free), `used_nodes`, a probe
  step drawn at random.
* **Operations.** `Insert` (which may expand the table, which calls `Insert`),
  `Remove`, `Find`, `MergeHashMaps`.
* **Correct** when it is a counter of words: what is stored is found, no call
  changes other words, and there is room for every word.

### hw13-HTTP-server
* **State.** The descriptors and the kqueue, the pool (`worker_inited`,
  `worker_finished`, a thread per slot), one connection per worker, the static
  position of `strtok`, the files of the directory.
* **Operations.** `RunServer` accepts, registers one-shot events and gives each
  readable connection to a slot, for which it spins; a worker receives once,
  parses, checks the file, answers, closes and marks its slot as finished.
* **Interaction.** Main thread and workers share descriptors, slots and `strtok`;
  the client sees the status line, the file and the end of the stream.
* **Correct** when every client gets one whole answer, to its own request, reports
  success for whole files only, and is not kept waiting, and when no descriptor
  or slot is lost or used by two.  That the answer is to the client's own request
  is false (`http_mixed`); what holds for any number of workers is that answers
  are never mixed (`AnswersAreWhole`).

### hw9-Daemon
* **State.** The PID file with its lock, the inotify queue, the last size, a
  stream socket, the server's buffer.
* **Operations.** `Daemonize` (signal, fork, lock, write the PID), the handler of
  SIGHUP, `ConnectToServer`, `StartMonitoring` with two `stat` calls per event,
  the accept and receive loops of the server.
* **Interaction.** Daemons among each other through the lock, with the file
  through inotify, with the server through the stream.
* **Correct** when one daemon runs at a time, the PID file names it, and the
  server prints the sizes of the file in order and in the end the last one.

### hw8-Valgrind/clib
* **State.** What outlives a command: the directory of installed packages, the
  cache of manifests and packages with their ages, the manifests of the project.
  In a command: `visited_packages`, the package objects with their reference
  counts, the fetching threads; in clib-build and clib-configure the table of
  handled paths (`built`, `configured`) under a mutex.
* **Operations.** `clib_package_new_from_slug` (cache, then server, two names of
  the manifest, three tries), `clib_package_install` (load it from the cache or fetch
  each source in a thread, window by window, save to the cache, configure, then
  the dependencies), `copy_dir` (file by file, for loading and saving),
  `clib_package_install_executable`, the three commands around them, whose
  arguments are names, "." or regular files; `build_package_with_manifest_name`,
  which runs make in a package and
  then handles every dependency in a thread of its own.
* **Interaction.** Threads write into the directory of the package that started
  them; commands share disk and cache with the commands before them, killed ones
  included; a package comes back to itself through its dependencies.
* **Hard.** Results that are lost at a join, threads that outlive what they use,
  half-copied packages in the cache, marks that are set before the work or after
  it, walks over a cycle.
* **Correct** when success means that everything needed is there in whole, the
  cache never holds a part that passes for a package, what is there in whole is
  left alone, and every command ends.  The code keeps this with the exceptions
  that section 6 lists.

### hw12, hw2, hw1
* **Telnet illustrator.** A list of addresses, one connection, a buffer of fixed
  size.  Correct when it prints the answer and nothing else however TCP cuts it,
  and ends.
* **Text converter.** Tables and no state but the position in the file.  Correct
  when the output is UTF-8 for the same text.
* **Archive finder.** The position in a file.  Correct when an archive is found
  with every length of its comment, and each of its files listed once.

### The other programs
`hw6-Logger`, `hw10-CRC32`, `hw7-Assembly`, `hw14-Databases`,
`hw5-libcurl-weather-forecast`, `hw4-gstreamer-wav-player`,
`hw15-3D-Cube-Rotation`, and clib's search, init and dispatcher are not modelled;
section 7 says why.

## 2. How the modules correspond to the code

**LogCounting** is the promise of hw11: lines are counted one by one, each at
most once, and what is published counts all of them.  **ParallelLogs** is the
program.  One action is one access to memory that another thread can see (load
or store of `done`, trylock, unlock, one `getline`) or one line parsed privately.
`pc[t]` names the place of a worker: `check` and `trylock` and `recheck` are the
scan, `read` and `mark` and `unlock` the critical section, `process` the package.
A `LogsStatistics` is the bag of the lines added to it: all four of its fields are
sums over that bag.  A line is its file and number; the constants `NoSize`,
`NoReferer` and `ReadErrors` say which lines and files end the process or the
reading.  `Counting == INSTANCE LogCounting WITH ...` is the refinement mapping.

**TopInstances** is `GetTopInstances` for every list of words up to a bound;
`qsort` may put equal words in any order.

**WordCounter** is the promise of the map, **HashMap** the code: `Insert`,
`Remove` and the beginning of a merge are actions, and so is one round of the
loops of `ExpandHashMap` and `MergeHashMaps`.  A call takes effect when it
begins, so the mapping adds the words of the old table that are still to be
moved, and the words of the second map still to be merged.

**HTTPServer** is the server, **HTTPExchange** adds clients, files that are
removed, and clients that are killed.  Descriptors are numbers, of which the
lowest free one is given out, for connections and for files; a connection that
is closed while something still names its number shows as a second owner.
A `kevent` call returns a set of ready events, which are handled in any order.
The three `strtok` calls of a worker are three actions on `strtok_last`.  A
request is its words, a file its number of chunks, and `SendBuffer` the chunks
that a socket takes before `sendfile` fails with `EAGAIN`.

**PidFile** is `Daemonizer.c`: an action is one system call or one call of
`UpdatePIDFile` in main or in the handler; `content` is what the file holds, with
`Nul` for the hole that a write behind the end leaves.  **FileMonitor** is
`FileInfoMonitoring.c`, `ConnectToServer` and `Server.c`: inotify merges an event
with an equal one at the end of the queue, a message is `WORD` bytes in a stream,
and `recv` takes up to `MAX_MSG_LENGTH` of them.  **MyDaemon** is the program: a
process monitors once `Daemonize` has returned and no handler runs, and its end
closes the connection and releases the lock in one step, as the end of a process
does.  `DaemonProcesses` declares what the two halves share.

**ClibInstall** is the library `clib-package.c` with its cache, under
clib-install, clib-update and clib-upgrade.  The functions call each other
recursively, so the main thread has a call stack: a frame is a record with the
function (`fn`), the place in it (`pc`) and its local variables, `Call` pushes,
`Return` pops and leaves the result in `ret`.  `PackageEnter`, `PackageWindow`,
`PackageSave` and so on are the stretches of `clib_package_install` between two
calls or two accesses to what threads share.  A fetching thread is a record in
`threads` that refers to its package object and has its place (`slot`) in the
window of `pthread_t` that waits for it; `objs[o].state` says whether the
object is in use, left or freed, and a reference count keeps it.  A file is
`absent`, `broken` (a transfer or a copy ended in the middle) or `whole`, and a
cached package is a function from files to these.  `copy_dir` goes from file to
file in any order (`Copying`): `CopyOpen` empties the target, as `fopen` does, and
`CopyWrite` fills it or leaves it broken when the disk is full, which nobody
notices; a kill may come between the two.  A regular file among the arguments
is the number of its manifest (`Regular`).  The server is the constant
`Manifest`; a manifest has the members that its JSON object has.  `missing`,
`failed` and `faults` are history variables of the properties.

**ClibBuild** is clib-build and clib-configure, which are one program written
twice.  A task is one thread's call of `build_package`, named by the path of
positions that leads to it; `handled` is the shared table.  Looking at the table
(`Check`), running the command (`BuildRun`, `Mark`) and starting each dependency
(`Spawn`) are separate steps, because the mutex is free between them.  `main`
tells three kinds of arguments apart (`Begins`): those that begin with a dot,
directories or names, and regular files, of which the base name is looked for in
the current directory.  A mark is of a path, and one directory has several: below
`opts.dir`, by a relative name, or from the current directory (`Path`).

**Telnet** has one stream, of which each `recv` returns any beginning that fits
the buffer; a text is a sequence of letters, line feeds and dots.
**TextConverter** holds the three tables as the source has them and turns shifts
into powers of two; the reader of UTF-8 in its property is independent of the
conversion.  **ArchiveFinder** abstracts a byte to the signature that begins
there.  **MCTools** puts these three and TopInstances into one run: its initial
states choose one program, and the other three stand still.

Each module has variants of single definitions, named `Mut...`, with one error
each: mistakes that TLC must be able to see.  Substituting one of them must make
TLC report the property that it is listed with in `PROJECT.json`.

## 3. The runs

| run | instance | shows |
|---|---|---|
| `logs` | 3 workers, two files of 3 lines, packages of 2, the second file may fail to be read and has a line without size and one without referer, fair | the inductive invariant `IndInv` (types, `MutualExclusion`, `NeverTwice`, `NeverLost`, `DoneMeansRead` and what they rest on); each position moves under its mutex, finished files stay finished, the printed statistics are complete, `LogCounting` on every path of failure, with its liveness |
| `map_safety` | tables of 2 buckets, three words of which two collide | every stored word is found, there is room for every word, `WordCounter` |
| `http_pool` | 2 slots, 3 descriptors, clients that may be killed, two files of different sizes, of which one may be removed | one owner per descriptor, nobody is served by two, each client is sent one whole answer, slots are reused after their thread |
| `http_single` | 1 slot for 2 clients, a request in two pieces, a file larger than the send buffer, fair | a saved file is the one asked for, whole; nobody waits for ever, descriptors come back |
| `http_mixed` | 2 slots, 2 clients that behave | **violated**: one client gets the file of the other |
| `daemon_locked` | 2 daemons and a server that may be killed anywhere, 1 SIGHUP, a file that grows, is deleted and created | lock, PID file (its content until the SIGHUP), framing, order and completeness of the sizes, service of the next daemon |
| `pid_hangup` | 1 daemon, 1 SIGHUP | **violated**: the PID file begins with zero bytes |
| `clib_install` | two of eight commands one after the other, six packages of which two form a cycle, one has more sources than the window has threads, one is missing and one malformed; "." and a regular file among the arguments; one kind of failure or a kill anywhere | an installation without failures is whole, the cache holds whole packages, missing manifests are reported, threads end before what they use, no package is installed below itself, and without `--force` only a load from the cache overwrites |
| `clib_ends` | one of the eight commands, two kinds of failure, fair | every command ends, but for a forced one on a cycle, which fills the stack |
| `clib_exit_zero` | one command with one failure | **violated**: it exits with zero |
| `clib_build` | six command lines of clib-build and clib-configure, with names, ".", a directory and two regular files as arguments, on six packages with a cycle, windows of 2, one manifest that gets lost | success means that every command has run, no package runs below itself, no thread is left behind, the program ends |
| `tools` | lists of up to 5 words with counts up to 4 for 3 places; 5 lists of addresses, 3 banners and 2 answers with a buffer of 4; all 256 bytes of 3 encodings; 54 archives and 4 pictures with comments up to the longest | all places of the top but the last are right; answers printed whole, and the client ends; the text is kept; every entry is listed |

**Why these bounds.**  Two workers and two files already give every interleaving
of two scans over a locked, a free and a finished file; the third worker of
`logs` adds a waiter that is overtaken.  Three lines with packages of two
give a full package, a partial one, and the end of a file at and inside a
package.  Tables of two buckets expand at the second word, and the three words
expand twice, in a merge too.  Two slots are needed for the race in `strtok` and
for reuse; one slot for two clients is the case in which the main thread spins.
Three descriptors are one less than the two connections and two files at once
ask for, so `open` fails and `accept` meets its limit.  The two files of `http_pool` have
different sizes, so that a header of one and the content of the other would show.
Two changes and two messages fill the receive buffer and merge in the queue.

Two commands are enough for what one leaves to the next: a full or partial cache,
files on the disk, a dependency that was saved, entries that are too old.  A
window of one thread makes a package with two sources overflow it, and a window
of two in `clib_build` lets the cycle be entered by both siblings at once.
Forced commands are among the command lines: clib-update on the cycle walks it
until the stack is full, at eight calls in the runs, which is twice round the
cycle.  A buffer
of four characters cuts texts of five everywhere, prompt included.  The archives
have every length of comment from none to the longest, scaled to three, and
pictures that are shorter than what the search would seek over.

**Deadlock** is checked in the runs of hw11, hw3 and hw13.  The daemons of hw9
wait for events, and a model that has used up its changes rightly stops; the
programs of clib and the small ones come to their end, and `CommandsEnd`,
`BuildEnds` and `TelnetEnds` say that they do not stop before.

### Bounds that are in the modules
`MaxCnt` and `Vocabulary` (HashMap), `MaxWords` (TopInstances), `MaxChanges`,
`MaxSize` (FileMonitor), `MaxHangups` (PidFile) and `MaxStack` (ClibInstall) bound
what would not end.
`WORD` and `MAX_MSG_LENGTH` are scaled from 8 and the buffer of the code to 2
and 4: two messages fit, as `recv` needs to meet a full buffer.

`ClibInstall`: `MaxCommands` commands; `MaxFaults` kinds of failure, each once,
except that requests for manifests may go on failing; between two commands either
time passes or the user deletes the directory, not both.  Packages have distinct
names, a kill does not cut the write of a manifest, and `prefix`, `token`, tags and versions
are left out.  `ClibBuild`: `MaxMissing` manifests get lost, and threads can
always be created.  `RecordSize`, `HeaderSize` and `UINT16_MAX` of ArchiveFinder
are scaled to 2, 3 and 3.

## 4. Fairness

Only the scheduler is assumed to be fair, never an event from outside.

* `ParallelLogs!FairSpec`: every thread that can take a step eventually takes
  one.  A worker that finds a file locked spins, and fairness of the holder is
  what ends that.
* `HTTPExchange!FairSpec`: the main thread, every worker, and every client that
  waits for data and has some.  No client has to connect, to send, or to send the
  rest of its request.
* `ClibInstall!FairSpec`: the main thread and the fetching threads; a transfer
  ends, well or badly.  `ClibBuild!FairSpec`: some task that can go on does, which
  is enough since none of them waits by spinning.  No command has to be given.
* `Telnet!TelnetFairness`: the client goes on when it can; the server sends its
  texts to the end.
* `MyDaemon!FairSpec`: every daemon and the server.  No change of the file, fault
  or SIGHUP has to happen.

## 5. What is proved

TLAPS checks the theorems for all values of the constants that satisfy the named
assumptions (at least one thread, natural numbers of lines, a package of at
least one line, and so on).

**ParallelLogsProofs.**  The theorem `Inductive` proves `IndInv`, the conjunction of

* `MainInv`: what the place of the main thread says of files and workers;
* `FileInv`: a worker between lock and unlock owns the mutex and, while it reads,
  the file is not done; a done file was read to its end;
* `ScanInv`: a scan that has not counted an unfinished file has passed finished
  files only, which is why a worker may leave when the count is 0;
* `BufferInv` and `MergeInv`: who has lines, and what is left to merge;
* `NeverTwice` and `NeverLost`: each line is in exactly one place.

None of the conjuncts is inductive alone: that a done file is not read needs the
owner of the mutex, that lines are not lost at the merge needs the joins, and
that the printed statistics are complete needs the end of every scan.  From
`IndInv` follow the invariants (`Exclusion`, `SecondCheckSuffices`,
`FinishedFilesAreRead`, `NobodyGivesUp`, `JoinSuffices`, `CountedAtMostOnce`,
`NoLineIsLost`, `PrintedStatisticsAreComplete`), the action properties
(`FinishedStaysFinished`, `PositionIsProtected`) and `ImplementsLogCounting`:
every step maps to a step or a stutter of `LogCounting`.

**HTTPProofs.**  `PoolInvariant` proves the conjunction `PoolInv` of

* `MainInv`: the main thread holds a descriptor from `RunWorker` until a thread
  has it, and a batch of events names a descriptor once;
* `SlotInv`: what the two flags of a slot say of its thread, also in the middle
  of `FindFreeWorker`;
* `ServeInv` and `OwnerInv`: the descriptor of a client is in one of four hands
  (kqueue, the batch, the main thread, one worker), and a file in one worker's;
* `ConnectionInv`: a client is in the accept queue or under one descriptor.

`OneOwner` alone is not inductive: that `close` frees a number nobody else
holds needs the one-shot events, that a worker gets a number which is its
client's needs the slots, and that `accept` gives out a free one needs that no
client has two.  It gives `EveryDescriptorHasOneOwner`,
`WorkersServeTheirClients` and the action property `SlotsAreNotShared`, for any
number of slots, descriptors and clients, which may be killed at any time.

The second half of the module is about what clients are told.  `Stream(c)` is all
that c was ever sent: what it has parsed and saved, and what is on its way.  The
invariant `AnswerInv` says

* `StreamInv`: a stream is an `Answer`, that is nothing, one error line, or the
  header of a regular file and a beginning of that file; it is empty until a
  worker sends, and a connection that no worker serves and that is not closed
  has an empty one;
* `ClosedInv`: a connection that was closed does not come back, so no second
  worker can append to a stream;
* `TokensOK` for each worker: the file that it has verified is one that others may
  read, and it sends the size and the chunks of that file.  The words need not be
  those of its own client, as `strtok_last` is one position for all threads;
* `ClientInv` and `DiskInv`: what the place of a client says of what it has parsed,
  and that files are only removed.

From it follows `AnswersAreWholeAlways`, for any number of slots: each client is
sent one error or one header and a beginning of the file that the header
announces.  Nothing is assumed of the number of workers.  The client is told
whole answers, but not that they are to its own request: that is false, as
`http_mixed` shows, and `SavedIsWhole`, which says whose file it is, is checked
with one slot only.

**ClibBuildProofs.**  A thread is named by the path that leads to it, so the
proofs speak of all paths.  `BuildInvariant` says of each pair of a thread and
one below it (`StartedBy`) which manifest name the upper one had handled when
it started the lower one, that its mark was set before, and that the lower one
has not passed the check of that mark if it handles the same package; from
this `NoneIsBuiltBelowItself`, for any graph of dependencies.  `Windows` (a
thread is in the window of another) gives `ThreadsAreJoined`.
`EverythingIsHandled` needs `WalkInv`: what a marked package depends on has a
mark, or is in the hand of a thread, or is ahead in the list of the thread that
set the mark; at the end nothing is in hand or ahead, and an induction over the
number of dependencies that lead to a package (`Iteration`) concludes that all
that are needed have marks.  Both are for histories in which no manifest was
missing, as the code is known to fail otherwise (section 6).

**ClibInstallProofs.**  The proofs never go through the steps of the four
recursive functions one property at a time: each step of the main thread is first
shown to be one of four moves of the stack (`Stays`, `Calls`, `Returns`, `Ends`),
each step of a thread to move one record, and the invariants are carried by moves.

* `CallsAndObjects`: `CallInv` says that each frame is there because the one below
  called it, and is at the place where it waits for that; `ObjectInv` that no two
  frames install with the same object, and that neither results nor the lists of
  packages to be freed name an object before `clib_package_install` has returned.
* `ThreadsAreJoined`: `WindowInv` says that every thread of a package with room for
  all of them belongs to the frame on top, which is going to join it: it has a
  slot of its own in that frame's window, or is the one of the makefile.  So its
  package is in use.
* `MissingManifestsAreReported`: `MissingInv` follows the failure through every
  level, as the result that the frame on top has just been given at a place where
  it passes failures on, to the exit code; at any depth, whatever else fails,
  except where the code drops it: the arguments "." and regular files, and the
  second local manifest (section 6).
* `CachedPackagesAreWhole`: `CopyInv` says that without faults a file is spoilt only
  while a thread writes it, that what `clib_package_install` is past is there or is
  brought by a thread it will join, and so that a copy, which goes from file to
  file, is made of whole files and leaves whole ones.
* `CleanInstallsAreWhole`: `CleanInv` follows the recursion downwards, while nothing
  has gone wrong.  `Stacked`: each function on the stack has seen to what it is
  `Owed` up to its place, the one that was called last has `Succeeded`, and every
  dependency of a marked package is `Due`, that is marked or ahead in the list of
  some function on the stack, unless that package is still before its dependencies.
  `OnDisk`: every marked package is whole on the disk or is being fetched by the
  frame on top.  A mark is set before the dependencies are looked at, so a
  cycle finds its packages marked and unfinished; what makes this sound is that
  their list stays on the stack until it is through (`DueStays`, `StackGoesOn`).
  When the exit code is zero the stack is empty: what was due is marked, the marks
  are closed under dependencies, and an induction over the levels of `Needed`
  concludes.  The proof rests on `CopyInv` (a package found in the cache is whole)
  and `WindowInv` (a package that returns has joined its threads), and TLC checked
  `CleanInv` before.  The attempt showed that the property had no meaning when
  the first local manifest cannot be read and the second one can, since it
  looked into the first; `Listed` now takes the first that can be read.

The assumptions are that of the command lines and manifests that can be parsed at
all: lists of names; arguments that the server has, the project itself or regular
files; finitely many packages (`Needed` counts them).  Nothing
else is assumed of the graph of dependencies, nor of the number of threads, or of
names of sources being distinct.

**MonitorProofs.**  Both halves of hw9, for any numbers of daemons, restarts,
servers and crashes.  The first part is about the PID file alone:

* `TypeCorrect`, and `AtMostOneDaemon`, since the lock names its holder and a
  daemon past the lock is that holder; `LiveDaemonsBlock`: a daemon gives up only
  because of a living one;
* `HolderWrites`: only the holder changes the file; `FileIsFresh`: until the first
  SIGHUP it has the pid of the daemon that runs.

The second part is about the composition.

* `ImplementsPidFile`: the composed program implements `PidFile`, so the theorems
  of the first part hold of the whole.
* `OneReports`: only a daemon past the lock has a connection (`MonitorInv`), so at
  most one daemon reports.
* `MonitorTypeCorrect`: types, and what each place of a program says of the
  variables that are uninitialised before it.
* `ServersTakeTurns`: a daemon is in the queue of one server, and those before
  it have ended.  This rests on `OneReports`, so on the lock of the PID file.
* `MessagesAreFound`: bytes in stream and buffer are messages from the beginning
  on (`Aligned`), whole ones unless a daemon was cut off in `send` (`Whole`).
* `SizesArePrintedInOrder`: `SizesInv` orders all that is on its way, from any
  daemon to any server, and bounds it by what daemons are about to send.
* `QuietServerKnows`: `WatchInv` and `SentInv` relate the size remembered, the
  size sent, the size of the file and the events that wait: the size sent is the
  present one unless an event that says otherwise is in the queue.

The last two assume `Growing`, without which they are false (section 6); the
second and the last assume `BufferHoldsWords`, that `MAX_MSG_LENGTH` is a
multiple of `WORD`, as the 256 bytes of `Server.c` are of `sizeof(ssize_t)`;
otherwise a `recv` could leave part of a message behind a full buffer.  Both
hold in the configuration of `daemon_locked`.

**HashMapProofs.**  For any words, hashes, sizes and results of `rand`.  A table is
right (`MapOK`) when `Find` returns the bucket of each word it stores and
`used_nodes` counts the buckets in use.  `OneBucket` is the heart of it: when the
bucket where the search for one word ends gets that word, the search for every
other stored word still ends where it did, since it either misses the bucket or
passes it as used by another word.  `PutWorks` and `RemoveWorks` apply this to
`Insert` and `Remove`, and `DoubledWorks` to the empty table of an expansion.  The
invariant `HashInv` says that both tables are right and at most half full, and
(`Moving`) that what an expansion has moved and what it has not fill at most half
of the new table.  Each part needs the others: without the last one an expansion
could expand again in the middle of its loop, and `StoredIsFound` alone says
nothing of the old table, in which no word may be twice.  TLC has checked
`HashInv` on the instance of `map_safety`.  From it follow

* `EveryStoredWordIsFound` and `NoExpansionIsNested`;
* `ImplementsWordCounter`, one lemma for each action (`InsertCounted` and so on):
  a round of an expansion or a merge moves a word from one of the terms of
  `CountOf` to another, and the numbers stay;
* `RoomWhereStridesReach`: no call ends the process, if the strides of each step
  reach all positions of the tables that doubling makes (`StridesReach`).  That
  is what a step without a common divisor with the size does; section 6 tells
  what happens with the others.

`StepsAssumption` says that the search of `GenerateStep` for a prime ends below
twice its start; this is Bertrand's postulate, and TLC evaluates it.

**ToolsProofs.**  The small programs, for inputs of any length.

* `TheAnswerIsPrinted`: `TelnetInv` says that what is on the wire is the rest of
  the text under way and that what was printed is its beginning.  The heart is
  `LastPiece`: a piece is taken for the last one exactly if it is, given that the
  only dot of the text is in its prompt.  `TelnetTexts` assumes that the server ends
  both texts with the prompt.
* `UpperPlacesAreRight`: in a full table at most one slot has a word with a lesser
  count than one that was `Lost` (`OneWrong` in `TopInv`), namely that of the last
  word if it is the least, and the next word takes that slot.  The rank of each
  upper place then follows from the sorting by counting words (`AtMost`, `AtLeast`).
* `AllEntriesAreListed`: `ArchiveInv` says that the search has not passed the
  comment of an archive, and that the headers listed are those `ListedBefore` the
  place.  `HeadersOfArchive` is what this needs to know of the format: in a file
  without stray headers one begins exactly where an entry does.  It rests on
  `Grows`, by which the recursive function of the directory is unfolded one entry
  at a time.
* `TheTextIsKept`: `ConverterInv` says that the file so far is read as the mark of
  byte order and the characters of the bytes that were converted.  `PrintedOctets`
  is the arithmetic of the shifts, `ReadsCharacter` that a reader gets back what
  was written, whether in one, two or three octets, and `LettersOfEncodings` the
  three tables.  `Reads` speaks of every solution of the recursion in `Reader`
  up to the present end of the file, so each step adds the octets of one
  character and no induction over the length is needed.  It assumes that files are
  sequences of bytes.

**DataLemmas**: the least number of a set (`LeastNumber`), a fact that a step
carries on holds for every number of steps (`Iteration`), and what removing an
element of a sequence leaves.

**Only model-checked:** the liveness properties (`CommandsEnd`, `ChangesArePrinted`
and so on), since fairness and `ENABLED` are out of the reach of the prover, and of
`CountingSpec` the part that is fairness; of the safety properties
`SavedIsWhole`, which needs one slot, and `NotWithinItself` and
`OnlyLoadsOverwrite` of clib_install.  The other invariants and action
properties of the runs that pass are theorems.  `RECURSIVE` operators would be out of
reach too; no module here declares one.  The library's induction
theorems cannot be cited; induction is possible where the fact can be stated as
one formula about a number, as in `Iteration` and `LeastNumber`.

## 6. Where the code does something else than it says

Runs that end in a violation show three:

1. `HTTP.c:22`: `strtok` in several threads (`http_mixed`).
2. `Daemonizer.c:35`: the PID file after SIGHUP (`pid_hangup`).
3. `clib-package.c:374` and `:1491`: failures that are not -1, or that happen in a
   fetching thread, do not reach the exit code (`clib_exit_zero`).

Met while modelling, and excepted in the properties or described here only:

* `CombinedLog.c:98`: one line without a size ends the program with status 0 and
  no statistics.
* `main.c:93` of hw11: when the top table is full the next word replaces the
  least one without a comparison; `UpperPlacesRight` leaves the last place out.
* `LogsProcessor.c:101` takes a read error for the end of a file, which is then
  "done" without having been read; `DoneMeansRead` and `PrintedIsComplete` except
  such files.
* `HashMap.c:24`: a step that shares a factor with the size of the table makes
  `Find` return `NULL` before the table is full, against `HashMap.h:92`;
  `RoomForEveryWord` is checked with steps that do not.
* `Worker.c:81`: a file that is larger than the free send buffer does not arrive,
  since `EAGAIN` ends the loop; `SavedIsWhole` says that the client notices.
* `Worker.c:104` tests the permission of others, not of the server, so a file
  that the server cannot open is answered with 400, not 403.
* `FileInfoMonitoring.c:87`: the size that is remembered is not the size that is
  sent.  A size may be sent twice, and when the file shrinks again in time the
  server keeps an old one; `ServerKnowsTheSize` is checked for files that grow.
* `FileInfoMonitoring.c:83`: `IN_DELETE` is not sent for a watched file, so a
  daemon whose file is deleted waits for ever (`ChangesArePrinted` excepts it).
* `clib-package.c:1485`: when the window is full the thread that fills it is left
  out of the joins and its place is used again, so it may outlive its package;
  `CleanInstallIsWhole`, `CachedIsWhole` and `NoUseAfterFree` except packages with
  more sources than threads (`Joined`).
* `clib-package.c:944` and `clib-cache.c:157`: a source that a kill or a failed
  transfer cut off, and a directory that was copied to the cache in part, are
  there, and later commands without `--force` trust them.  `CleanInstallIsWhole`
  and `CachedIsWhole` speak of histories without failures.
* `copy.c:17`: a load from the cache empties and rewrites sources that are there in
  whole, though `--force` is not given, and does not look at the result of the
  write: after a full disk a copy counts as made, to the cache or from it, and a
  kill in the middle of a load spoils a source that was whole.
  `OnlyLoadsOverwrite` excepts loads, and manifests, which are written anew each
  time, also when a source has that name.
* `clib-package.c:1301`: with force the check of `visited_packages` is skipped, so
  clib-update, which always forces, and `clib-install --force` recurse without
  end in packages that depend on each other.  `CommandsEnd` and
  `NotWithinItself` except forced commands.
* `clib-package.c:1382`: a package is marked before it is fetched and stays marked
  when that fails; who needs it next takes it for installed.
* `clib-install.c:174`: `install_local_packages` never returns -1, so that
  clib-install with the argument "." hides its failures, and neither does
  `install_local_packages_with_package_name` for an argument that is a regular
  file (`clib-install.c:286`, `clib-update.c:224`); `MissingIsReported` excepts both.
* `clib-install.c:182`: when the dependencies of `clib.json` cannot be installed
  the second manifest is tried, and its success hides the failure.  With two
  local manifests and no arguments `MissingIsReported` therefore promises nothing;
  the attempt to prove it without this exception is what showed it.
* `clib-build.c:299`: the result of make is overwritten by that of
  `pthread_mutex_lock`, so a build that fails counts as one that succeeded;
  `AllAreHandled` therefore speaks of commands that have run.
* `clib-build.c:348`: a dependency without a manifest ends the walk past the
  joins; the threads go on with a `wrap` on a stack that is gone.  In the loop over
  development, and in clib-configure (`clib-configure.c:295`), the null pointer is
  used instead.  `NoOrphans` excepts runs that lost a manifest.
* `clib-build.c:723`: of an argument that is a regular file only the base name is
  kept, so `clib-build deps/base/clib.json` builds the `clib.json` of the current
  directory; it is not retried as a slug, as other arguments are.  `AllAreHandled`
  therefore takes the current directory for the place of such an argument.
* `clib-build.c:706`, `:711`: ".", a directory by its relative name, and a name
  below `opts.dir` have paths of their own in `built`, so one directory may be
  built twice; `NotBelowItself` means paths.  Only the result of the last argument
  is the exit code (`:726`), so the failure of an earlier one is hidden;
  `AllAreHandled` excepts arguments that are not there (`Found`).
* `clib-build.c:260` declares a second `clean`, so `--clean` never cleans, and
  options given before the arguments shift them.
* `main.c:103` of hw2 tests `input_path` instead of `input_file`, so an input that
  cannot be opened is read through a null pointer; the model begins with open
  files.
* `main.c:153` of hw12: `printf("%s")` prints a piece up to its first NUL byte only,
  and a piece that fills the buffer is terminated one byte behind it.  The texts of
  the model have no NUL bytes, and the byte behind the buffer is nobody's.
* `main.c:59` of hw12 never looks beyond the second address and repeats it for
  ever (`TelnetEnds` excepts such lists); a dot that happens to be a whole piece is
  taken for the prompt (`AnswerIsPrinted` excepts texts with other dots).
* `koi8.c:24` has U+0482 where U+0428 belongs, so that one capital letter is lost,
  which `TextIsKept` states; `InitISO8859Encoding` gives U+040D for byte AD, a soft
  hyphen in the standard.

## 7. What is not modelled, and the plan

Not modelled in the programs above: memory (allocation failures, leaks), the bytes
of log lines and requests (so not the terminator behind a full request buffer,
`Worker.c:184`), log files that grow while they are read, the creation of the
server socket and the configuration file, two servers on one socket path,
programs that remove the PID file from `/tmp`, manifests that a kill cut off,
failures to create a thread in clib-build, arguments of clib-build that begin
with a dot and name another directory than ".", the parsing of the arguments of
all programs, and files that a program cannot open when it begins.

The tables of `TextConverter` are there in full, since `TextIsKept` compares the
output of every byte, and it was a single entry of `koi8.c` that was wrong.

Not modelled at all, and why:

* **clib-search, clib-init, clib.c**: sequential, no state of their own.
* **hw6-Logger**: formats a message and writes it; its state is one pointer.
* **hw10-CRC32**: one pass with a table of 256 words.  The only property is the
  value itself, which is no matter of states.
* **hw14-Databases**: two queries and a pass; its hazard is the overflow of 64-bit
  sums, beyond the integers of TLC.
* **hw7-Assembly**: prints a constant list and its odd elements.
* **hw5**: one request through libcurl, printed.
* **hw4, hw15**: a GStreamer plugin and an OpenGL drawing, whose control is in the
  libraries.
* **TestClient.c** of hw9: sends typed text that is not the protocol.

What comes next is what the models leave out: in hw9 a second server on the same
socket (`Server.c:27`), in hw13 the lengths of requests in bytes (`Worker.c:184`);
and the proofs of `NotWithinItself` and `OnlyLoadsOverwrite`, for which the moves
of `ClibInstallProofs` are there.
