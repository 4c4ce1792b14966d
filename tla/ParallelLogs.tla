---------------------------- MODULE ParallelLogs ----------------------------
(***************************************************************************)
(* The multithreaded log processor of hw11-ParsingLogs.  The main thread   *)
(* opens the log files, creates n_threads workers, joins them in order and *)
(* merges their statistics.  Every worker scans the files for one that is  *)
(* neither finished nor locked, reads at most LOGS_BUFFER_LIMIT lines of   *)
(* it under its mutex, and processes them after the unlock.                *)
(*                                                                         *)
(* An action is one access to memory that another thread can see           *)
(* (an atomic load or store, a trylock, an unlock, one getline on the      *)
(* shared FILE) or one line processed privately.                           *)
(*                                                                         *)
(* A LogsStatistics is abstracted to the bag of the lines added to it: each*)
(* of its four fields (logs, bytes, URL weights, referers) is a sum over   *)
(* that bag, and CombineTwoLogsStatistics adds two of them field by field. *)
(* The hash maps that hold two of the fields are modelled in HashMap.      *)
(***************************************************************************)
EXTENDS Integers, Sequences

CONSTANTS
    NThreads,           \* n_threads, the second argument of the program
    FilesN,             \* files_n, the number of regular files found
    LineCount,          \* LineCount[f]: how many lines file f has
    NoSize,             \* lines that end before the size of the answer (%b)
    NoReferer,          \* lines that have a size and end before the referer
    ReadErrors,         \* files whose getline may fail before their end
    LOGS_BUFFER_LIMIT   \* lines a worker reads before it unlocks a file

Threads == 1 .. NThreads
Files == 1 .. FilesN
Lines == UNION {{f} \X (1 .. LineCount[f]) : f \in Files}

ASSUME ThreadsAssumption == NThreads \in Nat \ {0}
ASSUME FilesAssumption == FilesN \in Nat
ASSUME LineCountAssumption == LineCount \in [Files -> Nat]
ASSUME LinesAssumption == NoSize \subseteq Lines /\ NoReferer \subseteq Lines
ASSUME KindsAssumption == NoSize \cap NoReferer = {}
ASSUME ReadErrorsAssumption == ReadErrors \subseteq Files
ASSUME LimitAssumption == LOGS_BUFFER_LIMIT \in Nat \ {0}

NoThread == 0
None == [l \in Lines |-> 0]     \* empty LogsStatistics

VARIABLES
    \* the process and its main thread
    status,             \* "running", or how the process has ended
    main_pc,            \* where the main thread is
    main_i,             \* the index i of its current loop
    \* files: FileWithMutex[files_n]
    file,               \* "raw" before FileWithMutexInit, "open", "closed"
    pos,                \* lines already read through the shared FILE
    done,               \* atomic_bool done
    mutex,              \* the thread that holds the mutex, or NoThread
    \* the workers
    pc,                 \* where each worker is
    i,                  \* index of the scan, then file_id
    not_finished_cnt,   \* local of FindReadyFileAndLock
    buffer,             \* the first buffer_length entries of buffer[]
    line_i,             \* index of the next line of buffer to process
    \* statistics
    processors_results, \* one LogsStatistics per worker
    total_result        \* the merged one

mainVars == <<main_pc, main_i>>
fileVars == <<file, pos, done, mutex>>
localVars == <<i, not_finished_cnt, buffer, line_i>>
statVars == <<processors_results, total_result>>
vars == <<status, mainVars, fileVars, pc, localVars, statVars>>

-----------------------------------------------------------------------------
Init == /\ status = "running"
        /\ main_pc = "list" /\ main_i = 1
        /\ file = [f \in Files |-> "raw"]
        /\ pos = [f \in Files |-> 0]
        /\ done = [f \in Files |-> TRUE]
        /\ mutex = [f \in Files |-> NoThread]
        /\ pc = [t \in Threads |-> "none"]
        /\ i = [t \in Threads |-> 1]
        /\ not_finished_cnt = [t \in Threads |-> 0]
        /\ buffer = [t \in Threads |-> <<>>]
        /\ line_i = [t \in Threads |-> 1]
        /\ processors_results = [t \in Threads |-> None]
        /\ total_result = None

(* The process ends: no thread takes another step.                         *)
End(how) == status' = how /\ UNCHANGED <<mainVars, fileVars, pc, localVars, statVars>>

-----------------------------------------------------------------------------
(* Mistakes that TLC must be able to see: what the steps of the same name  *)
(* would be with one error in them.                                        *)

(* Ignore that the mutex is taken.                                         *)
MutTryLock(t) ==
    /\ status = "running" /\ pc[t] = "trylock"
    /\ mutex' = [mutex EXCEPT ![i[t]] = t]
    /\ pc' = [pc EXCEPT ![t] = "recheck"]
    /\ UNCHANGED <<status, mainVars, file, pos, done, localVars, statVars>>

(* Trust the first check of done.                                          *)
MutRecheckDone(t) ==
    /\ status = "running" /\ pc[t] = "recheck"
    /\ pc' = [pc EXCEPT ![t] = "read"]
    /\ UNCHANGED <<status, mainVars, fileVars, localVars, statVars>>

(* Advance the index before continue advances it again.                    *)
MutSkipFinished(t) ==
    /\ status = "running" /\ pc[t] = "skip"
    /\ mutex' = [mutex EXCEPT ![i[t]] = NoThread]
    /\ i' = [i EXCEPT ![t] = @ + 2]
    /\ pc' = [pc EXCEPT ![t] = "check"]
    /\ UNCHANGED <<status, mainVars, file, pos, done, not_finished_cnt, buffer, line_i, statVars>>

(* Take a full buffer for a finished file.                                 *)
MutReadLimit(t) ==
    /\ status = "running" /\ pc[t] = "read"
    /\ Len(buffer[t]) = LOGS_BUFFER_LIMIT
    /\ pc' = [pc EXCEPT ![t] = "mark"]
    /\ UNCHANGED <<status, mainVars, fileVars, localVars, statVars>>

(* Forget to store done.                                                   *)
MutMarkDone(t) ==
    /\ status = "running" /\ pc[t] = "mark"
    /\ pc' = [pc EXCEPT ![t] = "unlock"]
    /\ UNCHANGED <<status, mainVars, fileVars, localVars, statVars>>

(* Keep buffer_length.                                                     *)
MutProcessEnd(t) ==
    /\ status = "running" /\ pc[t] = "process" /\ line_i[t] = Len(buffer[t]) + 1
    /\ i' = [i EXCEPT ![t] = 1]
    /\ line_i' = [line_i EXCEPT ![t] = 1]
    /\ not_finished_cnt' = [not_finished_cnt EXCEPT ![t] = 0]
    /\ pc' = [pc EXCEPT ![t] = "check"]
    /\ UNCHANGED <<status, mainVars, fileVars, buffer, statVars>>

-----------------------------------------------------------------------------
(* The main thread.                                                        *)

MainAt(place) == status = "running" /\ main_pc = place

GoTo(place) == main_pc' = place /\ main_i' = 1

(* Process: with no regular file there is nothing to run.                  *)
ListFiles ==
    /\ MainAt("list")
    /\ IF FilesN = 0
       THEN End("empty")
       ELSE /\ GoTo("open")
            /\ UNCHANGED <<status, fileVars, pc, localVars, statVars>>

(* FileWithMutexInit of file main_i.                                       *)
FileWithMutexInit ==
    /\ MainAt("open") /\ main_i \in Files
    /\ file' = [file EXCEPT ![main_i] = "open"]
    /\ done' = [done EXCEPT ![main_i] = FALSE]
    /\ main_i' = main_i + 1
    /\ UNCHANGED <<status, main_pc, pos, mutex, pc, localVars, statVars>>

AllFilesOpen ==
    /\ MainAt("open") /\ main_i = FilesN + 1
    /\ GoTo("create")
    /\ UNCHANGED <<status, fileVars, pc, localVars, statVars>>

(* pthread_create of worker main_i: it starts at once at the top of        *)
(* SingleThreadProcess, while later workers do not exist yet.              *)
CreateThread ==
    /\ MainAt("create") /\ main_i \in Threads
    /\ pc' = [pc EXCEPT ![main_i] = "check"]
    /\ main_i' = main_i + 1
    /\ UNCHANGED <<status, main_pc, fileVars, localVars, statVars>>

AllThreadsCreated ==
    /\ MainAt("create") /\ main_i = NThreads + 1
    /\ GoTo("join")
    /\ UNCHANGED <<status, fileVars, pc, localVars, statVars>>

(* pthread_join of worker main_i, in the order of their creation.          *)
JoinThread ==
    /\ MainAt("join") /\ main_i \in Threads
    /\ pc[main_i] = "exited"
    /\ main_i' = main_i + 1
    /\ UNCHANGED <<status, main_pc, fileVars, pc, localVars, statVars>>

AllThreadsJoined ==
    /\ MainAt("join") /\ main_i = NThreads + 1
    /\ GoTo("merge")
    /\ UNCHANGED <<status, fileVars, pc, localVars, statVars>>

(* CombineTwoLogsStatistics into the total, then DestroyLogsStatistics.    *)
MergeResults ==
    /\ MainAt("merge") /\ main_i \in Threads
    /\ total_result' = [l \in Lines |->
                           total_result[l] + processors_results[main_i][l]]
    /\ processors_results' = [processors_results EXCEPT ![main_i] = None]
    /\ main_i' = main_i + 1
    /\ UNCHANGED <<status, main_pc, fileVars, pc, localVars>>

AllResultsMerged ==
    /\ MainAt("merge") /\ main_i = NThreads + 1
    /\ GoTo("destroy")
    /\ UNCHANGED <<status, fileVars, pc, localVars, statVars>>

(* FileWithMutexDestroy of file main_i.                                    *)
FileWithMutexDestroy ==
    /\ MainAt("destroy") /\ main_i \in Files
    /\ file' = [file EXCEPT ![main_i] = "closed"]
    /\ done' = [done EXCEPT ![main_i] = TRUE]
    /\ main_i' = main_i + 1
    /\ UNCHANGED <<status, main_pc, pos, mutex, pc, localVars, statVars>>

(* PrintResults, and main returns 0.                                       *)
PrintResults ==
    /\ MainAt("destroy") /\ main_i = FilesN + 1
    /\ End("printed")

(* fopen, pthread_create or fclose fails: exit with an error.              *)
MainFails ==
    /\ \/ MainAt("open") /\ main_i \in Files
       \/ MainAt("create") /\ main_i \in Threads
       \/ MainAt("destroy") /\ main_i \in Files
    /\ End("error")

Main == \/ ListFiles
        \/ FileWithMutexInit \/ AllFilesOpen
        \/ CreateThread \/ AllThreadsCreated
        \/ JoinThread \/ AllThreadsJoined
        \/ MergeResults \/ AllResultsMerged
        \/ FileWithMutexDestroy \/ PrintResults
        \/ MainFails

-----------------------------------------------------------------------------
(* The workers: FindReadyFileAndLock.                                      *)

At(t, place) == status = "running" /\ pc[t] = place

Step(t, place) == pc' = [pc EXCEPT ![t] = place]

(* The first atomic_load of files[i].done.                                 *)
CheckDone(t) ==
    /\ At(t, "check") /\ i[t] \in Files
    /\ IF done[i[t]]
       THEN /\ i' = [i EXCEPT ![t] = @ + 1]
            /\ UNCHANGED <<pc, not_finished_cnt>>
       ELSE /\ not_finished_cnt' = [not_finished_cnt EXCEPT ![t] = @ + 1]
            /\ Step(t, "trylock")
            /\ UNCHANGED i
    /\ UNCHANGED <<status, mainVars, fileVars, buffer, line_i, statVars>>

TryLock(t) ==
    /\ At(t, "trylock")
    /\ IF mutex[i[t]] = NoThread
       THEN /\ mutex' = [mutex EXCEPT ![i[t]] = t]
            /\ Step(t, "recheck")
            /\ UNCHANGED i
       ELSE /\ i' = [i EXCEPT ![t] = @ + 1]
            /\ Step(t, "check")
            /\ UNCHANGED mutex
    /\ UNCHANGED <<status, mainVars, file, pos, done, not_finished_cnt,
                   buffer, line_i, statVars>>

(* The second check: another worker may have finished the file between the *)
(* first check and the trylock.                                            *)
RecheckDone(t) ==
    /\ At(t, "recheck")
    /\ Step(t, IF done[i[t]] THEN "skip" ELSE "read")
    /\ UNCHANGED <<status, mainVars, fileVars, localVars, statVars>>

SkipFinished(t) ==
    /\ At(t, "skip")
    /\ mutex' = [mutex EXCEPT ![i[t]] = NoThread]
    /\ i' = [i EXCEPT ![t] = @ + 1]
    /\ Step(t, "check")
    /\ UNCHANGED <<status, mainVars, file, pos, done, not_finished_cnt,
                   buffer, line_i, statVars>>

(* The end of one scan: scan again while some file was not finished, else  *)
(* return -1, upon which the worker leaves its loop and exits.             *)
EndScan(t) ==
    /\ At(t, "check") /\ i[t] = FilesN + 1
    /\ Step(t, IF not_finished_cnt[t] = 0 THEN "exited" ELSE "check")
    /\ i' = [i EXCEPT ![t] = 1]
    /\ not_finished_cnt' = [not_finished_cnt EXCEPT ![t] = 0]
    /\ UNCHANGED <<status, mainVars, fileVars, buffer, line_i, statVars>>

-----------------------------------------------------------------------------
(* ReadLogsPackage, under the mutex of file i[t].                          *)

ReadLine(t) ==
    /\ At(t, "read")
    /\ Len(buffer[t]) < LOGS_BUFFER_LIMIT
    /\ pos[i[t]] < LineCount[i[t]]
    /\ buffer' = [buffer EXCEPT ![t] = Append(@, <<i[t], pos[i[t]] + 1>>)]
    /\ pos' = [pos EXCEPT ![i[t]] = @ + 1]
    /\ UNCHANGED <<status, mainVars, file, done, mutex, pc, i, not_finished_cnt,
                   line_i, statVars>>

(* getline returns -1 at the end of the file, and on a read error too.     *)
ReadEnd(t) ==
    /\ At(t, "read")
    /\ Len(buffer[t]) < LOGS_BUFFER_LIMIT
    /\ pos[i[t]] = LineCount[i[t]] \/ i[t] \in ReadErrors
    /\ Step(t, "mark")
    /\ UNCHANGED <<status, mainVars, fileVars, localVars, statVars>>

ReadLimit(t) ==
    /\ At(t, "read")
    /\ Len(buffer[t]) = LOGS_BUFFER_LIMIT
    /\ Step(t, "unlock")
    /\ UNCHANGED <<status, mainVars, fileVars, localVars, statVars>>

(* atomic_store of done, while the mutex is still held.                    *)
MarkDone(t) ==
    /\ At(t, "mark")
    /\ done' = [done EXCEPT ![i[t]] = TRUE]
    /\ Step(t, "unlock")
    /\ UNCHANGED <<status, mainVars, file, pos, mutex, localVars, statVars>>

Unlock(t) ==
    /\ At(t, "unlock")
    /\ mutex' = [mutex EXCEPT ![i[t]] = NoThread]
    /\ Step(t, "process")
    /\ UNCHANGED <<status, mainVars, file, pos, done, localVars, statVars>>

-----------------------------------------------------------------------------
(* ProcessLogs and UpdateProcessStats on the lines of the buffer.          *)

CurrentLine(t) == buffer[t][line_i[t]]

ProcessLine(t) ==
    /\ At(t, "process") /\ line_i[t] \in 1 .. Len(buffer[t])
    /\ CurrentLine(t) \notin NoSize \cup NoReferer
    /\ processors_results' =
           [processors_results EXCEPT ![t][CurrentLine(t)] = @ + 1]
    /\ line_i' = [line_i EXCEPT ![t] = @ + 1]
    /\ UNCHANGED <<status, mainVars, fileVars, pc, i, not_finished_cnt,
                   buffer, total_result>>

(* StringToInteger(NULL) calls exit(0): the whole process ends.            *)
ProcessNoSize(t) ==
    /\ At(t, "process") /\ line_i[t] \in 1 .. Len(buffer[t])
    /\ CurrentLine(t) \in NoSize
    /\ End("exit0")

(* CopyString(NULL) calls strlen(NULL), which ends the process by a signal.*)
ProcessNoReferer(t) ==
    /\ At(t, "process") /\ line_i[t] \in 1 .. Len(buffer[t])
    /\ CurrentLine(t) \in NoReferer
    /\ End("crashed")

(* buffer_length = 0, and the next call of FindReadyFileAndLock.           *)
ProcessEnd(t) ==
    /\ At(t, "process") /\ line_i[t] = Len(buffer[t]) + 1
    /\ buffer' = [buffer EXCEPT ![t] = <<>>]
    /\ line_i' = [line_i EXCEPT ![t] = 1]
    /\ i' = [i EXCEPT ![t] = 1]
    /\ not_finished_cnt' = [not_finished_cnt EXCEPT ![t] = 0]
    /\ Step(t, "check")
    /\ UNCHANGED <<status, mainVars, fileVars, statVars>>

Worker(t) == \/ CheckDone(t) \/ TryLock(t) \/ RecheckDone(t) \/ SkipFinished(t)
             \/ EndScan(t)
             \/ ReadLine(t) \/ ReadEnd(t) \/ ReadLimit(t) \/ MarkDone(t) \/ Unlock(t)
             \/ ProcessLine(t) \/ ProcessNoSize(t) \/ ProcessNoReferer(t)
             \/ ProcessEnd(t)

-----------------------------------------------------------------------------
(* Once the process has ended nothing happens; until then some thread must *)
(* be able to move, which TLC's deadlock check verifies.                   *)
Ended == status # "running" /\ UNCHANGED vars

Next == Main \/ (\E t \in Threads : Worker(t)) \/ Ended

(* The scheduler runs every thread: none of them blocks except in          *)
(* pthread_join, and a trylock that fails is a step.                       *)
Fairness == WF_vars(Main) /\ \A t \in Threads : WF_vars(Worker(t))

Spec == Init /\ [][Next]_vars
FairSpec == Spec /\ Fairness
-----------------------------------------------------------------------------
(* Properties.                                                             *)

(* A worker holds the mutex of file i[t] exactly at these places.          *)
Locked == {"recheck", "skip", "read", "mark", "unlock"}

TypeOK ==
    /\ status \in {"running", "empty", "printed", "error", "exit0", "crashed"}
    /\ main_pc \in {"list", "open", "create", "join", "merge", "destroy"}
    /\ main_i \in Nat
    /\ file \in [Files -> {"raw", "open", "closed"}]
    /\ pos \in [Files -> Nat]
    /\ done \in [Files -> BOOLEAN]
    /\ mutex \in [Files -> Threads \cup {NoThread}]
    /\ pc \in [Threads -> {"none", "check", "trylock", "process", "exited"} \cup Locked]
    /\ i \in [Threads -> 1 .. FilesN + 1]
    /\ not_finished_cnt \in [Threads -> Nat]
    /\ buffer \in [Threads -> Seq(Lines)]
    /\ line_i \in [Threads -> Nat \ {0}]
    /\ processors_results \in [Threads -> [Lines -> Nat]]
    /\ total_result \in [Lines -> Nat]

(* Two workers never read the same FILE, whose position and buffer stdio   *)
(* keeps per file, at the same time: the mutex taken by trylock in         *)
(* FindReadyFileAndLock protects the file until SingleThreadProcess        *)
(* unlocks it.                                                             *)
MutualExclusion ==
    \A t, u \in Threads :
        t # u /\ pc[t] \in Locked /\ pc[u] \in Locked => i[t] # i[u]

(* A file whose end was reached is not read again: between the first check *)
(* of done and the trylock another worker may have finished the file, and  *)
(* the second check sees it.                                               *)
FinishedIsNotRead ==
    \A t \in Threads : pc[t] \in {"read", "mark"} => ~done[i[t]]

(* Where a line can be: not read yet, in the buffer of a worker and not    *)
(* processed, counted by a worker, or merged into the total.               *)
Unread == {l \in Lines : l[2] > pos[l[1]]}
Pending(t) == {buffer[t][n] : n \in line_i[t] .. Len(buffer[t])}
Counted(t) == {l \in Lines : processors_results[t][l] > 0}
Merged == {l \in Lines : total_result[l] > 0}
Owned(t) == Pending(t) \cup Counted(t)

(* No line is in two places.                                               *)
OnePlace ==
    /\ \A t \in Threads :
        /\ Owned(t) \cap Unread = {}
        /\ Owned(t) \cap Merged = {}
        /\ Pending(t) \cap Counted(t) = {}
        /\ \A u \in Threads \ {t} : Owned(t) \cap Owned(u) = {}
    /\ Merged \cap Unread = {}

(* No line is twice in one place.                                          *)
OnceThere ==
    /\ \A t \in Threads :
        /\ \A l \in Lines : processors_results[t][l] <= 1
        /\ \A m, n \in line_i[t] .. Len(buffer[t]) :
              m # n => buffer[t][m] # buffer[t][n]
    /\ \A l \in Lines : total_result[l] <= 1

(* No line is counted twice, neither by two workers nor by one of them nor *)
(* by the merge: a line leaves its place when it enters the next one.      *)
NeverTwice == OnePlace /\ OnceThere

(* No line is lost on its way from the file to the total.                  *)
NeverLost ==
    Lines = Unread \cup Merged \cup UNION {Owned(t) : t \in Threads}

(* A worker gives up only when every file is finished, so no file is left  *)
(* to fewer workers than the user asked for: a scan that found no file to  *)
(* lock, because other workers hold them, is repeated.                     *)
ExitMeansFinished ==
    \A t \in Threads : pc[t] = "exited" => \A f \in Files : done[f]

(* The main thread merges and destroys the statistics, and closes the      *)
(* files, when no worker can use them any more.                            *)
NoUseAfterDestroy ==
    /\ main_pc \in {"merge", "destroy"} => \A t \in Threads : pc[t] = "exited"
    /\ \A t \in Threads : pc[t] \notin {"none", "exited"} =>
           \A f \in Files : file[f] = "open"

(* The statistics that are printed count every line of the files exactly   *)
(* once (README: "Program parses all logs and prints an aggregated         *)
(* statistics"); of a file with a read error, at most once.                *)
PrintedIsComplete ==
    status = "printed" =>
        \A l \in Lines : IF l[1] \in ReadErrors THEN total_result[l] \in {0, 1}
                                                 ELSE total_result[l] = 1

(* The comment on done ("Fully read", FileWithMutex.h:16) and on the result*)
(* of ReadLogsPackage ("true if file was finished"): every line of a file  *)
(* that is finished has been read.  A read error is taken for the end of   *)
(* the file (LogsProcessor.c:101), so it holds of the other files only.    *)
DoneMeansRead ==
    \A f \in Files \ ReadErrors : file[f] = "open" /\ done[f] => pos[f] = LineCount[f]

(* Once a file is finished it stays finished and its position stands,      *)
(* until the main thread has joined the workers.                           *)
FinishedIsFinal ==
    [][\A f \in Files : file[f] = "open" /\ done[f] => done'[f] /\ pos'[f] = pos[f]]_vars

(* The position of the shared FILE moves one line at a time, and only for  *)
(* the worker that holds the mutex.                                        *)
ReadUnderLock ==
    [][\A f \in Files : pos'[f] # pos[f] =>
          /\ pos'[f] = pos[f] + 1
          /\ mutex[f] \in Threads /\ pc[mutex[f]] = "read" /\ i[mutex[f]] = f]_vars

-----------------------------------------------------------------------------
(* The invariant that makes the safety properties inductive.               *)

(* What the place of the main thread says of the files and the workers.    *)
MainInv ==
    /\ main_pc \in {"open", "destroy"} => main_i \in 1 .. FilesN + 1
    /\ main_pc \in {"create", "join", "merge"} => main_i \in 1 .. NThreads + 1
    /\ main_pc \in {"list", "open"} => \A t \in Threads : pc[t] = "none"
    /\ main_pc = "list" => \A f \in Files : file[f] = "raw"
    /\ main_pc = "open" =>
          \A f \in Files : file[f] = IF f < main_i THEN "open" ELSE "raw"
    /\ main_pc \in {"create", "join", "merge"} => \A f \in Files : file[f] = "open"
    /\ main_pc = "create" => \A t \in Threads : t >= main_i => pc[t] = "none"
    /\ main_pc = "join" => \A t \in Threads : t < main_i => pc[t] = "exited"
    /\ main_pc \in {"merge", "destroy"} => \A t \in Threads : pc[t] = "exited"
    /\ status = "printed" => main_pc = "destroy"

(* A worker in its critical section owns the mutex of the file it has      *)
(* found, and that file is not finished while it reads it.                 *)
LockInv ==
    \A t \in Threads :
        /\ pc[t] = "trylock" => i[t] \in Files
        /\ pc[t] \in Locked => i[t] \in Files /\ mutex[i[t]] = t
        /\ pc[t] \in {"read", "mark"} => ~done[i[t]]
        /\ pc[t] = "mark" => pos[i[t]] = LineCount[i[t]] \/ i[t] \in ReadErrors

(* Who may touch a file, and how far it was read when it is finished.      *)
FileInv == LockInv /\ DoneMeansRead /\ \A f \in Files : pos[f] <= LineCount[f]

(* A scan that has counted no unfinished file has passed finished ones.    *)
ScanInv ==
    \A t \in Threads :
        /\ pc[t] = "none" => i[t] = 1
        /\ pc[t] \in {"trylock", "recheck", "skip"} => not_finished_cnt[t] > 0
        /\ pc[t] = "check" /\ not_finished_cnt[t] = 0 =>
              \A f \in Files : f < i[t] => done[f]
        /\ pc[t] = "exited" => \A f \in Files : done[f]

(* A worker has a package only from its read to the end of its processing, *)
(* and it is never longer than the buffer.                                 *)
BufferInv ==
    \A t \in Threads :
        /\ pc[t] \notin {"read", "mark", "unlock", "process"} => buffer[t] = <<>>
        /\ pc[t] # "process" => line_i[t] = 1
        /\ line_i[t] <= Len(buffer[t]) + 1
        /\ Len(buffer[t]) <= LOGS_BUFFER_LIMIT

(* What is left to merge, and that nothing is left to read.                *)
MergeInv ==
    /\ main_pc = "merge" =>
          \A t \in Threads : t < main_i => \A l \in Lines : processors_results[t][l] = 0
    /\ main_pc = "destroy" =>
          \A t \in Threads : \A l \in Lines : processors_results[t][l] = 0
    /\ main_pc \in {"merge", "destroy"} =>
          \A f \in Files \ ReadErrors : pos[f] = LineCount[f]

IndInv == /\ TypeOK /\ MainInv /\ FileInv /\ ScanInv /\ BufferInv /\ MergeInv
          /\ NeverTwice /\ NeverLost

-----------------------------------------------------------------------------
(* The log processor implements LogCounting: a line is counted when the    *)
(* worker that read it adds it to its statistics, and the merged           *)
(* statistics are published when they are printed.                         *)

Readable == {l \in Lines : l[1] \notin ReadErrors}
InStatistics == Merged \cup UNION {Counted(t) : t \in Threads}
Outcome == IF status \in {"running", "printed"} THEN status ELSE "stopped"
Published == IF status = "printed" THEN total_result ELSE None

Counting == INSTANCE LogCounting WITH
    Required <- Readable, counted <- InStatistics,
    outcome <- Outcome, result <- Published

CountingSafety == Counting!AbsInit /\ [][Counting!AbsNext]_(Counting!absVars)
CountingSpec == Counting!AbsSpec
=============================================================================
