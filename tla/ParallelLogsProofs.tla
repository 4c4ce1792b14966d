------------------------- MODULE ParallelLogsProofs -------------------------
(***************************************************************************)
(* Proofs about ParallelLogs, for any number of workers, files and lines   *)
(* and any package size.                                                   *)
(***************************************************************************)
EXTENDS ParallelLogs, TLAPS

PlaceType == [Threads -> {"none", "check", "trylock", "process", "exited"} \cup Locked]

(* A line is a pair of its file and its number in that file.               *)
LEMMA LinesFacts ==
    /\ \A l \in Lines : l[1] \in Files /\ l[2] \in 1 .. LineCount[l[1]] /\ l = <<l[1], l[2]>>
    /\ \A f \in Files : \A k \in 1 .. LineCount[f] : <<f, k>> \in Lines
BY DEF Lines

(* The types of threads, files and the positions behind the last of them.  *)
LEMMA IndexFacts ==
    /\ NThreads \in Nat /\ FilesN \in Nat /\ 1 \in 1 .. FilesN + 1
    /\ NoThread \notin Threads
    /\ \A t \in Threads : t \in Nat /\ t + 1 \in Nat
    /\ \A f \in Files : f \in Nat /\ f + 1 \in Nat /\ f \in 1 .. FilesN + 1 /\ f + 1 \in 1 .. FilesN + 1
BY ThreadsAssumption, FilesAssumption DEF Threads, Files, NoThread

(* Counting one element more keeps the type of a counter.                  *)
LEMMA OneMore ==
  ASSUME NEW S, NEW f \in [S -> Nat], NEW x
  PROVE  [f EXCEPT ![x] = @ + 1] \in [S -> Nat]
<1> DEFINE g == [y \in S |-> IF y = x THEN f[x] + 1 ELSE f[y]]
<1>1. [f EXCEPT ![x] = @ + 1] = g
  OBVIOUS
<1>2. \A y \in S : g[y] \in Nat
  OBVIOUS
<1>3. g \in [S -> Nat]
  BY <1>2
<1> QED
  BY <1>1, <1>3

(* The index of a worker is that of a file from the trylock to the unlock. *)
IndexInv == \A t \in Threads : pc[t] \in {"trylock"} \cup Locked => i[t] \in Files

TypeInv == TypeOK /\ IndexInv

(* The initial states are well typed.                                      *)
LEMMA TypeInvInit == Init => TypeInv
BY IndexFacts DEF Init, TypeInv, TypeOK, IndexInv, None, Locked

(* The steps of the main thread keep the types.                            *)
LEMMA TypeInvMain == TypeInv /\ Main => TypeInv'
<1> SUFFICES ASSUME TypeInv, Main PROVE TypeInv'
  OBVIOUS
<1> USE IndexFacts DEF TypeInv, TypeOK, IndexInv, Locked, MainAt
<1>1. CASE ListFiles
  BY <1>1 DEF ListFiles, GoTo, End, mainVars, fileVars, localVars, statVars
<1>2. CASE FileWithMutexInit
  BY <1>2 DEF FileWithMutexInit, localVars, statVars
<1>3. CASE AllFilesOpen
  BY <1>3 DEF AllFilesOpen, GoTo, fileVars, localVars, statVars
<1>4. CASE CreateThread
  BY <1>4 DEF CreateThread, fileVars, localVars, statVars
<1>5. CASE AllThreadsCreated
  BY <1>5 DEF AllThreadsCreated, GoTo, fileVars, localVars, statVars
<1>6. CASE JoinThread
  BY <1>6 DEF JoinThread, fileVars, localVars, statVars
<1>7. CASE AllThreadsJoined
  BY <1>7 DEF AllThreadsJoined, GoTo, fileVars, localVars, statVars
<1>8. CASE MergeResults
  BY <1>8 DEF MergeResults, None, fileVars, localVars
<1>9. CASE AllResultsMerged
  BY <1>9 DEF AllResultsMerged, GoTo, fileVars, localVars, statVars
<1>10. CASE FileWithMutexDestroy
  BY <1>10 DEF FileWithMutexDestroy, localVars, statVars
<1>11. CASE PrintResults
  BY <1>11 DEF PrintResults, End, mainVars, fileVars, localVars, statVars
<1>12. CASE MainFails
  BY <1>12 DEF MainFails, End, mainVars, fileVars, localVars, statVars
<1> QED
  BY <1>1, <1>2, <1>3, <1>4, <1>5, <1>6, <1>7, <1>8, <1>9, <1>10, <1>11, <1>12 DEF Main

(* The two branches of CheckDone and of TryLock, without the rest.         *)
LEMMA CheckDoneStep ==
  ASSUME NEW t \in Threads, CheckDone(t)
  PROVE  /\ pc[t] = "check" /\ i[t] \in Files
         /\ UNCHANGED <<file, pos, done, mutex, buffer, line_i, processors_results>>
         /\ \/ /\ done[i[t]]
               /\ i' = [i EXCEPT ![t] = i[t] + 1]
               /\ UNCHANGED <<pc, not_finished_cnt>>
            \/ /\ ~done[i[t]]
               /\ not_finished_cnt' = [not_finished_cnt EXCEPT ![t] = not_finished_cnt[t] + 1]
               /\ pc' = [pc EXCEPT ![t] = "trylock"]
               /\ UNCHANGED i
<1>1. CASE done[i[t]]
  BY <1>1 DEF CheckDone, At, Step, fileVars, statVars
<1>2. CASE ~done[i[t]]
  BY <1>2 DEF CheckDone, At, Step, fileVars, statVars
<1> QED
  BY <1>1, <1>2

(* What pthread_mutex_trylock does: the mutex is taken when it is free,    *)
(* else the scan goes on.                                                  *)
LEMMA TryLockStep ==
  ASSUME NEW t \in Threads, TryLock(t)
  PROVE  /\ pc[t] = "trylock"
         /\ UNCHANGED <<file, pos, done, not_finished_cnt, buffer, line_i, processors_results>>
         /\ \/ /\ mutex[i[t]] = NoThread
               /\ mutex' = [mutex EXCEPT ![i[t]] = t]
               /\ pc' = [pc EXCEPT ![t] = "recheck"]
               /\ UNCHANGED i
            \/ /\ i' = [i EXCEPT ![t] = i[t] + 1]
               /\ pc' = [pc EXCEPT ![t] = "check"]
               /\ UNCHANGED mutex
<1>1. CASE mutex[i[t]] = NoThread
  BY <1>1 DEF TryLock, At, Step, statVars
<1>2. CASE mutex[i[t]] # NoThread
  BY <1>2 DEF TryLock, At, Step, statVars
<1> QED
  BY <1>1, <1>2

(* The steps of a worker keep the types.                                   *)
LEMMA TypeInvWorker ==
  ASSUME TypeInv, NEW t \in Threads, Worker(t) PROVE TypeInv'
<1> USE IndexFacts DEF TypeInv, IndexInv, Locked, At, Step, mainVars, fileVars, localVars, statVars
<1>1. CASE CheckDone(t)
  <2>0. /\ pc \in PlaceType /\ i \in [Threads -> 1 .. FilesN + 1]
        /\ not_finished_cnt \in [Threads -> Nat]
    BY DEF TypeOK, PlaceType
  <2>1. CASE i' = [i EXCEPT ![t] = i[t] + 1] /\ UNCHANGED <<pc, not_finished_cnt>>
    <3>1. i[t] + 1 \in 1 .. FilesN + 1 /\ pc[t] = "check"
      BY <1>1, CheckDoneStep
    <3>2. i' \in [Threads -> 1 .. FilesN + 1] /\ IndexInv'
      BY <2>0, <2>1, <3>1 DEF PlaceType
    <3> QED
      BY <1>1, <2>1, <3>2 DEF CheckDone, TypeOK
  <2>2. CASE /\ not_finished_cnt' = [not_finished_cnt EXCEPT ![t] = not_finished_cnt[t] + 1]
             /\ pc' = [pc EXCEPT ![t] = "trylock"] /\ UNCHANGED i
    <3>1. not_finished_cnt' \in [Threads -> Nat]
      BY <2>0, <2>2
    <3>2. pc' \in PlaceType /\ IndexInv'
      BY <1>1, <2>0, <2>2, CheckDoneStep DEF PlaceType
    <3> QED
      BY <1>1, <2>2, <3>1, <3>2 DEF CheckDone, TypeOK, PlaceType
  <2> QED
    BY <1>1, <2>1, <2>2, CheckDoneStep
<1>2. CASE TryLock(t)
  <2>1. pc[t] = "trylock" /\ i[t] \in Files /\ i[t] + 1 \in 1 .. FilesN + 1
    BY <1>2 DEF TryLock
  <2>2. CASE mutex[i[t]] = NoThread
    <3>1. /\ mutex' = [mutex EXCEPT ![i[t]] = t]
          /\ pc' = [pc EXCEPT ![t] = "recheck"]
          /\ i' = i
      BY <1>2, <2>2 DEF TryLock
    <3>2. mutex' \in [Files -> Threads \cup {NoThread}]
      BY <3>1 DEF TypeOK
    <3>3. pc' \in PlaceType /\ IndexInv'
      BY <2>1, <3>1 DEF TypeOK, PlaceType
    <3> QED
      BY <1>2, <3>1, <3>2, <3>3 DEF TryLock, TypeOK, PlaceType
  <2>3. CASE mutex[i[t]] # NoThread
    <3>1. /\ i' = [i EXCEPT ![t] = i[t] + 1]
          /\ pc' = [pc EXCEPT ![t] = "check"]
          /\ mutex' = mutex
      BY <1>2, <2>3 DEF TryLock
    <3>2. i' \in [Threads -> 1 .. FilesN + 1]
      BY <2>1, <3>1 DEF TypeOK
    <3>3. pc' \in PlaceType /\ IndexInv'
      BY <2>1, <3>1 DEF TypeOK, PlaceType
    <3> QED
      BY <1>2, <3>1, <3>2, <3>3 DEF TryLock, TypeOK, PlaceType
  <2> QED
    BY <2>2, <2>3
<1>3. CASE RecheckDone(t)
  BY <1>3 DEF RecheckDone, TypeOK
<1>4. CASE SkipFinished(t)
  <2>1. i' \in [Threads -> 1 .. FilesN + 1]
    BY <1>4 DEF SkipFinished, TypeOK
  <2>2. pc' \in PlaceType
    BY <1>4 DEF SkipFinished, PlaceType, TypeOK
  <2>3. mutex' \in [Files -> Threads \cup {NoThread}]
    BY <1>4 DEF SkipFinished, TypeOK
  <2>4. IndexInv'
    BY <1>4 DEF SkipFinished, TypeOK
  <2> QED
    BY <1>4, <2>1, <2>2, <2>3, <2>4 DEF SkipFinished, PlaceType, TypeOK
<1>5. CASE EndScan(t)
  BY <1>5 DEF EndScan, TypeOK
<1>6. CASE ReadLine(t)
  <2>1. /\ i[t] \in Files
        /\ pos[i[t]] + 1 \in 1 .. LineCount[i[t]]
    <3>1. i[t] \in Files
      BY <1>6 DEF ReadLine
    <3>2. pos[i[t]] \in Nat /\ LineCount[i[t]] \in Nat /\ pos[i[t]] < LineCount[i[t]]
      BY <1>6, <3>1, LineCountAssumption DEF ReadLine, TypeOK
    <3> QED
      BY <3>1, <3>2
  <2>2. buffer' \in [Threads -> Seq(Lines)]
    <3>1. <<i[t], pos[i[t]] + 1>> \in Lines
      BY <2>1, LinesFacts
    <3>2. buffer \in [Threads -> Seq(Lines)]
      BY DEF TypeOK
    <3>3. buffer' = [buffer EXCEPT ![t] = Append(buffer[t], <<i[t], pos[i[t]] + 1>>)]
      BY <1>6 DEF ReadLine
    <3>4. Append(buffer[t], <<i[t], pos[i[t]] + 1>>) \in Seq(Lines)
      BY <3>1, <3>2
    <3> QED
      BY <3>2, <3>3, <3>4
  <2>3. pos' \in [Files -> Nat]
    BY <1>6, <2>1 DEF ReadLine, TypeOK
  <2> QED
    BY <1>6, <2>2, <2>3 DEF ReadLine, TypeOK
<1>7. CASE ReadEnd(t)
  BY <1>7 DEF ReadEnd, TypeOK
<1>8. CASE ReadLimit(t)
  BY <1>8 DEF ReadLimit, TypeOK
<1>9. CASE MarkDone(t)
  BY <1>9 DEF MarkDone, TypeOK
<1>10. CASE Unlock(t)
  BY <1>10 DEF Unlock, TypeOK
<1>11. CASE ProcessLine(t)
  <2>1. /\ processors_results[t] \in [Lines -> Nat]
        /\ processors_results' = [processors_results EXCEPT ![t] =
              [processors_results[t] EXCEPT ![CurrentLine(t)] = @ + 1]]
    BY <1>11 DEF ProcessLine, TypeOK
  <2>2. [processors_results[t] EXCEPT ![CurrentLine(t)] = @ + 1] \in [Lines -> Nat]
    BY <2>1, OneMore
  <2>3. processors_results' \in [Threads -> [Lines -> Nat]]
    BY <2>1, <2>2 DEF TypeOK
  <2>4. line_i' \in [Threads -> Nat \ {0}]
    BY <1>11 DEF ProcessLine, TypeOK
  <2> QED
    BY <1>11, <2>3, <2>4 DEF ProcessLine, TypeOK
<1>12. CASE ProcessNoSize(t)
  BY <1>12 DEF ProcessNoSize, TypeOK, End
<1>13. CASE ProcessNoReferer(t)
  BY <1>13 DEF ProcessNoReferer, TypeOK, End
<1>14. CASE ProcessEnd(t)
  BY <1>14 DEF ProcessEnd, TypeOK
<1> QED
  BY <1>1, <1>2, <1>3, <1>4, <1>5, <1>6, <1>7, <1>8, <1>9, <1>10, <1>11, <1>12, <1>13, <1>14 DEF Worker

(* Every reachable state is well typed.                                    *)
LEMMA TypeInvInvariant == Spec => []TypeInv
<1>1. TypeInv /\ UNCHANGED vars => TypeInv'
  BY DEF TypeInv, TypeOK, IndexInv, vars, mainVars, fileVars, localVars, statVars
<1>2. TypeInv /\ [Next]_vars => TypeInv'
  BY <1>1, TypeInvMain, TypeInvWorker DEF Next, Ended
<1> QED
  BY <1>2, TypeInvInit, PTL DEF Spec

(* Type correctness.                                                       *)
THEOREM Typing == Spec => []TypeOK
<1>1. TypeInv => TypeOK
  BY DEF TypeInv
<1> QED
  BY <1>1, TypeInvInvariant, PTL

-----------------------------------------------------------------------------
(* What every step of a worker leaves alone, and where it can go.          *)
LEMMA WorkerShape ==
  ASSUME TypeInv, NEW t \in Threads, Worker(t)
  PROVE  /\ status = "running" /\ status' \in {"running", "exit0", "crashed"}
         /\ UNCHANGED <<main_pc, main_i, file, total_result>>
         /\ pc[t] \notin {"none", "exited"} /\ pc'[t] # "none"
         /\ pc[t] # "check" => pc'[t] # "exited"
         /\ \A u \in Threads \ {t} :
               /\ pc'[u] = pc[u] /\ i'[u] = i[u]
               /\ not_finished_cnt'[u] = not_finished_cnt[u]
               /\ buffer'[u] = buffer[u] /\ line_i'[u] = line_i[u]
               /\ processors_results'[u] = processors_results[u]
<1> USE DEF TypeInv, At, Step, mainVars, fileVars, localVars, statVars, End
<1>1. CASE CheckDone(t)
  BY <1>1 DEF CheckDone, TypeOK, Locked
<1>2. CASE TryLock(t)
  BY <1>2 DEF TryLock, TypeOK, Locked
<1>3. CASE RecheckDone(t)
  BY <1>3 DEF RecheckDone, TypeOK, Locked
<1>4. CASE SkipFinished(t)
  BY <1>4 DEF SkipFinished, TypeOK, Locked
<1>5. CASE EndScan(t)
  BY <1>5 DEF EndScan, TypeOK, Locked
<1>6. CASE ReadLine(t)
  BY <1>6 DEF ReadLine, TypeOK, Locked
<1>7. CASE ReadEnd(t)
  BY <1>7 DEF ReadEnd, TypeOK, Locked
<1>8. CASE ReadLimit(t)
  BY <1>8 DEF ReadLimit, TypeOK, Locked
<1>9. CASE MarkDone(t)
  BY <1>9 DEF MarkDone, TypeOK, Locked
<1>10. CASE Unlock(t)
  BY <1>10 DEF Unlock, TypeOK, Locked
<1>11. CASE ProcessLine(t)
  BY <1>11 DEF ProcessLine, TypeOK, Locked
<1>12. CASE ProcessNoSize(t)
  BY <1>12 DEF ProcessNoSize, TypeOK, Locked
<1>13. CASE ProcessNoReferer(t)
  BY <1>13 DEF ProcessNoReferer, TypeOK, Locked
<1>14. CASE ProcessEnd(t)
  BY <1>14 DEF ProcessEnd, TypeOK, Locked
<1> QED
  BY <1>1, <1>2, <1>3, <1>4, <1>5, <1>6, <1>7, <1>8, <1>9, <1>10, <1>11, <1>12, <1>13, <1>14 DEF Worker

(* What the place of the main thread says of files and workers holds in    *)
(* every state.                                                            *)
LEMMA MainInvInvariant == Spec => []MainInv
<1>1. Init => MainInv
  BY DEF Init, MainInv
<1>2. ASSUME TypeInv, MainInv, [Next]_vars PROVE MainInv'
  <2> USE IndexFacts
  <2>1. CASE Main
    <3> USE DEF TypeInv, TypeOK, MainInv, MainAt
    <3>1. CASE ListFiles
      <4>1. main_pc = "list" /\ UNCHANGED <<file, pc>>
        BY <3>1 DEF ListFiles, End, fileVars
      <4>2. CASE End("empty")
        BY <1>2, <4>1, <4>2 DEF End, mainVars
      <4>3. CASE GoTo("open") /\ UNCHANGED status
        BY <1>2, <4>1, <4>3 DEF GoTo, Files
      <4> QED
        BY <3>1, <4>2, <4>3 DEF ListFiles
    <3>2. CASE FileWithMutexInit
      BY <1>2, <3>2 DEF FileWithMutexInit, localVars, statVars, Files, Threads
    <3>3. CASE AllFilesOpen
      BY <1>2, <3>3 DEF AllFilesOpen, GoTo, fileVars, localVars, statVars, Files, Threads
    <3>4. CASE CreateThread
      BY <1>2, <3>4 DEF CreateThread, fileVars, localVars, statVars, Files, Threads
    <3>5. CASE AllThreadsCreated
      BY <1>2, <3>5 DEF AllThreadsCreated, GoTo, fileVars, localVars, statVars, Files, Threads
    <3>6. CASE JoinThread
      BY <1>2, <3>6 DEF JoinThread, fileVars, localVars, statVars, Files, Threads
    <3>7. CASE AllThreadsJoined
      BY <1>2, <3>7 DEF AllThreadsJoined, GoTo, fileVars, localVars, statVars, Files, Threads
    <3>8. CASE MergeResults
      BY <1>2, <3>8 DEF MergeResults, None, fileVars, localVars, Files, Threads
    <3>9. CASE AllResultsMerged
      BY <1>2, <3>9 DEF AllResultsMerged, GoTo, fileVars, localVars, statVars, Files, Threads
    <3>10. CASE FileWithMutexDestroy
      BY <1>2, <3>10 DEF FileWithMutexDestroy, localVars, statVars, Files, Threads
    <3>11. CASE PrintResults
      BY <1>2, <3>11 DEF PrintResults, End, mainVars, fileVars, localVars, statVars, Files, Threads
    <3>12. CASE MainFails
      BY <1>2, <3>12 DEF MainFails, End, mainVars, fileVars, localVars, statVars, Files, Threads
    <3> QED
      BY <2>1, <3>1, <3>2, <3>3, <3>4, <3>5, <3>6, <3>7, <3>8, <3>9, <3>10, <3>11, <3>12 DEF Main
  <2>2. ASSUME NEW t \in Threads, Worker(t) PROVE MainInv'
    BY <1>2, <2>2, WorkerShape DEF MainInv
  <2>3. CASE UNCHANGED vars
    BY <1>2, <2>3 DEF MainInv, vars, mainVars, fileVars
  <2> QED
    BY <1>2, <2>1, <2>2, <2>3 DEF Next, Ended
<1> QED
  BY <1>1, <1>2, TypeInvInvariant, PTL DEF Spec

-----------------------------------------------------------------------------
(* What the steps of the main thread do to the workers and to the files.   *)
LEMMA MainShape ==
  ASSUME TypeInv, MainInv, Main
  PROVE  /\ status = "running"
         /\ UNCHANGED <<pos, mutex, i, not_finished_cnt, buffer, line_i>>
         /\ \A t \in Threads : pc'[t] # pc[t] => pc[t] = "none" /\ pc'[t] = "check"
         /\ \A f \in Files : done'[f] # done[f] \/ file'[f] # file[f] =>
               \/ /\ \A t \in Threads : pc[t] = "none"
                  /\ file'[f] = "open" /\ ~done'[f]
               \/ /\ \A t \in Threads : pc[t] = "exited"
                  /\ file'[f] = "closed" /\ done'[f]
<1> USE DEF TypeInv, MainAt, GoTo, End, mainVars, fileVars, localVars, statVars
<1>1. CASE ListFiles
  BY <1>1 DEF ListFiles, TypeOK, MainInv
<1>2. CASE FileWithMutexInit
  BY <1>2 DEF FileWithMutexInit, TypeOK, MainInv
<1>3. CASE AllFilesOpen
  BY <1>3 DEF AllFilesOpen, TypeOK, MainInv
<1>4. CASE CreateThread
  BY <1>4 DEF CreateThread, TypeOK, MainInv
<1>5. CASE AllThreadsCreated
  BY <1>5 DEF AllThreadsCreated, TypeOK, MainInv
<1>6. CASE JoinThread
  BY <1>6 DEF JoinThread, TypeOK, MainInv
<1>7. CASE AllThreadsJoined
  BY <1>7 DEF AllThreadsJoined, TypeOK, MainInv
<1>8. CASE MergeResults
  BY <1>8 DEF MergeResults, TypeOK, MainInv
<1>9. CASE AllResultsMerged
  BY <1>9 DEF AllResultsMerged, TypeOK, MainInv
<1>10. CASE FileWithMutexDestroy
  BY <1>10 DEF FileWithMutexDestroy, TypeOK, MainInv
<1>11. CASE PrintResults
  BY <1>11 DEF PrintResults, TypeOK, MainInv
<1>12. CASE MainFails
  BY <1>12 DEF MainFails, TypeOK, MainInv
<1> QED
  BY <1>1, <1>2, <1>3, <1>4, <1>5, <1>6, <1>7, <1>8, <1>9, <1>10, <1>11, <1>12 DEF Main

(* LockInv for one worker, and when a step of it keeps it for all.         *)
Owner(t) ==
    /\ pc[t] = "trylock" => i[t] \in Files
    /\ pc[t] \in Locked => i[t] \in Files /\ mutex[i[t]] = t
    /\ pc[t] \in {"read", "mark"} => ~done[i[t]]
    /\ pc[t] = "mark" => pos[i[t]] = LineCount[i[t]] \/ i[t] \in ReadErrors

(* A step of the owner of a mutex keeps the invariant of the locks, when   *)
(* nothing moves that others own.                                          *)
LEMMA OwnerStep ==
  ASSUME LockInv, NEW t \in Threads, Owner(t)',
         \A u \in Threads \ {t} : pc'[u] = pc[u] /\ i'[u] = i[u],
         \A f \in Files : mutex[f] \in Threads \ {t} =>
             mutex'[f] = mutex[f] /\ done'[f] = done[f] /\ pos'[f] = pos[f]
  PROVE  LockInv'
<1>1. ASSUME NEW u \in Threads, u # t PROVE Owner(u)'
  <2>1. Owner(u) /\ pc'[u] = pc[u] /\ i'[u] = i[u]
    BY <1>1 DEF LockInv, Owner
  <2>2. pc[u] \in Locked =>
           /\ mutex'[i[u]] = mutex[i[u]] /\ done'[i[u]] = done[i[u]]
           /\ pos'[i[u]] = pos[i[u]]
    BY <1>1, <2>1 DEF Owner
  <2> QED
    BY <2>1, <2>2 DEF Owner, Locked
<1> QED
  BY <1>1 DEF LockInv, Owner

(* The steps of a worker keep the invariant of files and mutexes.          *)
LEMMA FileInvWorker ==
  ASSUME TypeInv, FileInv, NEW t \in Threads, Worker(t)
  PROVE  FileInv'
<1>0. \A u \in Threads \ {t} : pc'[u] = pc[u] /\ i'[u] = i[u]
  BY WorkerShape
<1>1. /\ pc \in [Threads -> {"none", "check", "trylock", "process", "exited"} \cup Locked]
      /\ i \in [Threads -> 1 .. FilesN + 1]
      /\ mutex \in [Files -> Threads \cup {NoThread}]
      /\ done \in [Files -> BOOLEAN] /\ pos \in [Files -> Nat]
  BY DEF TypeInv, TypeOK
<1>2. Owner(t) /\ (pc[t] \in Locked \cup {"trylock"} => i[t] \in Files)
  BY DEF FileInv, LockInv, Owner, TypeInv, IndexInv
<1>3. \A f \in Files : NoThread \notin Threads /\ LineCount[f] \in Nat
  BY IndexFacts, LineCountAssumption
<1>4. SUFFICES /\ Owner(t)'
               /\ \A f \in Files : mutex[f] \in Threads \ {t} =>
                     mutex'[f] = mutex[f] /\ done'[f] = done[f] /\ pos'[f] = pos[f]
               /\ UNCHANGED file
               /\ \A f \in Files : pos'[f] # pos[f] =>
                     pos'[f] = pos[f] + 1 /\ pos[f] < LineCount[f] /\ ~done[f] /\ ~done'[f]
               /\ \A f \in Files : done'[f] # done[f] =>
                     pos[f] = LineCount[f] \/ f \in ReadErrors
  <2>1. LockInv'
    BY <1>0, <1>4, OwnerStep DEF FileInv
  <2>2. \A f \in Files : pos'[f] <= LineCount[f]
    BY <1>1, <1>3, <1>4 DEF FileInv
  <2>3. DoneMeansRead'
    BY <1>1, <1>3, <1>4 DEF FileInv, DoneMeansRead
  <2> QED
    BY <2>1, <2>2, <2>3 DEF FileInv
<1> USE DEF At, Step, Locked, Owner
<1>5. CASE CheckDone(t)
  BY <1>1, <1>2, <1>3, <1>5, CheckDoneStep
<1>6. CASE TryLock(t)
  <2>1. CASE /\ mutex[i[t]] = NoThread /\ mutex' = [mutex EXCEPT ![i[t]] = t]
             /\ pc' = [pc EXCEPT ![t] = "recheck"] /\ UNCHANGED i
    BY <1>1, <1>2, <1>3, <1>6, <2>1, TryLockStep
  <2>2. CASE pc' = [pc EXCEPT ![t] = "check"] /\ UNCHANGED mutex
    BY <1>1, <1>6, <2>2, TryLockStep
  <2> QED
    BY <1>6, <2>1, <2>2, TryLockStep
<1>7. CASE RecheckDone(t)
  BY <1>1, <1>2, <1>3, <1>7 DEF RecheckDone, fileVars, localVars
<1>8. CASE SkipFinished(t)
  BY <1>1, <1>2, <1>3, <1>8 DEF SkipFinished
<1>9. CASE EndScan(t)
  BY <1>1, <1>2, <1>3, <1>9 DEF EndScan, fileVars
<1>10. CASE ReadLine(t)
  BY <1>1, <1>2, <1>3, <1>10 DEF ReadLine
<1>11. CASE ReadEnd(t)
  BY <1>1, <1>2, <1>3, <1>11 DEF ReadEnd, fileVars, localVars
<1>12. CASE ReadLimit(t)
  BY <1>1, <1>2, <1>3, <1>12 DEF ReadLimit, fileVars, localVars
<1>13. CASE MarkDone(t)
  BY <1>1, <1>2, <1>3, <1>13 DEF MarkDone, localVars
<1>14. CASE Unlock(t)
  BY <1>1, <1>2, <1>3, <1>14 DEF Unlock, localVars
<1>15. CASE ProcessLine(t)
  BY <1>1, <1>2, <1>3, <1>15 DEF ProcessLine, fileVars
<1>16. CASE ProcessNoSize(t)
  BY <1>1, <1>2, <1>3, <1>16 DEF ProcessNoSize, End, fileVars, localVars
<1>17. CASE ProcessNoReferer(t)
  BY <1>1, <1>2, <1>3, <1>17 DEF ProcessNoReferer, End, fileVars, localVars
<1>18. CASE ProcessEnd(t)
  BY <1>1, <1>2, <1>3, <1>18 DEF ProcessEnd, fileVars
<1> QED
  BY <1>5, <1>6, <1>7, <1>8, <1>9, <1>10, <1>11, <1>12, <1>13, <1>14, <1>15, <1>16, <1>17, <1>18 DEF Worker

(* The invariant of files and mutexes holds in every state.                *)
LEMMA FileInvInvariant == Spec => []FileInv
<1>1. Init => FileInv
  BY LineCountAssumption DEF Init, FileInv, LockInv, DoneMeansRead, Locked
<1>2. ASSUME TypeInv, MainInv, FileInv, [Next]_vars PROVE FileInv'
  <2>1. CASE Main
    <3>1. ASSUME NEW t \in Threads PROVE Owner(t)'
      <4>1. /\ Owner(t) /\ UNCHANGED <<pos, mutex, i>>
            /\ pc'[t] = pc[t] \/ pc'[t] = "check"
        BY <1>2, <2>1, MainShape DEF FileInv, LockInv, Owner
      <4>2. pc[t] \in {"read", "mark"} => i[t] \in Files /\ done'[i[t]] = done[i[t]]
        BY <1>2, <2>1, <4>1, MainShape DEF Owner, Locked
      <4> QED
        BY <4>1, <4>2 DEF Owner, Locked
    <3>2. DoneMeansRead'
      BY <1>2, <2>1, MainShape DEF FileInv, DoneMeansRead, TypeInv, TypeOK
    <3> QED
      BY <1>2, <2>1, <3>1, <3>2, MainShape DEF FileInv, LockInv, Owner
  <2>2. ASSUME NEW t \in Threads, Worker(t) PROVE FileInv'
    BY <1>2, <2>2, FileInvWorker
  <2>3. CASE UNCHANGED vars
    BY <1>2, <2>3 DEF FileInv, LockInv, DoneMeansRead, vars, mainVars, fileVars, localVars
  <2> QED
    BY <1>2, <2>1, <2>2, <2>3 DEF Next, Ended
<1> QED
  BY <1>1, <1>2, TypeInvInvariant, MainInvInvariant, PTL DEF Spec

-----------------------------------------------------------------------------
(* A worker never takes a file back from the finished ones.                *)
LEMMA DoneStays ==
  ASSUME TypeInv, NEW t \in Threads, Worker(t)
  PROVE  \A f \in Files : done[f] => done'[f]
<1>1. CASE MarkDone(t)
  BY <1>1 DEF MarkDone, TypeInv, TypeOK
<1>2. CASE ~MarkDone(t)
  BY <1>2 DEF Worker, CheckDone, TryLock, RecheckDone, SkipFinished, EndScan, ReadLine, ReadEnd, ReadLimit, Unlock, ProcessLine, ProcessNoSize, ProcessNoReferer, ProcessEnd,
         End, fileVars
<1> QED
  BY <1>1, <1>2

(* The invariant of the scans holds in every state.                        *)
LEMMA ScanInvInvariant == Spec => []ScanInv
<1>1. Init => ScanInv
  BY DEF Init, ScanInv
<1>2. ASSUME TypeInv, MainInv, FileInv, ScanInv, [Next]_vars PROVE ScanInv'
  <2>1. CASE Main
    BY <1>2, <2>1, MainShape, IndexFacts DEF ScanInv
  <2>2. ASSUME NEW t \in Threads, Worker(t) PROVE ScanInv'
    <3>0. \A u \in Threads \ {t} :
             /\ pc'[u] = pc[u] /\ i'[u] = i[u]
             /\ not_finished_cnt'[u] = not_finished_cnt[u]
      BY <1>2, <2>2, WorkerShape
    <3>1. \A f \in Files : done[f] => done'[f]
      BY <1>2, <2>2, DoneStays
    <3>2. SUFFICES /\ pc'[t] # "none"
                   /\ pc'[t] \in {"trylock", "recheck", "skip"} => not_finished_cnt'[t] > 0
                   /\ pc'[t] = "check" /\ not_finished_cnt'[t] = 0 =>
                         \A f \in Files : f < i'[t] => done'[f]
                   /\ pc'[t] = "exited" => \A f \in Files : done'[f]
      BY <1>2, <3>0, <3>1 DEF ScanInv
    <3> USE IndexFacts DEF TypeInv, TypeOK, IndexInv, ScanInv, Locked, At, Step, mainVars, fileVars, localVars, statVars
    <3>3. CASE CheckDone(t)
      <4>1. pc[t] = "check" /\ i[t] \in Files /\ UNCHANGED done
        BY <3>3, CheckDoneStep
      <4>2. CASE done[i[t]] /\ i' = [i EXCEPT ![t] = i[t] + 1] /\ UNCHANGED <<pc, not_finished_cnt>>
        <5>1. i'[t] = i[t] + 1 /\ pc'[t] = pc[t] /\ not_finished_cnt'[t] = not_finished_cnt[t]
          BY <1>2, <4>2
        <5>2. ASSUME NEW f \in Files, f < i[t] + 1, f # i[t] PROVE f < i[t]
          BY <4>1, <5>2 DEF Files
        <5> QED
          BY <1>2, <4>1, <4>2, <5>1, <5>2
      <4>3. CASE /\ not_finished_cnt' = [not_finished_cnt EXCEPT ![t] = not_finished_cnt[t] + 1]
                 /\ pc' = [pc EXCEPT ![t] = "trylock"]
        BY <1>2, <4>3
      <4> QED
        BY <3>3, <4>2, <4>3, CheckDoneStep
    <3>4. CASE TryLock(t)
      <4>1. /\ pc[t] = "trylock" /\ not_finished_cnt'[t] = not_finished_cnt[t]
            /\ not_finished_cnt[t] > 0 /\ not_finished_cnt[t] \in Nat
        BY <1>2, <3>4, TryLockStep
      <4>2. pc'[t] \in {"recheck", "check"}
        BY <1>2, <3>4, TryLockStep
      <4> QED
        BY <4>1, <4>2
    <3>5. CASE RecheckDone(t)
      BY <1>2, <3>1, <3>5 DEF RecheckDone
    <3>6. CASE SkipFinished(t)
      BY <1>2, <3>1, <3>6 DEF SkipFinished
    <3>7. CASE EndScan(t)
      BY <1>2, <3>1, <3>7 DEF EndScan
    <3>8. CASE ReadLine(t)
      BY <1>2, <3>1, <3>8 DEF ReadLine
    <3>9. CASE ReadEnd(t)
      BY <1>2, <3>1, <3>9 DEF ReadEnd
    <3>10. CASE ReadLimit(t)
      BY <1>2, <3>1, <3>10 DEF ReadLimit
    <3>11. CASE MarkDone(t)
      BY <1>2, <3>1, <3>11 DEF MarkDone
    <3>12. CASE Unlock(t)
      BY <1>2, <3>1, <3>12 DEF Unlock
    <3>13. CASE ProcessLine(t)
      BY <1>2, <3>1, <3>13 DEF ProcessLine
    <3>14. CASE ProcessNoSize(t)
      BY <1>2, <3>1, <3>14 DEF ProcessNoSize, End
    <3>15. CASE ProcessNoReferer(t)
      BY <1>2, <3>1, <3>15 DEF ProcessNoReferer, End
    <3>16. CASE ProcessEnd(t)
      BY <1>2, <3>1, <3>16 DEF ProcessEnd
    <3> QED
      BY <2>2, <3>3, <3>4, <3>5, <3>6, <3>7, <3>8, <3>9, <3>10, <3>11, <3>12, <3>13, <3>14, <3>15, <3>16 DEF Worker
  <2>3. CASE UNCHANGED vars
    BY <1>2, <2>3 DEF ScanInv, vars, mainVars, fileVars, localVars
  <2> QED
    BY <1>2, <2>1, <2>2, <2>3 DEF Next, Ended
<1> QED
  BY <1>1, <1>2, TypeInvInvariant, MainInvInvariant, FileInvInvariant, PTL DEF Spec

-----------------------------------------------------------------------------
(* What is said of the packages holds in every state: lines are in them    *)
(* only between lock and the end of processing.                            *)
LEMMA BufferInvInvariant == Spec => []BufferInv
<1>1. Init => BufferInv
  BY LimitAssumption DEF Init, BufferInv
<1>2. ASSUME TypeInv, MainInv, BufferInv, [Next]_vars PROVE BufferInv'
  <2>1. CASE Main
    BY <1>2, <2>1, MainShape DEF BufferInv
  <2>2. ASSUME NEW t \in Threads, Worker(t) PROVE BufferInv'
    <3>0. \A u \in Threads \ {t} :
             pc'[u] = pc[u] /\ buffer'[u] = buffer[u] /\ line_i'[u] = line_i[u]
      BY <1>2, <2>2, WorkerShape
    <3>1. /\ pc \in PlaceType /\ buffer \in [Threads -> Seq(Lines)]
          /\ line_i \in [Threads -> Nat \ {0}] /\ LOGS_BUFFER_LIMIT \in Nat
      BY <1>2, LimitAssumption DEF TypeInv, TypeOK, PlaceType
    <3>2. SUFFICES /\ pc'[t] \notin {"read", "mark", "unlock", "process"} => buffer'[t] = <<>>
                   /\ pc'[t] # "process" => line_i'[t] = 1
                   /\ line_i'[t] <= Len(buffer'[t]) + 1
                   /\ Len(buffer'[t]) <= LOGS_BUFFER_LIMIT
      BY <1>2, <3>0 DEF BufferInv
    <3> USE DEF BufferInv, PlaceType, At, Step, localVars
    <3>3. CASE CheckDone(t)
      BY <1>2, <3>1, <3>3, CheckDoneStep
    <3>4. CASE TryLock(t)
      BY <1>2, <3>1, <3>4, TryLockStep
    <3>5. CASE RecheckDone(t)
      BY <1>2, <3>1, <3>5 DEF RecheckDone
    <3>6. CASE SkipFinished(t)
      BY <1>2, <3>1, <3>6 DEF SkipFinished
    <3>7. CASE EndScan(t)
      BY <1>2, <3>1, <3>7 DEF EndScan
    <3>8. CASE ReadLine(t)
      BY <1>2, <3>1, <3>8 DEF ReadLine
    <3>9. CASE ReadEnd(t)
      BY <1>2, <3>1, <3>9 DEF ReadEnd
    <3>10. CASE ReadLimit(t)
      BY <1>2, <3>1, <3>10 DEF ReadLimit
    <3>11. CASE MarkDone(t)
      BY <1>2, <3>1, <3>11 DEF MarkDone
    <3>12. CASE Unlock(t)
      BY <1>2, <3>1, <3>12 DEF Unlock
    <3>13. CASE ProcessLine(t)
      BY <1>2, <3>1, <3>13 DEF ProcessLine
    <3>14. CASE ProcessNoSize(t)
      BY <1>2, <3>1, <3>14 DEF ProcessNoSize, End
    <3>15. CASE ProcessNoReferer(t)
      BY <1>2, <3>1, <3>15 DEF ProcessNoReferer, End
    <3>16. CASE ProcessEnd(t)
      BY <1>2, <3>1, <3>16 DEF ProcessEnd
    <3> QED
      BY <2>2, <3>3, <3>4, <3>5, <3>6, <3>7, <3>8, <3>9, <3>10, <3>11, <3>12, <3>13, <3>14, <3>15, <3>16 DEF Worker
  <2>3. CASE UNCHANGED vars
    BY <1>2, <2>3 DEF BufferInv, vars, localVars
  <2> QED
    BY <1>2, <2>1, <2>2, <2>3 DEF Next, Ended
<1> QED
  BY <1>1, <1>2, TypeInvInvariant, MainInvInvariant, PTL DEF Spec

-----------------------------------------------------------------------------
(* Where the lines are.  Four actions move a line from one place to        *)
(* another; the others leave every line where it is.                       *)
placeVars == <<pos, buffer, line_i, processors_results, total_result>>

Places == OnePlace /\ OnceThere /\ NeverLost

(* A step that moves no line keeps every line in its place.                *)
LEMMA PlacesStay == Places /\ UNCHANGED placeVars => Places'
<1> SUFFICES ASSUME Places, UNCHANGED placeVars PROVE Places'
  OBVIOUS
<1>1. /\ Unread' = Unread /\ Merged' = Merged
      /\ \A t \in Threads : Owned(t)' = Owned(t) /\ Pending(t)' = Pending(t) /\ Counted(t)' = Counted(t)
  BY DEF placeVars, Unread, Pending, Counted, Merged, Owned
<1>2. OnePlace'
  BY <1>1 DEF Places, OnePlace
<1>3. OnceThere'
  BY DEF Places, OnceThere, placeVars
<1>4. NeverLost'
  BY <1>1 DEF Places, NeverLost
<1> QED
  BY <1>2, <1>3, <1>4 DEF Places

(* A step of a worker moves lines only where it reads one, processes one or*)
(* ends the process.                                                       *)
LEMMA WorkerMoves ==
  ASSUME NEW t \in Threads, Worker(t)
  PROVE  ReadLine(t) \/ ProcessLine(t) \/ ProcessEnd(t) \/ UNCHANGED placeVars
BY CheckDoneStep, TryLockStep, WorkerShape
   DEF Worker, placeVars, CheckDone, TryLock, RecheckDone, SkipFinished, EndScan, ReadEnd, ReadLimit, MarkDone, Unlock, ProcessNoSize, ProcessNoReferer,
       At, End, fileVars, localVars, statVars

(* The main thread moves lines only when it merges.                        *)
LEMMA MainMoves == Main => MergeResults \/ UNCHANGED placeVars
BY DEF Main, placeVars, ListFiles, FileWithMutexInit, AllFilesOpen, CreateThread, AllThreadsCreated, JoinThread, AllThreadsJoined, AllResultsMerged, FileWithMutexDestroy, PrintResults, MainFails,
       MainAt, GoTo, End, fileVars, localVars, statVars

(* getline: the line enters the buffer.                                    *)
LEMMA ReadMoves ==
  ASSUME TypeInv, BufferInv, NEW t \in Threads, ReadLine(t),
         NEW line, line = <<i[t], pos[i[t]] + 1>>
  PROVE  /\ line \in Unread
         /\ Unread' = Unread \ {line}
         /\ Pending(t)' = Pending(t) \cup {line}
         /\ \A u \in Threads \ {t} : Pending(u)' = Pending(u)
         /\ \A u \in Threads : Counted(u)' = Counted(u)
         /\ Merged' = Merged
<1>1. /\ i[t] \in Files /\ pos[i[t]] \in Nat /\ LineCount[i[t]] \in Nat
      /\ pos[i[t]] + 1 \in 1 .. LineCount[i[t]]
  <2>1. i[t] \in Files
    BY DEF TypeInv, IndexInv, ReadLine, At, Locked
  <2>2. pos[i[t]] \in Nat /\ LineCount[i[t]] \in Nat
    BY <2>1, LineCountAssumption DEF TypeInv, TypeOK
  <2> QED
    BY <2>1, <2>2 DEF ReadLine
<1>2. line \in Lines /\ line[1] = i[t] /\ line[2] = pos[i[t]] + 1
  BY <1>1, LinesFacts
<1>3. \A f \in Files : pos[f] \in Nat /\ pos'[f] = IF f = i[t] THEN pos[f] + 1 ELSE pos[f]
  BY <1>1 DEF ReadLine, TypeInv, TypeOK
<1>4. \A l \in Lines : l[1] \in Files /\ l[2] \in Nat /\ l = <<l[1], l[2]>>
  BY LinesFacts
<1>5. line \in Unread
  BY <1>1, <1>2 DEF Unread
<1>6. Unread' = Unread \ {line}
  <2>1. ASSUME NEW l \in Lines PROVE l[2] > pos'[l[1]] <=> l[2] > pos[l[1]] /\ l # line
    <3>1. CASE l[1] = i[t]
      <4>1. l = line <=> l[2] = pos[i[t]] + 1
        BY <1>4, <3>1
      <4> QED
        BY <1>1, <1>3, <1>4, <3>1, <4>1
    <3>2. CASE l[1] # i[t]
      BY <1>2, <1>3, <1>4, <3>2
    <3> QED
      BY <3>1, <3>2
  <2> QED
    BY <2>1 DEF Unread
<1>7. Pending(t)' = Pending(t) \cup {line}
  <2>1. /\ buffer[t] \in Seq(Lines) /\ line_i[t] = 1 /\ line_i'[t] = 1
        /\ buffer'[t] = Append(buffer[t], line)
    BY DEF ReadLine, At, BufferInv, TypeInv, TypeOK
  <2> QED
    BY <2>1, <1>2 DEF Pending
<1>8. \A u \in Threads \ {t} : Pending(u)' = Pending(u)
  BY DEF ReadLine, Pending, TypeInv, TypeOK
<1>9. /\ \A u \in Threads : Counted(u)' = Counted(u)
      /\ Merged' = Merged
  BY DEF ReadLine, Counted, Merged, statVars
<1> QED
  BY <1>5, <1>6, <1>7, <1>8, <1>9

(* UpdateProcessStats: the line enters the statistics of the worker.       *)
LEMMA ProcessMoves ==
  ASSUME TypeInv, BufferInv, OnceThere, OnePlace, NEW t \in Threads, ProcessLine(t),
         NEW line, line = CurrentLine(t)
  PROVE  /\ line \in Lines /\ line \in Pending(t)
         /\ Unread' = Unread
         /\ Pending(t)' = Pending(t) \ {line}
         /\ Counted(t)' = Counted(t) \cup {line}
         /\ \A u \in Threads \ {t} : Pending(u)' = Pending(u) /\ Counted(u)' = Counted(u)
         /\ Merged' = Merged
<1>1. /\ buffer[t] \in Seq(Lines) /\ line_i[t] \in 1 .. Len(buffer[t])
      /\ line = buffer[t][line_i[t]]
      /\ buffer'[t] = buffer[t] /\ line_i'[t] = line_i[t] + 1
  BY DEF ProcessLine, CurrentLine, TypeInv, TypeOK
<1>2. line \in Lines /\ line \in Pending(t)
  BY <1>1 DEF Pending
<1>3. Pending(t)' = Pending(t) \ {line}
  <2>1. \A n \in line_i[t] + 1 .. Len(buffer[t]) : buffer[t][n] # line
    BY <1>1 DEF OnceThere
  <2>2. \A n : n \in line_i[t] .. Len(buffer[t]) <=>
                 n = line_i[t] \/ n \in line_i[t] + 1 .. Len(buffer[t])
    BY <1>1
  <2> QED
    BY <1>1, <2>1, <2>2 DEF Pending
<1>4. \A l \in Lines : /\ processors_results[t][l] \in Nat
                       /\ processors_results'[t][l] = IF l = line
                            THEN processors_results[t][l] + 1 ELSE processors_results[t][l]
  <2>1. processors_results[t] \in [Lines -> Nat]
    BY DEF TypeInv, TypeOK
  <2>2. processors_results'[t] = [processors_results[t] EXCEPT ![line] = @ + 1]
    BY DEF ProcessLine, CurrentLine, TypeInv, TypeOK
  <2> QED
    BY <2>1, <2>2
<1>5. Counted(t)' = Counted(t) \cup {line}
  BY <1>2, <1>4 DEF Counted
<1>6. \A u \in Threads \ {t} : Pending(u)' = Pending(u) /\ Counted(u)' = Counted(u)
  BY DEF ProcessLine, Pending, Counted, TypeInv, TypeOK
<1>7. Unread' = Unread /\ Merged' = Merged
  BY DEF ProcessLine, Unread, Merged, fileVars
<1> QED
  BY <1>2, <1>3, <1>5, <1>6, <1>7

(* buffer_length = 0: nothing is pending any more.                         *)
LEMMA EndMoves ==
  ASSUME TypeInv, NEW t \in Threads, ProcessEnd(t)
  PROVE  /\ Pending(t) = {} /\ Pending(t)' = {}
         /\ \A u \in Threads \ {t} : Pending(u)' = Pending(u)
         /\ \A u \in Threads : Counted(u)' = Counted(u)
         /\ Unread' = Unread /\ Merged' = Merged
<1>1. /\ buffer[t] \in Seq(Lines) /\ line_i[t] = Len(buffer[t]) + 1
      /\ buffer'[t] = <<>> /\ line_i'[t] = 1
  BY DEF ProcessEnd, TypeInv, TypeOK
<1>2. Pending(t) = {} /\ Pending(t)' = {}
  BY <1>1 DEF Pending
<1>3. \A u \in Threads \ {t} : Pending(u)' = Pending(u)
  BY DEF ProcessEnd, Pending, TypeInv, TypeOK
<1>4. /\ \A u \in Threads : Counted(u)' = Counted(u)
      /\ Unread' = Unread /\ Merged' = Merged
  BY DEF ProcessEnd, Counted, Unread, Merged, fileVars, statVars
<1> QED
  BY <1>2, <1>3, <1>4

(* CombineTwoLogsStatistics: the lines of one worker enter the total.      *)
LEMMA MergeMoves ==
  ASSUME TypeInv, MainInv, BufferInv, MergeResults, NEW t, t = main_i
  PROVE  /\ t \in Threads
         /\ Pending(t) = {}
         /\ Merged' = Merged \cup Counted(t)
         /\ Counted(t)' = {}
         /\ \A u \in Threads : Pending(u)' = Pending(u)
         /\ \A u \in Threads \ {t} : Counted(u)' = Counted(u)
         /\ Unread' = Unread
<1>1. /\ t \in Threads /\ pc[t] = "exited"
      /\ total_result' = [l \in Lines |-> total_result[l] + processors_results[t][l]]
      /\ processors_results' = [processors_results EXCEPT ![t] = None]
      /\ UNCHANGED <<pos, buffer, line_i>>
  BY DEF MergeResults, MainAt, MainInv, fileVars, localVars
<1>2. buffer[t] = <<>> /\ line_i[t] = 1
  BY <1>1 DEF BufferInv
<1>3. Pending(t) = {}
  BY <1>2 DEF Pending
<1>4. /\ total_result \in [Lines -> Nat]
      /\ processors_results \in [Threads -> [Lines -> Nat]]
  BY DEF TypeInv, TypeOK
<1>5. \A l \in Lines : total_result[l] + processors_results[t][l] > 0 <=>
                       total_result[l] > 0 \/ processors_results[t][l] > 0
  BY <1>1, <1>4
<1>6. Merged' = Merged \cup Counted(t)
  BY <1>1, <1>5 DEF Merged, Counted
<1>7. Counted(t)' = {}
  <2>1. processors_results'[t] = None
    BY <1>1, <1>4
  <2> QED
    BY <2>1 DEF Counted, None
<1>8. \A u \in Threads \ {t} : Counted(u)' = Counted(u)
  BY <1>1, <1>4 DEF Counted
<1>9. Unread' = Unread /\ \A u \in Threads : Pending(u)' = Pending(u)
  BY <1>1 DEF Unread, Pending
<1> QED
  BY <1>1, <1>3, <1>6, <1>7, <1>8, <1>9

(* Before the start every line is unread.                                  *)
LEMMA PlacesInit == Init => Places
<1> SUFFICES ASSUME Init PROVE Places
  OBVIOUS
<1>1. Unread = Lines /\ Merged = {}
  BY LinesFacts DEF Init, Unread, Merged, None
<1>2. \A t \in Threads : Pending(t) = {} /\ Counted(t) = {}
  BY DEF Init, Pending, Counted, None
<1>3. OnePlace /\ NeverLost
  BY <1>1, <1>2 DEF OnePlace, NeverLost, Owned
<1>4. OnceThere
  BY DEF Init, OnceThere, None
<1> QED
  BY <1>3, <1>4 DEF Places

(* A line that is read goes from its file into one package.                *)
LEMMA PlacesRead ==
  ASSUME TypeInv, BufferInv, Places, NEW t \in Threads, ReadLine(t)
  PROVE  Places'
<1> DEFINE line == <<i[t], pos[i[t]] + 1>>
<1>1. /\ line \in Unread
      /\ Unread' = Unread \ {line}
      /\ Pending(t)' = Pending(t) \cup {line}
      /\ \A u \in Threads \ {t} : Pending(u)' = Pending(u)
      /\ \A u \in Threads : Counted(u)' = Counted(u)
      /\ Merged' = Merged
  BY ReadMoves
<1>2. line \notin Merged /\ \A u \in Threads : line \notin Owned(u)
  BY <1>1 DEF Places, OnePlace
<1>3. OnePlace'
  BY <1>1, <1>2 DEF Places, OnePlace, Owned
<1>4. NeverLost'
  BY <1>1 DEF Places, NeverLost, Owned, Unread
<1>5. OnceThere'
  <2>1. /\ buffer[t] \in Seq(Lines) /\ line_i[t] = 1 /\ line_i' = line_i
        /\ buffer'[t] = Append(buffer[t], line)
        /\ \A u \in Threads \ {t} : buffer'[u] = buffer[u]
        /\ processors_results' = processors_results /\ total_result' = total_result
    BY DEF ReadLine, At, BufferInv, TypeInv, TypeOK, statVars
  <2>2. \A m \in 1 .. Len(buffer[t]) : buffer[t][m] # line
    BY <1>2, <2>1 DEF Owned, Pending
  <2>3. \A m, n \in 1 .. Len(buffer'[t]) : m # n => buffer'[t][m] # buffer'[t][n]
    BY <2>1, <2>2 DEF Places, OnceThere
  <2>4. ASSUME NEW u \in Threads
        PROVE  \A m, n \in line_i'[u] .. Len(buffer'[u]) :
                  m # n => buffer'[u][m] # buffer'[u][n]
    <3>1. CASE u = t
      <4>1. line_i'[u] = 1
        BY <2>1, <3>1
      <4> QED
        BY <2>3, <3>1, <4>1
    <3>2. CASE u # t
      BY <2>1, <3>2 DEF Places, OnceThere
    <3> QED
      BY <3>1, <3>2
  <2> QED
    BY <2>1, <2>4 DEF Places, OnceThere
<1> QED
  BY <1>3, <1>4, <1>5 DEF Places

(* A line that is processed goes from the package into the statistics of   *)
(* its worker.                                                             *)
LEMMA PlacesProcess ==
  ASSUME TypeInv, BufferInv, Places, NEW t \in Threads, ProcessLine(t)
  PROVE  Places'
<1> DEFINE line == CurrentLine(t)
<1>1. /\ line \in Lines /\ line \in Pending(t)
      /\ Unread' = Unread
      /\ Pending(t)' = Pending(t) \ {line}
      /\ Counted(t)' = Counted(t) \cup {line}
      /\ \A u \in Threads \ {t} : Pending(u)' = Pending(u) /\ Counted(u)' = Counted(u)
      /\ Merged' = Merged
  BY ProcessMoves DEF Places
<1>2. \A u \in Threads : Owned(u)' = Owned(u)
  BY <1>1 DEF Owned
<1>3. OnePlace'
  BY <1>1, <1>2 DEF Places, OnePlace
<1>4. NeverLost'
  BY <1>1, <1>2 DEF Places, NeverLost
<1>5. OnceThere'
  <2>1. /\ processors_results[t] \in [Lines -> Nat]
        /\ processors_results'[t] = [processors_results[t] EXCEPT ![line] = @ + 1]
        /\ \A u \in Threads \ {t} : processors_results'[u] = processors_results[u]
        /\ buffer' = buffer /\ total_result' = total_result
        /\ buffer[t] \in Seq(Lines) /\ line_i[t] \in Nat /\ line_i'[t] = line_i[t] + 1
        /\ \A u \in Threads \ {t} : line_i'[u] = line_i[u]
    BY DEF ProcessLine, TypeInv, TypeOK
  <2>2. processors_results[t][line] = 0
    BY <1>1, <2>1 DEF Places, OnePlace, Counted
  <2>3. \A l \in Lines : processors_results'[t][l] <= 1
    BY <2>1, <2>2 DEF Places, OnceThere
  <2>4. ASSUME NEW u \in Threads
        PROVE  \A m, n \in line_i'[u] .. Len(buffer'[u]) :
                  m # n => buffer'[u][m] # buffer'[u][n]
    <3>1. \A m, n \in line_i[u] .. Len(buffer[u]) : m # n => buffer[u][m] # buffer[u][n]
      BY DEF Places, OnceThere
    <3>2. CASE u = t
      <4>1. \A n \in line_i[t] + 1 .. Len(buffer[t]) : n \in line_i[t] .. Len(buffer[t])
        BY <2>1
      <4>2. buffer'[u] = buffer[u] /\ line_i'[u] = line_i[t] + 1
        BY <2>1, <3>2
      <4> QED
        BY <3>1, <3>2, <4>1, <4>2
    <3>3. CASE u # t
      BY <2>1, <3>1, <3>3
    <3> QED
      BY <3>2, <3>3
  <2>5. \A u \in Threads : \A l \in Lines : processors_results'[u][l] <= 1
    BY <2>1, <2>3 DEF Places, OnceThere
  <2>6. \A l \in Lines : total_result'[l] <= 1
    BY <2>1 DEF Places, OnceThere
  <2> QED
    BY <2>4, <2>5, <2>6 DEF OnceThere
<1> QED
  BY <1>3, <1>4, <1>5 DEF Places

(* The end of a package, all of which is processed, moves no line.         *)
LEMMA PlacesEnd ==
  ASSUME TypeInv, Places, NEW t \in Threads, ProcessEnd(t)
  PROVE  Places'
<1>1. /\ Pending(t) = {} /\ Pending(t)' = {}
      /\ \A u \in Threads \ {t} : Pending(u)' = Pending(u)
      /\ \A u \in Threads : Counted(u)' = Counted(u)
      /\ Unread' = Unread /\ Merged' = Merged
  BY EndMoves
<1>2. OnePlace' /\ NeverLost'
  BY <1>1 DEF Places, OnePlace, NeverLost, Owned
<1>3. OnceThere'
  <2>1. /\ buffer'[t] = <<>> /\ line_i'[t] = 1
        /\ \A u \in Threads \ {t} : buffer'[u] = buffer[u] /\ line_i'[u] = line_i[u]
        /\ processors_results' = processors_results /\ total_result' = total_result
    BY DEF ProcessEnd, TypeInv, TypeOK, statVars
  <2> QED
    BY <2>1 DEF Places, OnceThere
<1> QED
  BY <1>2, <1>3 DEF Places

(* Merging moves the lines of one worker into the printed statistics.      *)
LEMMA PlacesMerge ==
  ASSUME TypeInv, MainInv, BufferInv, Places, MergeResults
  PROVE  Places'
<1>0. PICK t \in Threads : t = main_i
  BY DEF MergeResults
<1>1. /\ Pending(t) = {}
      /\ Merged' = Merged \cup Counted(t)
      /\ Counted(t)' = {}
      /\ \A u \in Threads : Pending(u)' = Pending(u)
      /\ \A u \in Threads \ {t} : Counted(u)' = Counted(u)
      /\ Unread' = Unread
  BY <1>0, MergeMoves
<1>2. Owned(t) = Counted(t) /\ Owned(t)' = {} /\ \A u \in Threads \ {t} : Owned(u)' = Owned(u)
  BY <1>1 DEF Owned
<1>3. OnePlace'
  BY <1>1, <1>2 DEF Places, OnePlace
<1>4. NeverLost'
  BY <1>1, <1>2 DEF Places, NeverLost
<1>5. OnceThere'
  <2>1. /\ total_result \in [Lines -> Nat]
        /\ processors_results \in [Threads -> [Lines -> Nat]]
        /\ total_result' = [l \in Lines |-> total_result[l] + processors_results[t][l]]
        /\ processors_results'[t] = None
        /\ \A u \in Threads \ {t} : processors_results'[u] = processors_results[u]
        /\ buffer' = buffer /\ line_i' = line_i
    BY <1>0 DEF MergeResults, TypeInv, TypeOK, localVars
  <2>2. \A l \in Lines : total_result[l] = 0 \/ processors_results[t][l] = 0
    BY <1>1, <1>2, <2>1 DEF Places, OnePlace, Counted, Merged
  <2>3. ASSUME NEW l \in Lines PROVE total_result'[l] <= 1
    <3>1. total_result[l] \in Nat /\ processors_results[t][l] \in Nat
      BY <2>1
    <3>2. total_result[l] <= 1 /\ processors_results[t][l] <= 1
      BY DEF Places, OnceThere
    <3>3. total_result'[l] = total_result[l] + processors_results[t][l]
      BY <2>1
    <3> QED
      BY <2>2, <3>1, <3>2, <3>3
  <2>4. ASSUME NEW u \in Threads, NEW l \in Lines PROVE processors_results'[u][l] <= 1
    <3>1. CASE u = t
      BY <2>1, <3>1 DEF None
    <3>2. CASE u # t
      BY <2>1, <3>2 DEF Places, OnceThere
    <3> QED
      BY <3>1, <3>2
  <2> QED
    BY <2>1, <2>3, <2>4 DEF Places, OnceThere
<1> QED
  BY <1>3, <1>4, <1>5 DEF Places

(* Every line is in exactly one place, in every state.                     *)
LEMMA PlacesInvariant == Spec => []Places
<1>1. ASSUME TypeInv, MainInv, BufferInv, Places, [Next]_vars PROVE Places'
  <2>1. CASE Main
    BY <1>1, <2>1, MainMoves, PlacesMerge, PlacesStay
  <2>2. ASSUME NEW t \in Threads, Worker(t) PROVE Places'
    BY <1>1, <2>2, WorkerMoves, PlacesRead, PlacesProcess, PlacesEnd, PlacesStay
  <2>3. CASE UNCHANGED vars
    <3>1. UNCHANGED placeVars
      BY <2>3 DEF vars, placeVars, fileVars, localVars, statVars
    <3> QED
      BY <1>1, <3>1, PlacesStay
  <2> QED
    BY <1>1, <2>1, <2>2, <2>3 DEF Next, Ended
<1> QED
  BY <1>1, PlacesInit, TypeInvInvariant, MainInvInvariant, BufferInvInvariant, PTL DEF Spec
-----------------------------------------------------------------------------
(* Nothing is left to merge, and nothing to read.                          *)
LEMMA MergeInvInvariant == Spec => []MergeInv
<1>1. Init => MergeInv
  BY DEF Init, MergeInv
<1>2. ASSUME TypeInv, MainInv, FileInv, ScanInv, MergeInv, [Next]_vars PROVE MergeInv'
  <2>1. CASE Main
    <3>1. UNCHANGED pos /\ main_pc \in {"list", "open", "create", "join", "merge", "destroy"}
      BY <1>2, <2>1, MainShape DEF TypeInv, TypeOK
    <3>2. CASE MergeResults
      <4>1. PICK t \in Threads : t = main_i
        BY <3>2 DEF MergeResults
      <4>2. /\ main_pc = "merge" /\ main_pc' = "merge" /\ main_i' = t + 1
            /\ processors_results'[t] = None
            /\ \A u \in Threads \ {t} : processors_results'[u] = processors_results[u]
        BY <1>2, <3>2, <4>1 DEF MergeResults, MainAt, TypeInv, TypeOK
      <4>3. ASSUME NEW u \in Threads, u < t + 1, NEW l \in Lines
            PROVE  processors_results'[u][l] = 0
        <5>1. CASE u = t
          BY <4>2, <5>1 DEF None
        <5>2. CASE u # t
          <6>1. u < t
            BY <4>3, <5>2, IndexFacts
          <6> QED
            BY <1>2, <4>1, <4>2, <5>2, <6>1 DEF MergeInv
        <5> QED
          BY <5>1, <5>2
      <4> QED
        BY <1>2, <3>1, <4>2, <4>3 DEF MergeInv
    <3>3. CASE AllThreadsJoined
      <4>1. main_pc' = "merge" /\ main_i' = 1 /\ ~\E u \in Threads : u < 1
        BY <3>3 DEF AllThreadsJoined, GoTo, Threads
      <4>2. \A t \in Threads : pc[t] = "exited"
        BY <1>2, <3>3, ThreadsAssumption DEF AllThreadsJoined, MainAt, MainInv, Threads
      <4>3. 1 \in Threads
        BY ThreadsAssumption DEF Threads
      <4>4. \A f \in Files : done[f] /\ file[f] = "open"
        BY <1>2, <3>3, <4>2, <4>3 DEF AllThreadsJoined, MainAt, MainInv, ScanInv
      <4> QED
        BY <1>2, <3>1, <4>1, <4>4 DEF MergeInv, FileInv, DoneMeansRead
    <3>4. CASE AllResultsMerged
      <4>1. /\ main_pc = "merge" /\ main_i = NThreads + 1 /\ main_pc' = "destroy"
            /\ UNCHANGED processors_results
        BY <3>4 DEF AllResultsMerged, MainAt, GoTo, statVars
      <4>2. \A t \in Threads : t < main_i
        BY <4>1, ThreadsAssumption DEF Threads
      <4> QED
        BY <1>2, <3>1, <4>1, <4>2 DEF MergeInv
    <3>5. CASE ~MergeResults /\ ~AllThreadsJoined /\ ~AllResultsMerged
      <4>1. /\ UNCHANGED processors_results
            /\ \/ main_pc' \notin {"merge", "destroy"}
               \/ UNCHANGED main_pc /\ (main_pc = "merge" => UNCHANGED main_i)
        BY <2>1, <3>5
           DEF Main, ListFiles, FileWithMutexInit, AllFilesOpen, CreateThread, AllThreadsCreated,
               JoinThread, FileWithMutexDestroy, PrintResults, MainFails,
               MainAt, GoTo, End, mainVars, statVars
      <4> QED
        BY <1>2, <3>1, <4>1 DEF MergeInv
    <3> QED
      BY <3>2, <3>3, <3>4, <3>5
  <2>2. ASSUME NEW t \in Threads, Worker(t) PROVE MergeInv'
    <3>1. main_pc \notin {"merge", "destroy"} /\ UNCHANGED main_pc
      BY <1>2, <2>2, WorkerShape DEF MainInv
    <3> QED
      BY <3>1 DEF MergeInv
  <2>3. CASE UNCHANGED vars
    BY <1>2, <2>3 DEF MergeInv, vars, mainVars, fileVars, statVars
  <2> QED
    BY <1>2, <2>1, <2>2, <2>3 DEF Next, Ended
<1> QED
  BY <1>1, <1>2, TypeInvInvariant, MainInvInvariant, FileInvInvariant, ScanInvInvariant, PTL DEF Spec

-----------------------------------------------------------------------------
(* The safety properties.                                                  *)

(* The conjunction that TLC checks as IndInv holds in every state.         *)
THEOREM Inductive == Spec => []IndInv
<1>1. TypeInv /\ MainInv /\ FileInv /\ ScanInv /\ BufferInv /\ MergeInv /\ Places => IndInv
  BY DEF IndInv, TypeInv, Places, NeverTwice
<1> QED
  BY <1>1, TypeInvInvariant, MainInvInvariant, FileInvInvariant, ScanInvInvariant,
     BufferInvInvariant, MergeInvInvariant, PlacesInvariant, PTL

(* Two workers are never in the critical section of one file.              *)
THEOREM Exclusion == Spec => []MutualExclusion
<1>1. LockInv => MutualExclusion
  BY DEF LockInv, MutualExclusion
<1>2. IndInv => LockInv
  BY DEF IndInv, FileInv
<1> QED
  BY <1>1, <1>2, Inductive, PTL

(* The second check of done closes the gap that the first one leaves.      *)
THEOREM SecondCheckSuffices == Spec => []FinishedIsNotRead
<1>1. IndInv => FinishedIsNotRead
  BY DEF IndInv, FileInv, LockInv, FinishedIsNotRead
<1> QED
  BY <1>1, Inductive, PTL

(* A file without read errors is marked done at its end, not before.       *)
THEOREM FinishedFilesAreRead == Spec => []DoneMeansRead
<1>1. IndInv => DoneMeansRead
  BY DEF IndInv, FileInv
<1> QED
  BY <1>1, Inductive, PTL

(* No worker gives up while a file is unfinished.                          *)
THEOREM NobodyGivesUp == Spec => []ExitMeansFinished
<1>1. IndInv => ExitMeansFinished
  BY DEF IndInv, ScanInv, ExitMeansFinished
<1> QED
  BY <1>1, Inductive, PTL

(* Nothing is merged, destroyed or closed while a worker can use it.       *)
THEOREM JoinSuffices == Spec => []NoUseAfterDestroy
<1>1. IndInv => NoUseAfterDestroy
  BY DEF IndInv, TypeOK, MainInv, NoUseAfterDestroy
<1> QED
  BY <1>1, Inductive, PTL

(* No line is in two places, nor twice in one.                             *)
THEOREM CountedAtMostOnce == Spec => []NeverTwice
<1>1. IndInv => NeverTwice
  BY DEF IndInv
<1> QED
  BY <1>1, Inductive, PTL

(* Every line is unread, pending, counted or merged.                       *)
THEOREM NoLineIsLost == Spec => []NeverLost
<1>1. IndInv => NeverLost
  BY DEF IndInv
<1> QED
  BY <1>1, Inductive, PTL

(* At the destruction of the files only the total and the unread rest of   *)
(* the files with read errors hold lines.                                  *)
LEMMA AllMerged ==
  ASSUME IndInv, main_pc = "destroy"
  PROVE  /\ \A t \in Threads : Owned(t) = {}
         /\ \A l \in Lines : l[1] \notin ReadErrors => l \in Merged
<1>1. ASSUME NEW t \in Threads PROVE Owned(t) = {}
  <2>1. pc[t] = "exited"
    BY DEF IndInv, MainInv
  <2>2. buffer[t] = <<>> /\ line_i[t] = 1
    BY <2>1 DEF IndInv, BufferInv
  <2>3. Pending(t) = {}
    BY <2>2 DEF Pending
  <2>4. Counted(t) = {}
    BY DEF IndInv, MergeInv, Counted
  <2> QED
    BY <2>3, <2>4 DEF Owned
<1>2. ASSUME NEW l \in Lines, l[1] \notin ReadErrors PROVE l \in Merged
  <2>1. l[1] \in Files \ ReadErrors /\ l[2] \in 1 .. LineCount[l[1]] /\ LineCount[l[1]] \in Nat
    BY <1>2, LinesFacts, LineCountAssumption
  <2>2. pos[l[1]] = LineCount[l[1]]
    BY <2>1 DEF IndInv, MergeInv
  <2>3. l \notin Unread
    BY <2>1, <2>2 DEF Unread
  <2> QED
    BY <1>1, <2>3 DEF IndInv, NeverLost
<1> QED
  BY <1>1, <1>2

(* What is printed counts every line once.                                 *)
THEOREM PrintedStatisticsAreComplete == Spec => []PrintedIsComplete
<1>1. ASSUME IndInv, status = "printed", NEW l \in Lines
      PROVE  IF l[1] \in ReadErrors THEN total_result[l] \in {0, 1} ELSE total_result[l] = 1
  <2>1. total_result[l] \in Nat /\ total_result[l] <= 1
    BY <1>1 DEF IndInv, TypeOK, NeverTwice, OnceThere
  <2>2. main_pc = "destroy"
    BY <1>1 DEF IndInv, MainInv
  <2>3. l[1] \notin ReadErrors => total_result[l] > 0
    BY <1>1, <2>2, AllMerged DEF Merged
  <2> QED
    BY <2>1, <2>3
<1>2. IndInv => PrintedIsComplete
  BY <1>1 DEF PrintedIsComplete
<1> QED
  BY <1>2, Inductive, PTL

-----------------------------------------------------------------------------
(* The action properties.                                                  *)

(* A finished file is neither read nor taken up again.                     *)
THEOREM FinishedStaysFinished == Spec => FinishedIsFinal
<1>1. ASSUME IndInv, [Next]_vars, NEW f \in Files, file[f] = "open", done[f]
      PROVE  done'[f] /\ pos'[f] = pos[f]
  <2>0. TypeInv /\ MainInv
    BY <1>1 DEF IndInv, TypeInv, IndexInv, FileInv, LockInv
  <2>1. CASE Main
    <3>1. UNCHANGED pos
      BY <2>0, <2>1, MainShape
    <3>2. CASE FileWithMutexInit
      <4>1. f # main_i
        BY <1>1, <2>0, <3>2, IndexFacts DEF FileWithMutexInit, MainAt, MainInv
      <4> QED
        BY <1>1, <2>0, <3>1, <3>2, <4>1 DEF FileWithMutexInit, TypeInv, TypeOK
    <3>3. CASE FileWithMutexDestroy
      BY <1>1, <2>0, <3>1, <3>3 DEF FileWithMutexDestroy, TypeInv, TypeOK
    <3>4. CASE ~FileWithMutexInit /\ ~FileWithMutexDestroy
      <4>1. UNCHANGED done
        BY <2>1, <3>4
           DEF Main, ListFiles, AllFilesOpen, CreateThread, AllThreadsCreated, JoinThread,
               AllThreadsJoined, MergeResults, AllResultsMerged, PrintResults, MainFails,
               End, fileVars
      <4> QED
        BY <1>1, <3>1, <4>1
    <3> QED
      BY <3>2, <3>3, <3>4
  <2>2. ASSUME NEW t \in Threads, Worker(t) PROVE done'[f] /\ pos'[f] = pos[f]
    <3>1. done'[f]
      BY <1>1, <2>0, <2>2, DoneStays
    <3>2. CASE ReadLine(t)
      <4>1. i[t] \in Files /\ i[t] # f
        BY <1>1, <3>2 DEF ReadLine, At, IndInv, FileInv, LockInv, Locked
      <4> QED
        BY <1>1, <2>0, <3>1, <3>2, <4>1 DEF ReadLine, TypeInv, TypeOK
    <3>3. CASE ~ReadLine(t)
      <4>1. UNCHANGED pos
        BY <2>2, <3>3, CheckDoneStep, TryLockStep
           DEF Worker, RecheckDone, SkipFinished, EndScan, ReadEnd, ReadLimit, MarkDone, Unlock,
               ProcessLine, ProcessNoSize, ProcessNoReferer, ProcessEnd, End, fileVars
      <4> QED
        BY <3>1, <4>1
    <3> QED
      BY <3>2, <3>3
  <2>3. CASE UNCHANGED vars
    BY <1>1, <2>3 DEF vars, fileVars
  <2> QED
    BY <1>1, <2>1, <2>2, <2>3 DEF Next, Ended
<1>2. IndInv /\ [Next]_vars =>
         [\A f \in Files : file[f] = "open" /\ done[f] => done'[f] /\ pos'[f] = pos[f]]_vars
  BY <1>1
<1> QED
  BY <1>2, Inductive, PTL DEF Spec, FinishedIsFinal

(* The position of a FILE is moved by the owner of its mutex.              *)
THEOREM PositionIsProtected == Spec => ReadUnderLock
<1>1. ASSUME IndInv, [Next]_vars, NEW f \in Files, pos'[f] # pos[f]
      PROVE  /\ pos'[f] = pos[f] + 1
             /\ mutex[f] \in Threads /\ pc[mutex[f]] = "read" /\ i[mutex[f]] = f
  <2>0. TypeInv /\ MainInv
    BY <1>1 DEF IndInv, TypeInv, IndexInv, FileInv, LockInv
  <2>1. PICK t \in Threads : ReadLine(t)
    <3>1. ~Main
      BY <1>1, <2>0, MainShape
    <3>2. ASSUME NEW t \in Threads, Worker(t), ~ReadLine(t) PROVE FALSE
      BY <1>1, <3>2, CheckDoneStep, TryLockStep
         DEF Worker, RecheckDone, SkipFinished, EndScan, ReadEnd, ReadLimit, MarkDone, Unlock,
             ProcessLine, ProcessNoSize, ProcessNoReferer, ProcessEnd, End, fileVars
    <3>3. ~UNCHANGED vars
      BY <1>1 DEF vars, fileVars
    <3> QED
      BY <1>1, <3>1, <3>2, <3>3 DEF Next, Ended
  <2>2. /\ pc[t] = "read" /\ i[t] \in Files /\ mutex[i[t]] = t
        /\ pos' = [pos EXCEPT ![i[t]] = @ + 1] /\ pos \in [Files -> Nat]
    BY <1>1, <2>0, <2>1 DEF ReadLine, At, IndInv, FileInv, LockInv, Locked, TypeInv, TypeOK
  <2>3. f = i[t]
    BY <1>1, <2>2
  <2> QED
    BY <2>2, <2>3
<1>2. IndInv /\ [Next]_vars =>
         [\A f \in Files : pos'[f] # pos[f] =>
            /\ pos'[f] = pos[f] + 1
            /\ mutex[f] \in Threads /\ pc[mutex[f]] = "read" /\ i[mutex[f]] = f]_vars
  BY <1>1
<1> QED
  BY <1>2, Inductive, PTL DEF Spec, ReadUnderLock

-----------------------------------------------------------------------------
(* The refinement.  Its steps, in terms of the mapped variables.           *)
LEMMA SameLines == UNCHANGED <<processors_results, total_result>> => UNCHANGED InStatistics
BY DEF InStatistics, Merged, Counted

(* A step that keeps status and InStatistics is a stutter of LogCounting.  *)
LEMMA Stutters ==
  ASSUME UNCHANGED InStatistics, UNCHANGED status,
         status = "running" \/ UNCHANGED total_result
  PROVE  UNCHANGED Counting!absVars
BY DEF Counting!absVars, Outcome, Published

(* A step that ends the program without printing is a Stop.                *)
LEMMA Stops ==
  ASSUME NEW how, how \in {"empty", "error", "exit0", "crashed"},
         status = "running", End(how)
  PROVE  Counting!AbsNext
<1>1. UNCHANGED InStatistics
  BY SameLines DEF End, statVars
<1>2. Outcome = "running" /\ Outcome' = "stopped" /\ UNCHANGED Published
  BY DEF End, Outcome, Published
<1> QED
  BY <1>1, <1>2 DEF Counting!AbsNext, Counting!Stop

(* A step of the main thread is a step of LogCounting or a stutter.        *)
LEMMA MainRefines ==
  ASSUME IndInv, TypeInv, Main
  PROVE  Counting!AbsNext \/ UNCHANGED Counting!absVars
<1>1. CASE MergeResults
  <2>0. PICK t \in Threads : t = main_i
    BY <1>1 DEF MergeResults
  <2>1. /\ Merged' = Merged \cup Counted(t) /\ Counted(t)' = {}
        /\ \A u \in Threads \ {t} : Counted(u)' = Counted(u)
    BY <1>1, <2>0, MergeMoves DEF IndInv
  <2>2. UNCHANGED InStatistics
    BY <2>1 DEF InStatistics
  <2> QED
    BY <1>1, <2>2, Stutters DEF MergeResults, MainAt
<1>2. CASE PrintResults
  <2>1. status = "running" /\ main_pc = "destroy" /\ End("printed")
    BY <1>2 DEF PrintResults, MainAt
  <2>2. InStatistics = Merged
    BY <2>1, AllMerged DEF InStatistics, Owned
  <2>3. Readable \subseteq InStatistics
    BY <2>1, <2>2, AllMerged DEF Readable
  <2>4. total_result \in [Lines -> Nat] /\ \A l \in Lines : total_result[l] <= 1
    BY DEF IndInv, TypeOK, NeverTwice, OnceThere
  <2>5. \A l \in Lines : total_result[l] = IF l \in InStatistics THEN 1 ELSE 0
    BY <2>2, <2>4 DEF Merged
  <2>6. total_result = [l \in Lines |-> IF l \in InStatistics THEN 1 ELSE 0]
    BY <2>4, <2>5
  <2>7. UNCHANGED InStatistics
    BY <2>1, SameLines DEF End, statVars
  <2>8. /\ Outcome = "running" /\ Outcome' = "printed"
        /\ Published' = total_result
    BY <2>1 DEF End, statVars, Outcome, Published
  <2> QED
    BY <2>3, <2>6, <2>7, <2>8 DEF Counting!AbsNext, Counting!Publish
<1>3. CASE MainFails
  BY <1>3, Stops DEF MainFails, MainAt
<1>4. CASE ListFiles /\ FilesN = 0
  BY <1>4, Stops DEF ListFiles, MainAt
<1>5. CASE ~MergeResults /\ ~PrintResults /\ ~MainFails /\ ~(ListFiles /\ FilesN = 0)
  <2>1. UNCHANGED <<status, processors_results, total_result>>
    BY <1>5
       DEF Main, ListFiles, FileWithMutexInit, AllFilesOpen, CreateThread, AllThreadsCreated,
           JoinThread, AllThreadsJoined, AllResultsMerged, FileWithMutexDestroy, statVars
  <2> QED
    BY <2>1, SameLines, Stutters
<1> QED
  BY <1>1, <1>2, <1>3, <1>4, <1>5

(* A step of a worker is a step of LogCounting or a stutter.               *)
LEMMA WorkerRefines ==
  ASSUME IndInv, TypeInv, NEW t \in Threads, Worker(t)
  PROVE  Counting!AbsNext \/ UNCHANGED Counting!absVars
<1>1. CASE ProcessLine(t)
  <2>0. PICK line : line = CurrentLine(t)
    OBVIOUS
  <2>1. /\ line \in Lines /\ line \in Pending(t)
        /\ Counted(t)' = Counted(t) \cup {line}
        /\ \A u \in Threads \ {t} : Counted(u)' = Counted(u)
        /\ Merged' = Merged
    BY <1>1, <2>0, ProcessMoves DEF IndInv, NeverTwice
  <2>2. line \notin InStatistics
    BY <2>1 DEF IndInv, NeverTwice, OnePlace, Owned, InStatistics
  <2>3. InStatistics' = InStatistics \cup {line}
    BY <2>1 DEF InStatistics
  <2>4. Outcome = "running" /\ UNCHANGED <<Outcome, Published>>
    BY <1>1 DEF ProcessLine, At, Outcome, Published
  <2> QED
    BY <2>1, <2>2, <2>3, <2>4 DEF Counting!AbsNext, Counting!Count
<1>2. CASE ProcessNoSize(t)
  BY <1>2, Stops DEF ProcessNoSize, At
<1>3. CASE ProcessNoReferer(t)
  BY <1>3, Stops DEF ProcessNoReferer, At
<1>4. CASE ~ProcessLine(t) /\ ~ProcessNoSize(t) /\ ~ProcessNoReferer(t)
  <2>1. UNCHANGED <<status, processors_results, total_result>>
    BY <1>4
       DEF Worker, CheckDone, TryLock, RecheckDone, SkipFinished, EndScan, ReadLine, ReadEnd,
           ReadLimit, MarkDone, Unlock, ProcessEnd, statVars
  <2> QED
    BY <2>1, SameLines, Stutters
<1> QED
  BY <1>1, <1>2, <1>3, <1>4

(* The log processor, with its threads, locks, buffers and merge, does     *)
(* what LogCounting does: it counts each line at most once, and publishes  *)
(* statistics only when they count every readable line exactly once.       *)
THEOREM ImplementsLogCounting == Spec => CountingSafety
<1>1. Init => Counting!AbsInit
  <2> SUFFICES ASSUME Init PROVE Counting!AbsInit
    OBVIOUS
  <2>1. Merged = {} /\ \A t \in Threads : Counted(t) = {}
    BY DEF Init, Merged, Counted, None
  <2>2. InStatistics = {}
    BY <2>1 DEF InStatistics
  <2>3. Outcome = "running" /\ Published = None
    BY DEF Init, Outcome, Published
  <2> QED
    BY <2>2, <2>3 DEF Counting!AbsInit, Counting!Nothing, None
<1>2. ASSUME IndInv, [Next]_vars PROVE [Counting!AbsNext]_(Counting!absVars)
  <2>0. TypeInv
    BY <1>2 DEF IndInv, TypeInv, IndexInv, FileInv, LockInv
  <2>1. CASE UNCHANGED vars
    BY <2>1, SameLines, Stutters DEF vars, statVars
  <2> QED
    BY <1>2, <2>0, <2>1, MainRefines, WorkerRefines DEF Next, Ended
<1> QED
  BY <1>1, <1>2, Inductive, PTL DEF Spec, CountingSafety
=============================================================================
