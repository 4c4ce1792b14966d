---------------------------- MODULE MonitorProofs ----------------------------
(***************************************************************************)
(* What the daemons that monitor a file (FileMonitor) promise of the sizes *)
(* that the servers print, as MyDaemon puts them together: that a server   *)
(* finds the sizes in the bytes it receives, that it prints them in the    *)
(* order in which the file had them, and that it knows the size of the     *)
(* file when nothing is on its way.                                        *)
(*                                                                         *)
(* A property of one connection is an invariant of the whole pipe: of the  *)
(* bytes in the socket and in the buffer of the server, of what the daemon *)
(* is about to send, and of the events that it has not read yet.           *)
(***************************************************************************)
EXTENDS MyDaemon, DataLemmas

-----------------------------------------------------------------------------
(* The PID file alone, for any set of daemons.                             *)

(* What the lock is worth: the process that holds it is the one that has a *)
(* PIDFileFD, and the handler does something in that process only.         *)
LockInv ==
    \A d \in Daemons :
        /\ dpc[d] \in HasPIDFile <=> holder = d
        /\ handler[d] # "none" => dpc[d] \in HasPIDFile

(* What d's pid does to the file, and what it leaves there.                *)
LEMMA WrittenType ==
    ASSUME PidTypeOK, NEW d \in Daemons
    PROVE  Written(d) \in Seq(Daemons \cup {Nul})
<1> DEFINE n == IF Len(content) > offset[d] THEN Len(content) ELSE offset[d] + 1
<1>1. Len(content) \in Nat /\ offset[d] \in Nat
  BY DEF PidTypeOK
<1>2. n \in Nat
  BY <1>1
<1>3. \A i \in 1 .. Len(content) : content[i] \in Daemons \cup {Nul}
  BY DEF PidTypeOK
<1>4. \A i \in 1 .. n :
        (IF i = offset[d] + 1 THEN d ELSE IF i <= Len(content) THEN content[i] ELSE Nul) \in Daemons \cup {Nul}
  BY <1>1, <1>2, <1>3
<1>5. Written(d) = [i \in 1 .. n |->
        IF i = offset[d] + 1 THEN d ELSE IF i <= Len(content) THEN content[i] ELSE Nul]
  BY DEF Written
<1> HIDE DEF n
<1>6. Written(d) \in [1 .. n -> Daemons \cup {Nul}]
  BY <1>4, <1>5
<1>7. QED
  BY <1>2, <1>6

(* The type invariant: the state is what the calls make it, in particular  *)
(* offset stays a natural number.                                          *)
THEOREM TypeCorrect == PidSpec => []PidTypeOK
<1>1. PidInit => PidTypeOK
  BY HangupsAssumption DEF PidInit, PidTypeOK
<1>2. PidTypeOK /\ [PidNext]_pidVars => PidTypeOK'
  <2> SUFFICES ASSUME PidTypeOK, [PidNext]_pidVars
               PROVE  PidTypeOK'
    OBVIOUS
  <2>1. CASE UNCHANGED pidVars
    BY <2>1 DEF PidTypeOK, pidVars
  <2>2. CASE PidNext
    <3>1. PICK d \in Daemons : Daemonize(d) \/ UpdateFails(d) \/ HandlerFails(d) \/ Hangup(d) \/ Exit(d)
      BY <2>2 DEF PidNext
    <3>2. Written(d) \in Seq(Daemons \cup {Nul})
      BY WrittenType
    <3>3. CASE SetSignal(d) \/ Open(d) \/ AlreadyRunning(d) \/ UpdateFails(d)
      BY <3>3 DEF PidTypeOK, SetSignal, Open, AlreadyRunning, UpdateFails, Moves, HasPIDFile, Over
    <3>4. CASE LockFile(d)
      BY <3>4 DEF PidTypeOK, LockFile, Moves, HasPIDFile, Over
    <3>5. CASE Truncate(d) \/ HandlerTruncates(d)
      <4>0. content' = <<>>
        BY <3>5 DEF Truncate, HandlerTruncates
      <4>1. content' \in Seq(Daemons \cup {Nul})
        BY <4>0
      <4>2. CASE Truncate(d)
        BY <4>1, <4>2 DEF PidTypeOK, Truncate, Moves, HasPIDFile, Over
      <4>3. CASE HandlerTruncates(d)
        BY <4>1, <4>3 DEF PidTypeOK, HandlerTruncates
      <4>4. QED
        BY <3>5, <4>2, <4>3
    <3>6. CASE Write(d) \/ HandlerWrites(d)
      <4>1. content' \in Seq(Daemons \cup {Nul})
        BY <3>2, <3>6 DEF Write, HandlerWrites
      <4>2. offset' \in [Daemons -> Nat]
        <5>1. offset' = [offset EXCEPT ![d] = @ + 1]
          BY <3>6 DEF Write, HandlerWrites
        <5>2. QED
          BY <5>1 DEF PidTypeOK
      <4>3. CASE Write(d)
        BY <4>1, <4>2, <4>3 DEF PidTypeOK, Write, Moves, HasPIDFile, Over
      <4>4. CASE HandlerWrites(d)
        BY <4>1, <4>2, <4>4 DEF PidTypeOK, HandlerWrites
      <4>5. QED
        BY <3>6, <4>3, <4>4
    <3>7. CASE HandlerFails(d)
      BY <3>7 DEF PidTypeOK, HandlerFails
    <3>8. CASE Hangup(d)
      <4>1. hangups' \in 0 .. MaxHangups
        BY <3>8, HangupsAssumption DEF PidTypeOK, Hangup
      <4>2. CASE dpc[d] = "start"
        BY <3>8, <4>1, <4>2 DEF PidTypeOK, Hangup, HasPIDFile, Over
      <4>3. CASE dpc[d] \in HasPIDFile
        BY <3>8, <4>1, <4>3 DEF PidTypeOK, Hangup, HasPIDFile, Over
      <4>4. QED
        BY <3>8, <4>2, <4>3 DEF Hangup
    <3>9. CASE Exit(d)
      BY <3>9 DEF PidTypeOK, Exit, HasPIDFile, Over
    <3>10. QED
      BY <3>1, <3>3, <3>4, <3>5, <3>6, <3>7, <3>8, <3>9 DEF Daemonize
  <2>3. QED
    BY <2>1, <2>2
<1>3. QED
  BY <1>1, <1>2, PTL DEF PidSpec

(* The lock and the program counters agree in every state.                 *)
THEOREM LockInvariant == PidSpec => []LockInv
<1>1. PidInit => LockInv
  BY DaemonsAssumption DEF PidInit, LockInv, HasPIDFile
<1>2. PidTypeOK /\ LockInv /\ [PidNext]_pidVars => LockInv'
  <2> SUFFICES ASSUME PidTypeOK, LockInv, [PidNext]_pidVars
               PROVE  LockInv'
    OBVIOUS
  <2> USE DEF LockInv, HasPIDFile
  <2>1. CASE UNCHANGED pidVars
    BY <2>1 DEF pidVars
  <2>2. CASE PidNext
    <3>1. PICK d \in Daemons : Daemonize(d) \/ UpdateFails(d) \/ HandlerFails(d) \/ Hangup(d) \/ Exit(d)
      BY <2>2 DEF PidNext
    <3>2. CASE SetSignal(d) \/ Open(d) \/ AlreadyRunning(d)
      BY <3>2 DEF PidTypeOK, SetSignal, Open, AlreadyRunning, Moves
    <3>3. CASE LockFile(d)
      BY <3>3, DaemonsAssumption DEF PidTypeOK, LockFile, IsLocked, Moves
    <3>4. CASE Truncate(d) \/ Write(d) \/ UpdateFails(d)
      BY <3>4 DEF PidTypeOK, Truncate, Write, UpdateFails, Moves
    <3>5. CASE HandlerTruncates(d) \/ HandlerWrites(d) \/ HandlerFails(d)
      BY <3>5 DEF PidTypeOK, HandlerTruncates, HandlerWrites, HandlerFails
    <3>6. CASE Hangup(d)
      BY <3>6 DEF PidTypeOK, Hangup
    <3>7. CASE Exit(d)
      BY <3>7, DaemonsAssumption DEF PidTypeOK, Exit
    <3>8. QED
      BY <3>1, <3>2, <3>3, <3>4, <3>5, <3>6, <3>7 DEF Daemonize
  <2>3. QED
    BY <2>1, <2>2
<1>3. QED
  BY <1>1, <1>2, TypeCorrect, PTL DEF PidSpec

(* At most one daemon is past the lock: both would hold it.                *)
THEOREM AtMostOneDaemon == PidSpec => []OneDaemon
<1>1. LockInv => OneDaemon
  BY DEF LockInv, OneDaemon
<1>2. QED
  BY <1>1, LockInvariant, PTL

(* A daemon that finds the file locked finds a process that holds it, and  *)
(* that is past the lock: a file that a dead daemon left is not locked.    *)
THEOREM LiveDaemonsBlock == PidSpec => OnlyALiveDaemonBlocks
<1> DEFINE Blocks == \A d \in Daemons : dpc[d] = "lock" /\ dpc'[d] = "running_already" =>
                        \E e \in Daemons \ {d} : dpc[e] \in HasPIDFile
<1>1. PidTypeOK /\ LockInv /\ [PidNext]_pidVars => [Blocks]_pidVars
  <2> SUFFICES ASSUME PidTypeOK, LockInv, PidNext,
                      NEW d \in Daemons, dpc[d] = "lock", dpc'[d] = "running_already"
               PROVE  \E e \in Daemons \ {d} : dpc[e] \in HasPIDFile
    OBVIOUS
  <2>1. PICK c \in Daemons : Daemonize(c) \/ UpdateFails(c) \/ HandlerFails(c) \/ Hangup(c) \/ Exit(c)
    BY DEF PidNext
  <2>2. IsLocked(d)
    <3>1. CASE AlreadyRunning(c)
      BY <3>1 DEF AlreadyRunning, IsLocked
    <3>2. CASE ~AlreadyRunning(c)
      BY <2>1, <3>2 DEF PidTypeOK, Daemonize, SetSignal, Open, LockFile, Truncate, Write,
         HandlerTruncates, HandlerWrites, UpdateFails, HandlerFails, Hangup, Exit, Moves, HasPIDFile, Over
    <3>3. QED
      BY <3>1, <3>2
  <2>3. holder \in Daemons /\ dpc[holder] \in HasPIDFile
    BY <2>2 DEF IsLocked, PidTypeOK, LockInv
  <2>4. holder # d
    BY <2>3 DEF HasPIDFile
  <2>5. QED
    BY <2>3, <2>4
<1>2. QED
  BY <1>1, TypeCorrect, LockInvariant, PTL DEF PidSpec, OnlyALiveDaemonBlocks

(* The file changes only in a step of the process that holds the lock.     *)
THEOREM HolderWrites == PidSpec => OnlyTheHolderWrites
<1> DEFINE Holds == content' # content => \E d \in Daemons : holder = d /\ dpc[d] \in HasPIDFile
<1>1. LockInv /\ [PidNext]_pidVars => [Holds]_pidVars
  <2> SUFFICES ASSUME LockInv, PidNext, content' # content
               PROVE  \E d \in Daemons : holder = d /\ dpc[d] \in HasPIDFile
    OBVIOUS
  <2>1. PICK d \in Daemons : Truncate(d) \/ Write(d) \/ HandlerTruncates(d) \/ HandlerWrites(d)
    BY DEF PidNext, Daemonize, SetSignal, Open, LockFile, AlreadyRunning, UpdateFails, HandlerFails, Hangup, Exit
  <2>2. dpc[d] \in HasPIDFile
    BY <2>1 DEF LockInv, HasPIDFile, Truncate, Write, HandlerTruncates, HandlerWrites, Moves
  <2>3. QED
    BY <2>2 DEF LockInv
<1>2. QED
  BY <1>1, LockInvariant, PTL DEF PidSpec, OnlyTheHolderWrites

(* The file between the two calls of UpdatePIDFile and after them, before  *)
(* the first SIGHUP.                                                       *)
FileInv ==
    hangups = 0 => \A d \in Daemons :
        /\ handler[d] = "none"
        /\ dpc[d] \in {"start", "detach", "lock", "truncate", "write"} => offset[d] = 0
        /\ dpc[d] = "write" => content = <<>>
        /\ dpc[d] = "run" /\ offset[d] # 0 => content = <<d>>

(* Until the first SIGHUP the file holds the pid of the daemon that runs   *)
(* and nothing else, whatever was in it: that takes both the lock, which   *)
(* keeps the others from writing, and the offset 0 of a file just opened.  *)
THEOREM FileIsFresh == PidSpec => []PIDFileIsFresh
<1>1. PidInit => FileInv
  BY DEF PidInit, FileInv
<1>2. PidTypeOK /\ LockInv /\ FileInv /\ [PidNext]_pidVars => FileInv'
  <2> SUFFICES ASSUME PidTypeOK, LockInv, FileInv, [PidNext]_pidVars, hangups' = 0
               PROVE  FileInv'
    BY DEF FileInv
  <2>1. CASE UNCHANGED pidVars
    BY <2>1 DEF pidVars, FileInv
  <2>2. CASE PidNext
    <3>1. PICK d \in Daemons : Daemonize(d) \/ UpdateFails(d) \/ HandlerFails(d) \/ Hangup(d) \/ Exit(d)
      BY <2>2 DEF PidNext
    <3>2. ~Hangup(d)
      BY DEF Hangup, PidTypeOK
    <3>3. hangups = 0
      BY <3>1, <3>2 DEF Daemonize, SetSignal, Open, LockFile, AlreadyRunning, Truncate, Write,
         HandlerTruncates, HandlerWrites, UpdateFails, HandlerFails, Exit
    <3>4. ~HandlerTruncates(d) /\ ~HandlerWrites(d) /\ ~HandlerFails(d)
      BY <3>3 DEF FileInv, HandlerTruncates, HandlerWrites, HandlerFails
    <3>5. CASE SetSignal(d) \/ Open(d) \/ AlreadyRunning(d) \/ LockFile(d)
      BY <3>3, <3>5 DEF PidTypeOK, FileInv, SetSignal, Open, AlreadyRunning, LockFile, Moves
    <3>6. CASE UpdateFails(d)
      BY <3>3, <3>6 DEF PidTypeOK, FileInv, UpdateFails, Moves
    <3>7. CASE Exit(d)
      BY <3>3, <3>7 DEF PidTypeOK, FileInv, Exit
    <3>8. CASE Truncate(d)
      <4>1. \A e \in Daemons \ {d} : dpc[e] \notin HasPIDFile
        BY <3>8 DEF Truncate, Moves, LockInv, HasPIDFile
      <4>2. QED
        BY <3>3, <3>8, <4>1 DEF PidTypeOK, FileInv, Truncate, Moves, HasPIDFile
    <3>9. CASE Write(d)
      <4>1. \A e \in Daemons \ {d} : dpc[e] \notin HasPIDFile
        BY <3>9 DEF Write, Moves, LockInv, HasPIDFile
      <4>2. content = <<>> /\ offset[d] = 0
        BY <3>3, <3>9 DEF Write, Moves, FileInv
      <4>3. Written(d) = <<d>>
        BY <4>2 DEF Written
      <4>4. QED
        BY <3>3, <3>9, <4>1, <4>3 DEF PidTypeOK, FileInv, Write, Moves, HasPIDFile
    <3>10. QED
      BY <3>1, <3>2, <3>4, <3>5, <3>6, <3>7, <3>8, <3>9 DEF Daemonize
  <2>3. QED
    BY <2>1, <2>2
<1>3. FileInv => PIDFileIsFresh
  BY DEF FileInv, PIDFileIsFresh
<1>4. QED
  BY <1>1, <1>2, <1>3, TypeCorrect, LockInvariant, PTL DEF PidSpec

-----------------------------------------------------------------------------
(* The PID file in the composition.                                        *)

(* The composition implements PidFile: a step of the monitor, of a server  *)
(* or of the file leaves the PID file alone, and the end of a daemon,      *)
(* wherever it ends, is the end of its lock.                               *)
THEOREM ImplementsPidFile == Spec => PidSpec
<1>1. Init => PidInit
  BY DEF Init
<1>2. [Next]_vars => [PidNext]_pidVars
  <2> SUFFICES ASSUME [Next]_vars
               PROVE  PidNext \/ UNCHANGED pidVars
    OBVIOUS
  <2>1. CASE UNCHANGED vars
    BY <2>1 DEF vars
  <2>2. CASE \E d \in Daemons : Process(d) \/ Fault(d)
    <3>1. PICK d \in Daemons : Process(d) \/ Fault(d)
      BY <2>2
    <3>2. \/ Daemonize(d) \/ UpdateFails(d) \/ HandlerFails(d) \/ Hangup(d) \/ Exit(d)
          \/ UNCHANGED pidVars
      BY <3>1 DEF Process, Fault, DaemonizeStep, MonitorStep, MonitorExits
    <3>3. QED
      BY <3>2 DEF PidNext
  <2>3. CASE \E s \in Servers : ServerStep(s)
    BY <2>3 DEF ServerStep
  <2>4. CASE Others
    BY <2>4 DEF Others
  <2>5. QED
    BY <2>1, <2>2, <2>3, <2>4 DEF Next
<1>3. QED
  BY <1>1, <1>2, PTL DEF Spec, PidSpec

(* Of the daemons of the whole system at most one is past the lock.        *)
THEOREM OneDaemonMonitors == Spec => []OneDaemon
BY ImplementsPidFile, AtMostOneDaemon, PTL

(* A daemon that is connected is past the lock.                            *)
MonitorInv ==
    /\ pc \in [Daemons -> {"connect", "watch", "read", "event", "stat2", "send"} \cup Ended]
    /\ \A d \in Daemons : Connected(d) => dpc[d] \in HasPIDFile

(* The invariant of the composed program holds in every state.             *)
LEMMA MonitorInvariant == Spec => []MonitorInv
<1>1. Init => MonitorInv
  BY DEF Init, MonitorInit, MonitorInv, Connected
<1>2. PidTypeOK /\ MonitorInv /\ [Next]_vars => MonitorInv'
  <2> SUFFICES ASSUME PidTypeOK, MonitorInv, [Next]_vars
               PROVE  MonitorInv'
    OBVIOUS
  <2> USE DEF MonitorInv, Connected, Ended
  <2>1. CASE UNCHANGED vars
    BY <2>1 DEF vars, pidVars, monitorVars, daemonVars
  <2>2. ASSUME NEW d \in Daemons, Process(d) \/ Fault(d)
        PROVE  MonitorInv'
    <3>1. CASE \/ DaemonizeStep(d)
               \/ (UpdateFails(d) \/ HandlerFails(d) \/ Hangup(d)) /\ UNCHANGED monitorVars
      <4>1. UNCHANGED pc
        BY <3>1 DEF DaemonizeStep, monitorVars, daemonVars
      <4>2. \A e \in Daemons : dpc[e] \in HasPIDFile => dpc'[e] \in HasPIDFile
        BY <3>1 DEF PidTypeOK, DaemonizeStep, Daemonize, SetSignal, Open, LockFile, AlreadyRunning, Truncate,
           Write, HandlerTruncates, HandlerWrites, UpdateFails, HandlerFails, Hangup, Moves, HasPIDFile
      <4>3. QED
        BY <4>1, <4>2
    <3>2. CASE MonitorStep(d)
      <4>1. dpc[d] \in HasPIDFile /\ UNCHANGED dpc
        BY <3>2 DEF MonitorStep, Monitors, HasPIDFile, pidVars
      <4>2. \E p \in {"watch", "read", "event", "stat2", "send"} : pc' = [pc EXCEPT ![d] = p]
        BY <3>2 DEF MonitorStep, ConnectToServer, AddWatch, ReadEvents, Stat, UndefinedEvent, StatAgain, Send,
           AfterEvent
      <4>3. QED
        BY <4>1, <4>2
    <3>3. CASE Exit(d) /\ \E how \in Ended : pc' = [pc EXCEPT ![d] = how]
      <4>1. \A e \in Daemons \ {d} : dpc'[e] = dpc[e]
        BY <3>3 DEF Exit, PidTypeOK
      <4>2. QED
        BY <3>3, <4>1
    <3>4. CASE MonitorExits(d) \/ (SendIsCut(d) /\ Exit(d)) \/ (DaemonFails(d) /\ Exit(d))
      <4>1. Exit(d) /\ \E how \in Ended : pc' = [pc EXCEPT ![d] = how]
        BY <3>4 DEF MonitorExits, ConnectFails, AddWatchFails, StatFails, SendFails, SendIsCut, DaemonFails, End
      <4>2. QED
        BY <3>3, <4>1
    <3>5. QED
      BY <2>2, <3>1, <3>2, <3>4 DEF Process, Fault
  <2>3. CASE UNCHANGED <<pc, dpc>>
    BY <2>3
  <2>4. CASE \E s \in Servers : ServerStep(s)
    <3>1. PICK s \in Servers : Server(s) /\ UNCHANGED pidVars
      BY <2>4 DEF ServerStep
    <3>2. UNCHANGED <<pc, dpc>>
      BY <3>1 DEF Server, Unlink, Bind, BindFails, Listen, Accept, Recv, RecvEnd, PrintSize, IncorrectFormat,
         pidVars, daemonVars
    <3>3. QED
      BY <2>3, <3>2
  <2>5. CASE Others
    <3>1. UNCHANGED <<pc, dpc>>
      BY <2>5 DEF Others, Modify, Delete, Create, Change, ServerFails, pidVars, daemonVars
    <3>2. QED
      BY <2>3, <3>1
  <2>6. QED
    BY <2>1, <2>2, <2>4, <2>5 DEF Next
<1>3. Spec => []PidTypeOK
  BY ImplementsPidFile, TypeCorrect, PTL
<1>4. QED
  BY <1>1, <1>2, <1>3, PTL DEF Spec

(* One daemon at a time is connected: whoever is connected holds the lock, *)
(* from before the connection until after it.                              *)
THEOREM OneReports == Spec => []OneReporter
<1>1. MonitorInv /\ OneDaemon => OneReporter
  BY DEF MonitorInv, OneDaemon, OneReporter
<1>2. QED
  BY <1>1, MonitorInvariant, OneDaemonMonitors, PTL

Bytes == Sizes \X (1 .. WORD)
Events == {"IN_MODIFY", "IN_IGNORED"}
OptionalSizes == Sizes \cup {NoSize}

(* The type of each variable, and what the program counters say of others. *)
MonitorTypeOK ==
    /\ size \in OptionalSizes
    /\ deleted \in BOOLEAN
    /\ pc \in [Daemons -> {"connect", "watch", "read", "event", "stat2", "send"} \cup Ended]
    /\ watching \subseteq Daemons
    /\ queue \in [Daemons -> Seq(Events)]
    /\ batch \in [Daemons -> Seq(Events)]
    /\ last_file_size \in [Daemons -> OptionalSizes]
    /\ new_file_size \in [Daemons -> OptionalSizes]
    /\ message \in [Daemons -> OptionalSizes]

ServerTypeOK ==
    /\ path \in Servers \cup {None}
    /\ backlog \in [Servers -> Seq(Daemons)]
    /\ stream \in [Daemons -> Seq(Bytes)]
    /\ spc \in [Servers -> {"unlink", "bind", "listen", "accept", "recv", "print"} \cup Down]
    /\ wd \in [Servers -> Daemons \cup {None}]
    /\ received \in [Servers -> Seq(Bytes)]
    /\ view \in [Servers -> OptionalSizes \cup {Garbage}]

ControlInv ==
    /\ \A d \in Daemons :
        /\ pc[d] \in {"event", "stat2", "send"} => batch[d] # <<>>
        /\ pc[d] = "stat2" => new_file_size[d] \in Sizes
        /\ pc[d] = "send" => new_file_size[d] \in Sizes /\ message[d] \in Sizes
        /\ pc[d] = "connect" => stream[d] = <<>>
    /\ \A s \in Servers :
        /\ wd[s] # None <=> spc[s] \in {"recv", "print"}
        /\ received[s] # <<>> <=> spc[s] = "print"
        /\ backlog[s] # <<>> => Listening(s)

(* Bytes that begin with the beginning of a message, and whole messages.   *)
Aligned(b) ==
    \A q \in Nat, k \in 1 .. WORD : q * WORD + k <= Len(b) => b[q * WORD + k] = <<b[q * WORD + 1][1], k>>
Whole(b) == \E n \in Nat : Len(b) = n * WORD

BytesInv ==
    /\ \A d \in Daemons : Aligned(stream[d]) /\ (Whole(stream[d]) \/ pc[d] = "cut")
    /\ \A s \in Servers : Aligned(received[s]) /\ (Whole(received[s]) \/ \E d \in Daemons : pc[d] = "cut")

(* The queue of a server: the daemon it serves and those that wait.        *)
Holds(s, d) == wd[s] = d \/ \E i \in DOMAIN backlog[s] : backlog[s][i] = d

(* d is before e in the queue of s.                                        *)
Before(s, d, e) ==
    \/ wd[s] = d /\ \E j \in DOMAIN backlog[s] : backlog[s][j] = e
    \/ \E i, j \in DOMAIN backlog[s] : i < j /\ backlog[s][i] = d /\ backlog[s][j] = e

(* A daemon is in the queue of one server, and only the last one there can *)
(* still be running.                                                       *)
QueueInv ==
    /\ \A s \in Servers, d \in Daemons : Holds(s, d) => pc[d] # "connect"
    /\ \A s, t \in Servers, d \in Daemons : Holds(s, d) /\ Holds(t, d) => s = t
    /\ \A s \in Servers, d, e \in Daemons : Before(s, d, e) => pc[d] \in Ended

(* v is not greater than what a daemon will send from now on.              *)
Old(v) == v <= size /\ \A e \in Daemons : pc[e] = "send" => v <= message[e]
Sorted(b) == \A i, j \in DOMAIN b : i < j => b[i][1] <= b[j][1]
NotAfter(b, c) == \A i \in DOMAIN b, j \in DOMAIN c : b[i][1] <= c[j][1]

StreamInv(d) == Sorted(stream[d]) /\ \A i \in DOMAIN stream[d] : Old(stream[d][i][1])
BufferInv(s) ==
    /\ Old(view[s])
    /\ Sorted(received[s])
    /\ \A i \in DOMAIN received[s] : Old(received[s][i][1]) /\ view[s] <= received[s][i][1]
PipeInv(s, d) ==
    /\ \A i \in DOMAIN stream[d] : view[s] <= stream[d][i][1]
    /\ NotAfter(received[s], stream[d])

(* The sizes in the pipes of the servers, while no file has been deleted:  *)
(* what was sent before, by whatever daemon, is not greater.               *)
SizesInv ==
    ~deleted =>
        /\ size \in Sizes
        /\ \A e \in Daemons : pc[e] = "send" => message[e] <= size
        /\ \A d \in Daemons : StreamInv(d)
        /\ \A s \in Servers : BufferInv(s)
        /\ \A s \in Servers, d \in Daemons : Holds(s, d) => PipeInv(s, d)
        /\ \A s \in Servers, d, e \in Daemons : Before(s, d, e) => NotAfter(stream[d], stream[e])

(* The last size that d sent to the server s that holds it.                *)
LastSent(s, d) ==
    IF stream[d] # <<>> THEN Last(stream[d])[1]
    ELSE IF received[s] # <<>> THEN Last(received[s])[1] ELSE view[s]

(* Of a daemon that watches the file: the sizes it has sent, remembered,   *)
(* and is about to send, in the order in which the file had them; and when *)
(* no event waits, the last of them is the size of the file.               *)
WatchInv(d) ==
    IF d \in watching
    THEN /\ pc[d] \in {"read", "event", "stat2", "send"}
         /\ size \in Sizes
         /\ \A i \in DOMAIN queue[d] : queue[d][i] = "IN_MODIFY"
         /\ \A i \in DOMAIN batch[d] : batch[d][i] = "IN_MODIFY"
         /\ pc[d] = "stat2" => new_file_size[d] <= size
         /\ pc[d] = "send" =>
                /\ new_file_size[d] <= message[d] /\ message[d] <= size
                /\ queue[d] = <<>> => message[d] = size
    ELSE pc[d] \in {"connect", "watch"} =>
            queue[d] = <<>> /\ batch[d] = <<>> /\ last_file_size[d] = NoSize

SentInv(s, d) ==
    d \in watching /\ Holds(s, d) /\ last_file_size[d] # NoSize =>
        /\ stream[d] = <<>> => wd[s] = d
        /\ last_file_size[d] <= LastSent(s, d) /\ LastSent(s, d) <= size
        /\ pc[d] \in {"stat2", "send"} => LastSent(s, d) <= new_file_size[d]
        /\ pc[d] = "read" /\ queue[d] = <<>> => LastSent(s, d) = size

KnownInv == \A d \in Daemons : WatchInv(d) /\ \A s \in Servers : SentInv(s, d)

-----------------------------------------------------------------------------
(* The steps of the monitor, of the servers and of the file.               *)
MonitorNext ==
    \/ Modify \/ Delete \/ Create
    \/ \E d \in Daemons : Daemon(d) \/ SendIsCut(d) \/ DaemonFails(d)
    \/ \E s \in Servers : Server(s) \/ ServerFails(s)

(* Whatever the composition does, the monitor takes one of its own steps.  *)
LEMMA MonitorSteps == [Next]_vars => [MonitorNext]_monitorVars
<1> SUFFICES ASSUME [Next]_vars
             PROVE  MonitorNext \/ UNCHANGED monitorVars
  OBVIOUS
<1>1. CASE UNCHANGED vars
  BY <1>1 DEF vars
<1>2. CASE \E d \in Daemons : Process(d) \/ Fault(d)
  <2>1. PICK d \in Daemons : Process(d) \/ Fault(d)
    BY <1>2
  <2>2. Daemon(d) \/ SendIsCut(d) \/ DaemonFails(d) \/ UNCHANGED monitorVars
    BY <2>1 DEF Process, Fault, DaemonizeStep, MonitorStep, MonitorExits, Daemon
  <2>3. QED
    BY <2>2 DEF MonitorNext
<1>3. CASE \E s \in Servers : ServerStep(s)
  BY <1>3 DEF ServerStep, MonitorNext
<1>4. CASE Others
  BY <1>4 DEF Others, MonitorNext
<1>5. QED
  BY <1>1, <1>2, <1>3, <1>4 DEF Next

MonitorType == MonitorTypeOK /\ ServerTypeOK /\ ControlInv

(* An append, a tail and a part of a sequence are sequences of the same.   *)
LEMMA SequenceTypes ==
    ASSUME NEW S, NEW s \in Seq(S)
    PROVE  /\ s # <<>> => Head(s) \in S /\ Tail(s) \in Seq(S) /\ Last(s) \in S
           /\ \A x \in S : Append(s, x) \in Seq(S) /\ Append(s, x) # <<>>
           /\ \A m \in 1 .. Len(s) + 1, n \in 0 .. Len(s) : SubSeq(s, m, n) \in Seq(S)
<1>1. s # <<>> => Head(s) \in S /\ Tail(s) \in Seq(S)
  OBVIOUS
<1>2. s # <<>> => Last(s) \in S
  BY DEF Last
<1>3. \A x \in S : Append(s, x) \in Seq(S) /\ Append(s, x) # <<>>
  <2>1. \A x \in S : Append(s, x) \in Seq(S) /\ Len(Append(s, x)) = Len(s) + 1
    BY AppendProperties
  <2>2. \A b \in Seq(S) : Len(b) = Len(s) + 1 => b # <<>>
    <3>1. Len(<<>>) = 0 /\ Len(s) \in Nat
      OBVIOUS
    <3>2. QED
      BY ONLY <3>1
  <2>3. QED
    BY ONLY <2>1, <2>2
<1>4. \A m \in 1 .. Len(s) + 1, n \in 0 .. Len(s) : SubSeq(s, m, n) \in Seq(S)
  <2> SUFFICES ASSUME NEW m \in 1 .. Len(s) + 1, NEW n \in 0 .. Len(s)
               PROVE  SubSeq(s, m, n) \in Seq(S)
    OBVIOUS
  <2>1. \A i \in m .. n : s[i] \in S
    BY ElementOfSeq
  <2>2. QED
    BY <2>1, SubSeqProperties
<1>5. QED
  BY <1>1, <1>2, <1>3, <1>4

(* A message and its parts are bytes.                                      *)
LEMMA MessageType ==
    ASSUME NEW v \in Sizes, NEW k \in 0 .. WORD
    PROVE  /\ Message(v) \in Seq(Bytes) /\ Len(Message(v)) = WORD
           /\ SubSeq(Message(v), 1, k) \in Seq(Bytes) /\ Len(SubSeq(Message(v), 1, k)) = k
           /\ \A i \in 1 .. k : SubSeq(Message(v), 1, k)[i] = <<v, i>>
<1>1. WORD \in Nat \ {0}
  BY WordAssumption
<1>2. Message(v) \in Seq(Bytes) /\ Len(Message(v)) = WORD
  <2>1. \A i \in 1 .. WORD : <<v, i>> \in Bytes
    BY DEF Bytes
  <2>2. Message(v) \in [1 .. WORD -> Bytes]
    BY <2>1 DEF Message
  <2>3. QED
    BY <1>1, <2>2
<1>3. \A i \in 1 .. WORD : Message(v)[i] = <<v, i>>
  BY DEF Message
<1>4. PICK m \in Seq(Bytes) : m = Message(v)
  BY <1>2
<1>5. QED
  BY <1>1, <1>2, <1>3, <1>4

(* The end of a daemon keeps the types.                                    *)
LEMMA EndType ==
    ASSUME MonitorType, NEW d \in Daemons, NEW how \in Ended, End(d, how),
           UNCHANGED fileVars
    PROVE  MonitorTypeOK' /\ UNCHANGED fileVars
<1>1. <<>> \in Seq(Events) /\ NoSize \in OptionalSizes
  BY DEF OptionalSizes
<1>2. QED
  BY <1>1 DEF MonitorType, MonitorTypeOK, End, fileVars, Ended

(* The initial state has the types.                                        *)
LEMMA InitialMonitor == MonitorInit => MonitorType
<1> SUFFICES ASSUME MonitorInit PROVE MonitorType
  OBVIOUS
<1>1. MonitorTypeOK
  <2>1. 0 \in Sizes
    BY SizeAssumption DEF Sizes
  <2>2. <<>> \in Seq(Events)
    OBVIOUS
  <2>3. QED
    BY <2>1, <2>2 DEF MonitorInit, MonitorTypeOK, OptionalSizes
<1>2. ServerTypeOK
  <2>1. <<>> \in Seq(Bytes) /\ <<>> \in Seq(Daemons)
    OBVIOUS
  <2>2. QED
    BY <2>1 DEF MonitorInit, ServerTypeOK, OptionalSizes
<1>3. ControlInv
  BY DEF MonitorInit, ControlInv
<1>4. QED
  BY <1>1, <1>2, <1>3 DEF MonitorType

(* The file and the daemons keep their types.                              *)
LEMMA DaemonTypes == MonitorType /\ [MonitorNext]_monitorVars => MonitorTypeOK'
<1> SUFFICES ASSUME MonitorType, [MonitorNext]_monitorVars
             PROVE  MonitorTypeOK'
  OBVIOUS
<1> USE DEF MonitorType
<1>1. CASE UNCHANGED <<fileVars, daemonVars>>
  BY <1>1 DEF MonitorTypeOK, fileVars, daemonVars, eventVars, ownVars
<1>2. CASE Modify \/ Delete \/ Create
  <2>1. size' \in OptionalSizes /\ deleted' \in BOOLEAN /\ UNCHANGED <<pc, ownVars>>
    BY <1>2 DEF MonitorTypeOK, Modify, Delete, Create, Change, OptionalSizes
  <2>2. watching' \subseteq Daemons
    BY <1>2 DEF MonitorTypeOK, Modify, Delete, Create
  <2>3. queue' \in [Daemons -> Seq(Events)]
    <3>1. ASSUME NEW e \in Events, Notify(e)
          PROVE  queue' \in [Daemons -> Seq(Events)]
      <4>1. \A d \in Daemons : queue[d] \in Seq(Events) /\ Append(queue[d], e) \in Seq(Events)
        BY DEF MonitorTypeOK
      <4>2. QED
        BY <3>1, <4>1 DEF Notify
    <3>2. QED
      BY <1>2, <3>1 DEF MonitorTypeOK, Modify, Delete, Create, Events
  <2>4. QED
    BY <2>1, <2>2, <2>3 DEF MonitorTypeOK, ownVars
<1>3. ASSUME NEW d \in Daemons, Daemon(d) \/ SendIsCut(d) \/ DaemonFails(d)
      PROVE  MonitorTypeOK'
  <2>1. CASE (\E how \in Ended : End(d, how)) /\ UNCHANGED fileVars
    BY <2>1, EndType
  <2>2. CASE ConnectToServer(d) \/ AddWatch(d)
    BY <2>2 DEF MonitorTypeOK, ConnectToServer, AddWatch, eventVars, ownVars, fileVars
  <2>3. CASE ReadEvents(d)
    <3>1. <<>> \in Seq(Events)
      OBVIOUS
    <3>2. QED
      BY <2>3, <3>1 DEF MonitorTypeOK, ReadEvents, fileVars
  <2>4. ASSUME batch[d] # <<>>, NextEvent(d), AfterEvent(d)
        PROVE  /\ batch' \in [Daemons -> Seq(Events)]
               /\ pc' \in [Daemons -> {"connect", "watch", "read", "event", "stat2", "send"} \cup Ended]
    <3>1. Tail(batch[d]) \in Seq(Events)
      BY <2>4, SequenceTypes DEF MonitorTypeOK
    <3>2. QED
      BY <2>4, <3>1 DEF MonitorTypeOK, NextEvent, AfterEvent
  <2>5. CASE Stat(d) \/ UndefinedEvent(d)
    <3>1. batch[d] # <<>>
      BY <2>5 DEF ControlInv, Stat, UndefinedEvent
    <3>2. QED
      BY <2>4, <2>5, <3>1 DEF MonitorTypeOK, Stat, UndefinedEvent, fileVars, eventVars
  <2>6. CASE StatAgain(d)
    BY <2>6 DEF MonitorTypeOK, StatAgain, fileVars, eventVars
  <2>7. CASE Send(d)
    <3>1. batch[d] # <<>>
      BY <2>7 DEF ControlInv, Send
    <3>2. NoSize \in OptionalSizes
      BY DEF OptionalSizes
    <3>3. QED
      BY <2>4, <2>7, <3>1, <3>2 DEF MonitorTypeOK, Send, fileVars, eventVars
  <2>8. QED
    BY <1>3, <2>1, <2>2, <2>3, <2>5, <2>6, <2>7 DEF Daemon, ConnectFails, AddWatchFails, StatFails, SendFails,
       SendIsCut, DaemonFails, Ended
<1>4. ASSUME NEW s \in Servers, Server(s) \/ ServerFails(s)
      PROVE  UNCHANGED <<fileVars, daemonVars>>
  BY <1>4 DEF Server, Unlink, Bind, BindFails, Listen, Accept, Recv, RecvEnd, PrintSize, IncorrectFormat, ServerFails
<1>5. QED
  BY <1>1, <1>2, <1>3, <1>4 DEF MonitorNext, monitorVars

(* What recv returns is the beginning of the stream: all of it, or a full  *)
(* buffer.                                                                 *)
LEMMA ReceivedBytes ==
    ASSUME NEW b \in Seq(Bytes), b # <<>>
    PROVE  \E n \in 1 .. Len(b) :
              /\ n = Len(b) \/ n = MAX_MSG_LENGTH
              /\ Received(b) = SubSeq(b, 1, n) /\ Len(Received(b)) = n
              /\ Received(b) \in Seq(Bytes) /\ Received(b) # <<>>
              /\ SubSeq(b, Len(Received(b)) + 1, Len(b)) \in Seq(Bytes)
<1>1. MAX_MSG_LENGTH \in Nat \ {0} /\ Len(b) \in Nat \ {0}
  BY WordAssumption
<1>2. PICK n \in 1 .. Len(b) : n = IF Len(b) < MAX_MSG_LENGTH THEN Len(b) ELSE MAX_MSG_LENGTH
  BY <1>1
<1>3. Received(b) = SubSeq(b, 1, n)
  BY <1>2 DEF Received
<1>4. SubSeq(b, 1, n) \in Seq(Bytes) /\ SubSeq(b, n + 1, Len(b)) \in Seq(Bytes)
  BY <1>1, SequenceTypes
<1>5. Len(SubSeq(b, 1, n)) = n
  BY <1>1, SubSeqProperties
<1>6. QED
  BY <1>1, <1>2, <1>3, <1>4, <1>5

(* The end of a server keeps the types.                                    *)
LEMMA EndServerType ==
    ASSUME MonitorType, NEW s \in Servers, NEW how \in Down, EndServer(s, how), UNCHANGED <<fileVars, daemonVars>>
    PROVE  ServerTypeOK' /\ ControlInv'
<1>1. <<>> \in Seq(Bytes) /\ <<>> \in Seq(Daemons)
  OBVIOUS
<1>2. stream' \in [Daemons -> Seq(Bytes)]
  BY <1>1 DEF MonitorType, ServerTypeOK, EndServer
<1>3. UNCHANGED <<path, view>> /\ wd' = [wd EXCEPT ![s] = None] /\ received' = [received EXCEPT ![s] = <<>>]
      /\ backlog' = [backlog EXCEPT ![s] = <<>>] /\ spc' = [spc EXCEPT ![s] = how]
  BY DEF EndServer
<1>4. ServerTypeOK'
  BY <1>1, <1>2, <1>3 DEF MonitorType, ServerTypeOK
<1>5. \A d \in Daemons : stream[d] = <<>> => stream'[d] = <<>>
  BY DEF EndServer, MonitorType, ServerTypeOK
<1>6. ControlInv'
  BY <1>3, <1>5 DEF MonitorType, ControlInv, Listening, ServerTypeOK, daemonVars, ownVars, Down
<1>7. QED
  BY <1>4, <1>6

(* The sockets and the servers keep their types.                           *)
LEMMA ServerTypes == MonitorType /\ [MonitorNext]_monitorVars => ServerTypeOK'
<1> SUFFICES ASSUME MonitorType, [MonitorNext]_monitorVars
             PROVE  ServerTypeOK'
  OBVIOUS
<1> USE DEF MonitorType
<1>1. CASE UNCHANGED <<socketVars, serverVars>>
  BY <1>1 DEF ServerTypeOK, socketVars, serverVars
<1>2. ASSUME Modify \/ Delete \/ Create
      PROVE  UNCHANGED <<socketVars, serverVars>>
  BY <1>2 DEF Modify, Delete, Create, Change
<1>3. ASSUME NEW d \in Daemons, Daemon(d) \/ SendIsCut(d) \/ DaemonFails(d)
      PROVE  ServerTypeOK'
  <2>1. CASE ConnectToServer(d)
    <3>1. path \in Servers /\ Append(backlog[path], d) \in Seq(Daemons)
      BY <2>1 DEF ServerTypeOK, ConnectToServer
    <3>2. QED
      BY <2>1, <3>1 DEF ServerTypeOK, ConnectToServer, serverVars
  <2>2. CASE Send(d) \/ SendIsCut(d)
    <3>1. message[d] \in Sizes /\ WORD \in Nat \ {0} /\ stream[d] \in Seq(Bytes)
      BY <2>2, WordAssumption DEF ControlInv, Send, SendIsCut, ServerTypeOK
    <3>2. \A k \in 1 .. WORD - 1 : stream[d] \o SubSeq(Message(message[d]), 1, k) \in Seq(Bytes)
      <4>1. \A k \in 1 .. WORD - 1 : SubSeq(Message(message[d]), 1, k) \in Seq(Bytes)
        BY <3>1, MessageType
      <4>2. QED
        BY <3>1, <4>1
    <3>3. stream[d] \o Message(message[d]) \in Seq(Bytes)
      <4>1. Message(message[d]) \in Seq(Bytes)
        BY <3>1, MessageType
      <4>2. QED
        BY <3>1, <4>1
    <3>4. \E b \in Seq(Bytes) : stream' = [stream EXCEPT ![d] = b]
      BY <2>2, <3>2, <3>3 DEF Send, SendIsCut, ServerTypeOK
    <3>5. UNCHANGED <<path, backlog, serverVars>>
      BY <2>2 DEF Send, SendIsCut
    <3>6. QED
      BY <3>4, <3>5 DEF ServerTypeOK, serverVars
  <2>3. CASE UNCHANGED <<socketVars, serverVars>>
    BY <1>1, <2>3
  <2>4. QED
    BY <1>3, <2>1, <2>2, <2>3 DEF Daemon, ConnectFails, AddWatch, AddWatchFails, ReadEvents, Stat, UndefinedEvent,
       StatAgain, StatFails, SendFails, DaemonFails
<1>4. ASSUME NEW s \in Servers, Server(s) \/ ServerFails(s)
      PROVE  ServerTypeOK'
  <2>1. CASE \E how \in Down : EndServer(s, how) /\ UNCHANGED <<fileVars, daemonVars>>
    BY <2>1, EndServerType
  <2>2. CASE Unlink(s) \/ Bind(s) \/ Listen(s) \/ RecvEnd(s)
    BY <2>2 DEF ServerTypeOK, Unlink, Bind, Listen, RecvEnd, socketVars
  <2>3. CASE Accept(s)
    <3>1. Head(backlog[s]) \in Daemons /\ Tail(backlog[s]) \in Seq(Daemons)
      BY <2>3, SequenceTypes DEF ServerTypeOK, Accept
    <3>2. QED
      BY <2>3, <3>1 DEF ServerTypeOK, Accept
  <2>4. CASE Recv(s)
    <3>1. wd[s] \in Daemons /\ stream[wd[s]] \in Seq(Bytes) /\ stream[wd[s]] # <<>>
      BY <2>4 DEF ServerTypeOK, ControlInv, Recv
    <3>2. PICK b, c \in Seq(Bytes) :
             /\ received' = [received EXCEPT ![s] = b]
             /\ stream' = [stream EXCEPT ![wd[s]] = c]
      BY <2>4, <3>1, ReceivedBytes DEF Recv, ServerTypeOK
    <3>3. QED
      BY <2>4, <3>1, <3>2 DEF ServerTypeOK, Recv
  <2>5. CASE PrintSize(s)
    <3>1. WORD \in Nat \ {0} /\ received[s] \in Seq(Bytes) /\ Len(received[s]) >= WORD
      BY <2>5, WordAssumption DEF ServerTypeOK, PrintSize
    <3>2. SubSeq(received[s], 1, WORD) \in Seq(Bytes) /\ Len(SubSeq(received[s], 1, WORD)) = WORD
      BY <3>1, SequenceTypes, SubSeqProperties
    <3>3. SubSeq(received[s], WORD + 1, Len(received[s])) \in Seq(Bytes)
      BY <3>1, SequenceTypes
    <3>4. Value(SubSeq(received[s], 1, WORD)) \in OptionalSizes \cup {Garbage}
      <4>1. PICK b \in Seq(Bytes) : b = SubSeq(received[s], 1, WORD)
        BY <3>2
      <4>2. b[1][1] \in Sizes
        BY <3>1, <3>2, <4>1 DEF Bytes
      <4>3. Value(b) \in OptionalSizes \cup {Garbage}
        BY <4>2 DEF Value, OptionalSizes
      <4>4. QED
        BY <4>1, <4>3
    <3>5. \E p \in {"recv", "print"} : spc' = [spc EXCEPT ![s] = p]
      BY <2>5 DEF PrintSize
    <3>6. QED
      BY <2>5, <3>3, <3>4, <3>5 DEF ServerTypeOK, PrintSize, socketVars
  <2>6. QED
    BY <1>4, <2>1, <2>2, <2>3, <2>4, <2>5 DEF Server, BindFails, IncorrectFormat, ServerFails, Down
<1>5. QED
  BY <1>1, <1>2, <1>3, <1>4 DEF MonitorNext, monitorVars

(* Where a daemon or a server is says what it holds.                       *)
LEMMA ControlSteps == MonitorType /\ [MonitorNext]_monitorVars => ControlInv'
<1> SUFFICES ASSUME MonitorType, [MonitorNext]_monitorVars
             PROVE  ControlInv'
  OBVIOUS
<1> USE DEF MonitorType
<1> DEFINE OfDaemon(d) == /\ pc[d] \in {"event", "stat2", "send"} => batch[d] # <<>>
                          /\ pc[d] = "stat2" => new_file_size[d] \in Sizes
                          /\ pc[d] = "send" => new_file_size[d] \in Sizes /\ message[d] \in Sizes
                          /\ pc[d] = "connect" => stream[d] = <<>>
           OfServer(s) == /\ wd[s] # None <=> spc[s] \in {"recv", "print"}
                          /\ received[s] # <<>> <=> spc[s] = "print"
                          /\ backlog[s] # <<>> => Listening(s)
<1>a. /\ \A d \in Daemons : OfDaemon(d)
      /\ \A s \in Servers : OfServer(s)
  BY DEF ControlInv
<1>b. ASSUME \A d \in Daemons : OfDaemon(d)', \A s \in Servers : OfServer(s)'
      PROVE  ControlInv'
  BY <1>b DEF ControlInv
<1>1. CASE UNCHANGED monitorVars
  BY <1>1 DEF ControlInv, Listening, monitorVars, daemonVars, ownVars, socketVars, serverVars
<1>2. CASE Modify \/ Delete \/ Create
  BY <1>2 DEF Modify, Delete, Create, Change, ControlInv, Listening, ownVars, socketVars, serverVars
<1>3. ASSUME NEW d \in Daemons, Daemon(d) \/ SendIsCut(d) \/ DaemonFails(d)
      PROVE  ControlInv'
  <2>1. \A s \in Servers : OfServer(s)'
    <3>1. CASE ConnectToServer(d)
      BY <1>a, <3>1 DEF ConnectToServer, Listening, serverVars, ServerTypeOK
    <3>2. CASE UNCHANGED <<backlog, serverVars>>
      BY <1>a, <3>2 DEF Listening, serverVars
    <3>3. QED
      BY <1>3, <3>1, <3>2 DEF Daemon, ConnectFails, AddWatch, AddWatchFails, ReadEvents, Stat, UndefinedEvent,
         StatAgain, StatFails, SendFails, DaemonFails, Send, SendIsCut, socketVars
  <2>2. ASSUME NEW e \in Daemons, e # d
        PROVE  OfDaemon(e)'
    <3>1. /\ pc'[e] = pc[e] /\ batch'[e] = batch[e] /\ new_file_size'[e] = new_file_size[e]
          /\ message'[e] = message[e]
      BY <1>3, <2>2 DEF MonitorTypeOK, Daemon, ConnectToServer, ConnectFails, AddWatch, AddWatchFails, ReadEvents,
         Stat, UndefinedEvent, StatAgain, StatFails, SendFails, DaemonFails, Send, SendIsCut, ownVars, NextEvent,
         AfterEvent, End
    <3>2. stream'[e] = stream[e]
      BY <1>3, <2>2 DEF ServerTypeOK, Daemon, ConnectToServer, ConnectFails, AddWatch, AddWatchFails, ReadEvents,
         Stat, UndefinedEvent, StatAgain, StatFails, SendFails, DaemonFails, Send, SendIsCut, socketVars
    <3>3. QED
      BY <1>a, <3>1, <3>2
  <2>3. OfDaemon(d)'
    <3>1. CASE \E how \in Ended : End(d, how)
      BY <3>1 DEF End, Ended, MonitorTypeOK
    <3>2. CASE ConnectToServer(d) \/ AddWatch(d) \/ ReadEvents(d)
      BY <3>2, <1>a DEF ConnectToServer, AddWatch, ReadEvents, MonitorTypeOK, ownVars, socketVars
    <3>3. ASSUME NextEvent(d), AfterEvent(d)
          PROVE  pc'[d] \in {"read", "event"} /\ (pc'[d] = "event" => batch'[d] # <<>>)
      BY <3>3 DEF NextEvent, AfterEvent, MonitorTypeOK
    <3>4. CASE Stat(d)
      <4>1. CASE size # last_file_size[d]
        <5>1. size \in Sizes /\ batch[d] # <<>>
          BY <3>4, <1>a DEF Stat, MonitorTypeOK, OptionalSizes
        <5>2. QED
          BY <3>4, <4>1, <5>1 DEF Stat, MonitorTypeOK, socketVars
      <4>2. CASE size = last_file_size[d]
        BY <3>3, <3>4, <4>2 DEF Stat, socketVars
      <4>3. QED
        BY <4>1, <4>2
    <3>5. CASE UndefinedEvent(d)
      BY <3>3, <3>5 DEF UndefinedEvent, socketVars
    <3>6. CASE StatAgain(d)
      <4>1. size \in Sizes
        BY <3>6 DEF StatAgain, MonitorTypeOK, OptionalSizes
      <4>2. QED
        BY <3>6, <4>1, <1>a DEF StatAgain, MonitorTypeOK, socketVars
    <3>7. CASE Send(d)
      BY <3>3, <3>7 DEF Send
    <3>8. QED
      BY <1>3, <3>1, <3>2, <3>4, <3>5, <3>6, <3>7 DEF Daemon, ConnectFails, AddWatchFails, StatFails, SendFails,
         SendIsCut, DaemonFails, Ended
  <2>4. QED
    BY <1>b, <2>1, <2>2, <2>3
<1>4. ASSUME NEW s \in Servers, Server(s) \/ ServerFails(s)
      PROVE  ControlInv'
  <2>1. CASE \E how \in Down : EndServer(s, how) /\ UNCHANGED <<fileVars, daemonVars>>
    BY <2>1, EndServerType
  <2>2. CASE Unlink(s) \/ Bind(s) \/ Listen(s) \/ RecvEnd(s)
    <3>1. \A t \in Servers : OfServer(t)'
      BY <2>2, <1>a DEF Unlink, Bind, Listen, RecvEnd, socketVars, Listening, ServerTypeOK
    <3>2. \A d \in Daemons : OfDaemon(d)'
      BY <2>2, <1>a DEF Unlink, Bind, Listen, RecvEnd, socketVars, daemonVars, ownVars
    <3>3. QED
      BY <1>b, <3>1, <3>2
  <2>3. CASE Accept(s)
    <3>1. \A t \in Servers : OfServer(t)'
      <4>1. Head(backlog[s]) # None
        <5>1. Head(backlog[s]) \in Daemons
          BY <2>3, SequenceTypes DEF Accept, ServerTypeOK
        <5>2. QED
          BY <5>1, DaemonsAssumption
      <4>2. Listening(s)'
        BY <2>3 DEF Accept, Listening, ServerTypeOK
      <4>3. \A t \in Servers \ {s} : OfServer(t)'
        BY <2>3, <1>a DEF Accept, Listening, ServerTypeOK
      <4>4. OfServer(s)'
        BY <2>3, <1>a, <4>1, <4>2 DEF Accept, ServerTypeOK
      <4>5. QED
        BY <4>3, <4>4
    <3>2. \A d \in Daemons : OfDaemon(d)'
      BY <2>3, <1>a DEF Accept, daemonVars, ownVars
    <3>3. QED
      BY <1>b, <3>1, <3>2
  <2>4. CASE Recv(s)
    <3>1. wd[s] \in Daemons /\ stream[wd[s]] \in Seq(Bytes) /\ stream[wd[s]] # <<>> /\ spc[s] = "recv"
      BY <2>4 DEF ServerTypeOK, ControlInv, Recv
    <3>2. PICK b, c \in Seq(Bytes) :
             /\ b # <<>> /\ received' = [received EXCEPT ![s] = b]
             /\ stream' = [stream EXCEPT ![wd[s]] = c]
      BY <2>4, <3>1, ReceivedBytes DEF Recv, ServerTypeOK
    <3>3. \A t \in Servers : OfServer(t)'
      BY <2>4, <1>a, <3>1, <3>2 DEF Recv, ServerTypeOK, Listening
    <3>4. \A d \in Daemons : OfDaemon(d)'
      BY <2>4, <1>a, <3>1, <3>2 DEF Recv, ServerTypeOK, daemonVars, ownVars
    <3>5. QED
      BY <1>b, <3>3, <3>4
  <2>5. CASE PrintSize(s)
    <3>1. \A t \in Servers : OfServer(t)'
      BY <2>5, <1>a DEF PrintSize, ServerTypeOK, Listening, socketVars
    <3>2. \A d \in Daemons : OfDaemon(d)'
      BY <2>5, <1>a DEF PrintSize, ServerTypeOK, daemonVars, ownVars, socketVars
    <3>3. QED
      BY <1>b, <3>1, <3>2
  <2>6. QED
    BY <1>4, <2>1, <2>2, <2>3, <2>4, <2>5 DEF Server, BindFails, IncorrectFormat, ServerFails, Down
<1>5. QED
  BY <1>1, <1>2, <1>3, <1>4 DEF MonitorNext

(* The types of the monitor, in every state of the composition.            *)
THEOREM MonitorTypeCorrect == Spec => []MonitorType
<1>1. Init => MonitorType
  BY InitialMonitor DEF Init
<1>2. MonitorType /\ [Next]_vars => MonitorType'
  BY MonitorSteps, DaemonTypes, ServerTypes, ControlSteps DEF MonitorType
<1>3. QED
  BY <1>1, <1>2, PTL DEF Spec

-----------------------------------------------------------------------------
(* Bytes and messages.                                                     *)

(* The empty sequence is no message, and a message after whole messages is *)
(* aligned, as is the part of one that SendIsCut sends.                    *)
LEMMA NoBytes == Aligned(<<>>) /\ Whole(<<>>)
<1>1. WORD \in Nat \ {0}
  BY WordAssumption
<1>2. ASSUME NEW q \in Nat, NEW k \in 1 .. WORD, q * WORD + k <= 0
      PROVE  FALSE
  <2>1. q * WORD \in Nat
    BY <1>1
  <2>2. QED
    BY <1>2, <2>1
<1>3. 0 * WORD = 0 /\ Len(<<>>) = 0
  BY <1>1
<1>4. QED
  BY <1>2, <1>3 DEF Aligned, Whole

(* Whole messages and the beginning of one more are still cut at the       *)
(* multiples of WORD.                                                      *)
LEMMA MessageAfter ==
    ASSUME NEW b \in Seq(Bytes), Aligned(b), Whole(b), NEW v \in Sizes, NEW c \in Seq(Bytes), NEW m \in 0 .. WORD,
           Len(c) = m, \A i \in 1 .. m : c[i] = <<v, i>>
    PROVE  Aligned(b \o c) /\ (m = WORD => Whole(b \o c))
<1>1. WORD \in Nat \ {0}
  BY WordAssumption
<1>2. PICK n \in Nat : Len(b) = n * WORD
  BY DEF Whole
<1>3. PICK L \in Nat : L = n * WORD /\ L + WORD = (n + 1) * WORD
  BY <1>1
<1>4. PICK a \in Seq(Bytes) : /\ a = b \o c /\ Len(a) = L + m
                              /\ \A i \in 1 .. L : a[i] = b[i]
                              /\ \A i \in 1 .. m : a[L + i] = c[i]
  <2>1. b \o c \in Seq(Bytes) /\ Len(b \o c) = L + m
    BY <1>2, <1>3
  <2>2. /\ \A i \in 1 .. L : (b \o c)[i] = b[i]
        /\ \A i \in 1 .. m : (b \o c)[L + i] = c[i]
    BY <1>2, <1>3
  <2>3. QED
    BY <2>1, <2>2
<1>5. ASSUME NEW q \in Nat, NEW k \in 1 .. WORD, q * WORD + k <= Len(a)
      PROVE  a[q * WORD + k] = <<a[q * WORD + 1][1], k>>
  <2>1. PICK Q \in Nat : Q = q * WORD
    BY <1>1
  <2>2. q < n => Q + WORD <= L
    <3>1. q < n => \E x \in Nat : n = q + 1 + x
      <4>1. q < n => n - q - 1 \in Nat /\ n = q + 1 + (n - q - 1)
        OBVIOUS
      <4>2. QED
        BY <4>1
    <3>2. \A x \in Nat : (q + 1 + x) * WORD = Q + WORD + x * WORD /\ x * WORD \in Nat
      BY <1>1, <2>1
    <3>3. QED
      BY <1>1, <1>3, <2>1, <3>1, <3>2
  <2>3. q > n => Q >= L + WORD
    <3>1. q > n => \E x \in Nat : q = n + 1 + x
      <4>1. q > n => q - n - 1 \in Nat /\ q = n + 1 + (q - n - 1)
        OBVIOUS
      <4>2. QED
        BY <4>1
    <3>2. \A x \in Nat : (n + 1 + x) * WORD = L + WORD + x * WORD /\ x * WORD \in Nat
      BY <1>1, <1>3
    <3>3. QED
      BY <1>1, <1>3, <2>1, <3>1, <3>2
  <2>4. q <= n
    <3>1. Q + k <= L + WORD /\ k >= 1
      BY <1>1, <1>3, <1>4, <1>5, <2>1
    <3>2. Q < L + WORD
      BY <1>1, <1>3, <2>1, <3>1
    <3>3. QED
      BY <1>1, <1>3, <2>1, <2>3, <3>2
  <2>5. CASE q < n
    <3>1. Q + k \in 1 .. L /\ Q + 1 \in 1 .. L
      BY <1>1, <1>3, <2>1, <2>2, <2>5
    <3>2. b[Q + k] = <<b[Q + 1][1], k>>
      BY <1>2, <1>3, <2>1, <3>1 DEF Aligned
    <3>3. QED
      BY <1>4, <2>1, <3>1, <3>2
  <2>6. CASE q = n
    <3>1. Q = L /\ k \in 1 .. m /\ 1 \in 1 .. m
      BY <1>1, <1>3, <1>4, <1>5, <2>1, <2>6
    <3>2. a[L + k] = <<v, k>> /\ a[L + 1] = <<v, 1>>
      BY <1>4, <3>1
    <3>3. QED
      BY <2>1, <3>1, <3>2
  <2>7. QED
    BY <2>4, <2>5, <2>6
<1>6. m = WORD => Whole(a)
  <2>1. m = WORD => Len(a) = (n + 1) * WORD /\ n + 1 \in Nat
    BY <1>3, <1>4
  <2>2. QED
    BY <2>1 DEF Whole
<1>7. QED
  BY <1>4, <1>5, <1>6 DEF Aligned

(* What send puts behind whole messages.                                   *)
LEMMA SentBytes ==
    ASSUME NEW b \in Seq(Bytes), Aligned(b), Whole(b), NEW v \in Sizes
    PROVE  /\ Aligned(b \o Message(v)) /\ Whole(b \o Message(v))
           /\ \A k \in 1 .. WORD - 1 : Aligned(b \o SubSeq(Message(v), 1, k))
<1>1. WORD \in Nat \ {0}
  BY WordAssumption
<1>2. Message(v) \in Seq(Bytes) /\ Len(Message(v)) = WORD /\ WORD \in 0 .. WORD
  BY <1>1, MessageType
<1>3. \A i \in 1 .. WORD : Message(v)[i] = <<v, i>>
  BY DEF Message
<1>4. Aligned(b \o Message(v)) /\ Whole(b \o Message(v))
  BY <1>2, <1>3, MessageAfter
<1>5. ASSUME NEW k \in 1 .. WORD - 1
      PROVE  Aligned(b \o SubSeq(Message(v), 1, k))
  <2>1. k \in 0 .. WORD
    BY <1>1
  <2>2. PICK c \in Seq(Bytes) : c = SubSeq(Message(v), 1, k) /\ Len(c) = k /\ \A i \in 1 .. k : c[i] = <<v, i>>
    BY <2>1, MessageType
  <2>3. Aligned(b \o c)
    BY <2>1, <2>2, MessageAfter
  <2>4. QED
    BY <2>2, <2>3
<1>6. QED
  BY <1>4, <1>5

(* Whole messages taken from the front leave the rest aligned, and are     *)
(* aligned themselves.                                                     *)
LEMMA MessagesTaken ==
    ASSUME NEW b \in Seq(Bytes), Aligned(b), NEW n \in Nat, NEW L \in 0 .. Len(b), L = n * WORD
    PROVE  /\ Aligned(SubSeq(b, 1, L)) /\ Whole(SubSeq(b, 1, L))
           /\ Aligned(SubSeq(b, L + 1, Len(b))) /\ (Whole(b) => Whole(SubSeq(b, L + 1, Len(b))))
<1>1. WORD \in Nat \ {0}
  BY WordAssumption
<1>2. PICK a \in Seq(Bytes) : a = SubSeq(b, 1, L) /\ Len(a) = L /\ \A i \in 1 .. L : a[i] = b[i]
  <2>1. SubSeq(b, 1, L) \in Seq(Bytes)
    BY SequenceTypes
  <2>2. PICK a \in Seq(Bytes) : a = SubSeq(b, 1, L)
    BY <2>1
  <2>3. Len(a) = L
    BY <2>2, SubSeqProperties
  <2>4. \A i \in 1 .. L : a[i] = b[i]
    BY <2>2
  <2>5. QED
    BY <2>2, <2>3, <2>4
<1>3. PICK r \in Seq(Bytes) : r = SubSeq(b, L + 1, Len(b)) /\ Len(r) = Len(b) - L /\ \A i \in 1 .. Len(b) - L : r[i] = b[L + i]
  <2>1. SubSeq(b, L + 1, Len(b)) \in Seq(Bytes)
    BY SequenceTypes
  <2>2. PICK r \in Seq(Bytes) : r = SubSeq(b, L + 1, Len(b))
    BY <2>1
  <2>3. Len(r) = Len(b) - L
    <3>1. L + 1 \in Int /\ Len(b) \in Int /\ \A i \in L + 1 .. Len(b) : b[i] \in Bytes
      OBVIOUS
    <3>2. Len(SubSeq(b, L + 1, Len(b))) = IF L + 1 <= Len(b) THEN Len(b) - (L + 1) + 1 ELSE 0
      BY ONLY <3>1, SubSeqProperties
    <3>3. L \in Int /\ L <= Len(b)
      OBVIOUS
    <3>4. QED
      BY ONLY <2>2, <3>1, <3>2, <3>3
  <2>4. \A i \in 1 .. Len(b) - L : r[i] = b[L + i]
    BY <2>2
  <2>5. QED
    BY <2>2, <2>3, <2>4
<1>4. Aligned(a)
  <2> SUFFICES ASSUME NEW q \in Nat, NEW k \in 1 .. WORD, q * WORD + k <= L
               PROVE  a[q * WORD + k] = <<a[q * WORD + 1][1], k>>
    BY <1>2 DEF Aligned
  <2>1. PICK Q \in Nat : Q = q * WORD
    BY <1>1
  <2>2. Q + k \in 1 .. L /\ Q + 1 \in 1 .. L
    BY <1>1, <2>1
  <2>3. b[Q + k] = <<b[Q + 1][1], k>>
    BY <2>1, <2>2 DEF Aligned
  <2>4. QED
    BY <1>2, <2>1, <2>2, <2>3
<1>5. Whole(a)
  BY <1>2 DEF Whole
<1>6. Aligned(r)
  <2> SUFFICES ASSUME NEW q \in Nat, NEW k \in 1 .. WORD, q * WORD + k <= Len(r)
               PROVE  r[q * WORD + k] = <<r[q * WORD + 1][1], k>>
    BY DEF Aligned
  <2>1. PICK Q \in Nat : Q = q * WORD
    BY <1>1
  <2>2. PICK p \in Nat : p = q + n /\ p * WORD = L + Q
    BY <1>1, <2>1
  <2>3. Q + k \in 1 .. Len(b) - L /\ Q + 1 \in 1 .. Len(b) - L
    BY <1>1, <1>3, <2>1
  <2>4. b[(L + Q) + k] = <<b[(L + Q) + 1][1], k>>
    <3>1. p * WORD + k <= Len(b)
      BY <2>2, <2>3
    <3>2. b[p * WORD + k] = <<b[p * WORD + 1][1], k>>
      BY <3>1 DEF Aligned
    <3>3. QED
      BY <2>2, <3>2
  <2>5. L + (Q + k) = (L + Q) + k /\ L + (Q + 1) = (L + Q) + 1
    BY <1>1, <2>1
  <2>6. QED
    BY <1>3, <2>1, <2>3, <2>4, <2>5
<1>7. Whole(b) => Whole(r)
  <2> SUFFICES ASSUME NEW w \in Nat, Len(b) = w * WORD
               PROVE  \E x \in Nat : Len(r) = x * WORD
    BY DEF Whole
  <2>1. w - n \in Int /\ (w - n) * WORD = Len(b) - L
    BY <1>1
  <2>2. w - n \in Nat
    <3>1. CASE w < n
      <4>1. PICK x \in Nat \ {0} : n = w + x
        <5>1. n - w \in Nat \ {0} /\ n = w + (n - w)
          BY <3>1
        <5>2. QED
          BY <5>1
      <4>2. PICK X \in Nat, W \in Nat : X = x * WORD /\ W = w * WORD /\ (w + x) * WORD = W + X /\ X > 0
        BY <1>1
      <4>3. L = W + X /\ Len(b) = W
        BY <4>1, <4>2
      <4>4. QED
        BY <4>2, <4>3
    <3>2. QED
      BY <3>1
  <2>3. QED
    BY <1>3, <2>1, <2>2
<1>8. QED
  BY <1>2, <1>3, <1>4, <1>5, <1>6, <1>7

(* sizeof(buffer) is a multiple of sizeof(ssize_t), as 256 is of 8.        *)
BufferHoldsWords == \E c \in Nat : MAX_MSG_LENGTH = c * WORD

(* A daemon connects once, and stays ended as it ended.                    *)
LEMMA DaemonsEndOnce ==
    ASSUME MonitorType, [MonitorNext]_monitorVars
    PROVE  \A d \in Daemons : /\ pc[d] \in Ended => pc'[d] = pc[d]
                              /\ pc'[d] = "connect" => pc[d] = "connect"
<1>1. CASE UNCHANGED monitorVars
  BY <1>1 DEF monitorVars, daemonVars
<1>2. ASSUME Modify \/ Delete \/ Create
      PROVE  UNCHANGED pc
  BY <1>2 DEF Modify, Delete, Create, Change
<1>3. ASSUME NEW s \in Servers, Server(s) \/ ServerFails(s)
      PROVE  UNCHANGED pc
  BY <1>3 DEF Server, Unlink, Bind, BindFails, Listen, Accept, Recv, RecvEnd, PrintSize, IncorrectFormat, ServerFails,
     daemonVars
<1>4. ASSUME NEW d \in Daemons, Daemon(d) \/ SendIsCut(d) \/ DaemonFails(d)
      PROVE  \A e \in Daemons : /\ pc[e] \in Ended => pc'[e] = pc[e]
                                /\ pc'[e] = "connect" => pc[e] = "connect"
  BY <1>4 DEF MonitorType, MonitorTypeOK, Daemon, ConnectToServer, ConnectFails, AddWatch, AddWatchFails, ReadEvents,
     Stat, UndefinedEvent, StatAgain, StatFails, SendFails, DaemonFails, Send, SendIsCut, NextEvent, AfterEvent, End,
     Ended
<1>5. QED
  BY <1>1, <1>2, <1>3, <1>4 DEF MonitorNext

(* The size that WORD aligned bytes stand for is the one they belong to.   *)
LEMMA FirstValue ==
    ASSUME NEW b \in Seq(Bytes), Aligned(b), Len(b) >= WORD
    PROVE  /\ Value(SubSeq(b, 1, WORD)) = b[1][1] /\ b[1][1] \in Sizes
           /\ b[WORD][1] = b[1][1]
<1>1. WORD \in Nat \ {0}
  BY WordAssumption
<1>2. b[1] \in Bytes /\ b[1][1] \in Sizes
  BY <1>1 DEF Bytes
<1>3. \A k \in 1 .. WORD : b[k] = <<b[1][1], k>>
  <2> SUFFICES ASSUME NEW k \in 1 .. WORD
               PROVE  b[k] = <<b[1][1], k>>
    OBVIOUS
  <2>1. 0 * WORD + k <= Len(b) /\ 0 * WORD + k = k /\ 0 * WORD + 1 = 1
    BY <1>1
  <2>2. b[0 * WORD + k] = <<b[0 * WORD + 1][1], k>>
    BY <2>1 DEF Aligned
  <2>3. QED
    BY <2>1, <2>2
<1>4. PICK v \in Sizes : v = b[1][1]
  BY <1>2
<1>5. PICK a \in Seq(Bytes) : a = SubSeq(b, 1, WORD) /\ Len(a) = WORD /\ \A i \in 1 .. WORD : a[i] = b[i]
  <2>1. SubSeq(b, 1, WORD) \in Seq(Bytes)
    BY <1>1, SequenceTypes
  <2>2. PICK a \in Seq(Bytes) : a = SubSeq(b, 1, WORD)
    BY <2>1
  <2>3. Len(a) = WORD
    BY <1>1, <2>2, SubSeqProperties
  <2>4. \A i \in 1 .. WORD : a[i] = b[i]
    BY <1>1, <2>2
  <2>5. QED
    BY <2>2, <2>3, <2>4
<1>6. a = Message(v)
  <2>1. a = [k \in 1 .. WORD |-> <<v, k>>]
    <3>1. a = [k \in 1 .. WORD |-> a[k]]
      BY <1>1, <1>5
    <3>2. \A k \in 1 .. WORD : a[k] = <<v, k>>
      BY <1>3, <1>4, <1>5
    <3>3. QED
      BY <3>1, <3>2
  <2>2. QED
    BY <2>1 DEF Message
<1>7. a[1][1] = v
  BY <1>1, <1>3, <1>4, <1>5
<1>8. Value(a) = v
  BY <1>6, <1>7 DEF Value
<1>9. b[WORD][1] = v
  BY <1>1, <1>3, <1>4
<1>10. QED
  BY <1>4, <1>5, <1>8, <1>9

FramingInv == BytesInv /\ Framing

(* A step leaves the bytes of every pipe in whole messages, up to the one  *)
(* that a daemon was cut off in.                                           *)
LEMMA FramingStep ==
    ASSUME BufferHoldsWords, MonitorType, FramingInv, [MonitorNext]_monitorVars, MonitorType'
    PROVE  FramingInv'
<1> DEFINE Cut == \E d \in Daemons : pc[d] = "cut"
           GoodStream(d) == Aligned(stream[d]) /\ (Whole(stream[d]) \/ pc[d] = "cut")
           GoodBuffer(s) == Aligned(received[s]) /\ (Whole(received[s]) \/ Cut)
           GoodEnd(s) == view[s] # Garbage /\ (spc[s] = "malformed" => Cut)
<1>a. /\ \A d \in Daemons : GoodStream(d)
      /\ \A s \in Servers : GoodBuffer(s) /\ GoodEnd(s)
  BY DEF FramingInv, BytesInv, Framing
<1>b. ASSUME \A d \in Daemons : GoodStream(d)', \A s \in Servers : GoodBuffer(s)' /\ GoodEnd(s)'
      PROVE  FramingInv'
  BY <1>b DEF FramingInv, BytesInv, Framing
<1>c. \A d \in Daemons : pc[d] = "cut" => pc'[d] = "cut"
  BY DaemonsEndOnce DEF Ended
<1>d. Cut => Cut'
  BY <1>c
<1> HIDE DEF Cut
<1>e. ASSUME NEW d \in Daemons, stream'[d] = stream[d]
      PROVE  GoodStream(d)'
  BY <1>a, <1>c, <1>e
<1>f. ASSUME NEW s \in Servers, received'[s] = received[s]
      PROVE  GoodBuffer(s)'
  BY <1>a, <1>d, <1>f
<1>g. ASSUME NEW s \in Servers, view'[s] = view[s], spc'[s] # "malformed" \/ spc'[s] = spc[s]
      PROVE  GoodEnd(s)'
  BY <1>a, <1>d, <1>g
<1>h. ASSUME NEW s \in Servers, NEW how \in Down, EndServer(s, how), how = "malformed" => Cut'
      PROVE  FramingInv'
  <2>1. \A d \in Daemons : stream'[d] = stream[d] \/ stream'[d] = <<>>
    BY <1>h DEF EndServer
  <2>2. \A d \in Daemons : GoodStream(d)'
    BY <1>e, <2>1, NoBytes
  <2>3. \A t \in Servers : received'[t] = received[t] \/ received'[t] = <<>>
    BY <1>h DEF EndServer, MonitorType, ServerTypeOK
  <2>4. \A t \in Servers : GoodBuffer(t)'
    BY <1>f, <2>3, NoBytes
  <2>5. \A t \in Servers : view'[t] = view[t] /\ (spc'[t] = spc[t] \/ (t = s /\ spc'[t] = how))
    BY <1>h DEF EndServer, MonitorType, ServerTypeOK
  <2>6. \A t \in Servers : GoodEnd(t)'
    BY <1>g, <1>h, <1>a, <2>5
  <2>7. QED
    BY <1>b, <2>2, <2>4, <2>6
<1>1. CASE UNCHANGED <<stream, received, view, spc>>
  BY <1>1, <1>b, <1>e, <1>f, <1>g
<1>2. ASSUME NEW d \in Daemons, Daemon(d) \/ SendIsCut(d) \/ DaemonFails(d)
      PROVE  FramingInv'
  <2>1. CASE Send(d) \/ SendIsCut(d)
    <3>1. stream[d] \in Seq(Bytes) /\ message[d] \in Sizes /\ pc[d] = "send" /\ WORD \in Nat \ {0}
      BY <2>1, WordAssumption DEF MonitorType, ServerTypeOK, ControlInv, Send, SendIsCut
    <3>2. Aligned(stream[d]) /\ Whole(stream[d])
      BY <1>a, <3>1
    <3> DEFINE Sent == Aligned(stream'[d]) /\ (Whole(stream'[d]) \/ pc'[d] = "cut")
    <3>3. ASSUME Send(d) PROVE Sent
      <4>1. stream'[d] = stream[d] \o Message(message[d])
        BY <3>3 DEF Send, MonitorType, ServerTypeOK
      <4>2. QED
        BY <3>1, <3>2, <4>1, SentBytes
    <3>4. ASSUME SendIsCut(d) PROVE Sent
      <4>1. PICK k \in 1 .. WORD - 1 : stream' = [stream EXCEPT ![d] = @ \o SubSeq(Message(message[d]), 1, k)]
        BY <3>4 DEF SendIsCut
      <4>2. stream'[d] = stream[d] \o SubSeq(Message(message[d]), 1, k)
        BY <4>1 DEF MonitorType, ServerTypeOK
      <4>3. pc'[d] = "cut"
        BY <3>4 DEF SendIsCut, End, MonitorType, MonitorTypeOK
      <4>4. QED
        BY <3>1, <3>2, <4>2, <4>3, SentBytes
    <3>5. Sent
      BY <2>1, <3>3, <3>4
    <3>6. \A e \in Daemons \ {d} : stream'[e] = stream[e]
      BY <2>1 DEF Send, SendIsCut, MonitorType, ServerTypeOK
    <3>7. UNCHANGED <<received, view, spc>>
      BY <2>1 DEF Send, SendIsCut, serverVars
    <3>8. QED
      BY <1>b, <1>e, <1>f, <1>g, <3>5, <3>6, <3>7
  <2>2. CASE UNCHANGED <<stream, received, view, spc>>
    BY <1>1, <2>2
  <2>3. QED
    BY <1>2, <2>1, <2>2 DEF Daemon, ConnectToServer, ConnectFails, AddWatch, AddWatchFails, ReadEvents, Stat,
       UndefinedEvent, StatAgain, StatFails, SendFails, DaemonFails, socketVars, serverVars
<1>3. ASSUME NEW s \in Servers, Server(s) \/ ServerFails(s)
      PROVE  FramingInv'
  <2>1. CASE Unlink(s) \/ Bind(s) \/ Listen(s) \/ RecvEnd(s) \/ Accept(s)
    <3>1. UNCHANGED <<stream, received, view>> /\ \A t \in Servers : spc'[t] # "malformed" \/ spc'[t] = spc[t]
      BY <2>1 DEF Unlink, Bind, Listen, RecvEnd, Accept, socketVars, MonitorType, ServerTypeOK
    <3>2. QED
      BY <1>b, <1>e, <1>f, <1>g, <3>1
  <2>2. CASE BindFails(s) \/ ServerFails(s)
    BY <1>h, <2>2 DEF BindFails, ServerFails, Down
  <2>3. CASE IncorrectFormat(s)
    <3>1. received[s] \in Seq(Bytes) /\ received[s] # <<>> /\ Len(received[s]) < WORD /\ WORD \in Nat \ {0}
      BY <2>3, WordAssumption DEF IncorrectFormat, MonitorType, ServerTypeOK, ControlInv
    <3>2. ~Whole(received[s])
      <4>1. ASSUME NEW n \in Nat, Len(received[s]) = n * WORD
            PROVE  FALSE
        <5>1. n = 0 => n * WORD = 0
          BY <3>1
        <5>2. n # 0 => n * WORD >= WORD
          <6>1. n # 0 => n - 1 \in Nat /\ n * WORD = (n - 1) * WORD + WORD
            BY <3>1
          <6>2. n # 0 => (n - 1) * WORD \in Nat
            BY <3>1, <6>1
          <6>3. QED
            BY <3>1, <6>1, <6>2
        <5>3. Len(received[s]) # 0
          BY <3>1
        <5>4. QED
          BY <3>1, <4>1, <5>1, <5>2, <5>3
      <4>2. QED
        BY <4>1 DEF Whole
    <3>3. Cut'
      BY <1>a, <1>d, <3>2
    <3>4. QED
      BY <1>h, <2>3, <3>3 DEF IncorrectFormat, Down
  <2>4. CASE Recv(s)
    <3>1. wd[s] \in Daemons /\ stream[wd[s]] \in Seq(Bytes) /\ stream[wd[s]] # <<>>
      BY <2>4 DEF MonitorType, ServerTypeOK, ControlInv, Recv
    <3>2. PICK b \in Seq(Bytes) : b = stream[wd[s]] /\ b # <<>>
      BY <3>1
    <3>3. Aligned(b) /\ (Whole(b) \/ pc[wd[s]] = "cut")
      BY <1>a, <3>1, <3>2
    <3>4. PICK n \in 1 .. Len(b) :
              /\ n = Len(b) \/ n = MAX_MSG_LENGTH
              /\ Received(b) = SubSeq(b, 1, n) /\ Len(Received(b)) = n
      BY <3>2, ReceivedBytes
    <3>5. /\ received'[s] = SubSeq(b, 1, n)
          /\ stream'[wd[s]] = SubSeq(b, n + 1, Len(b))
      BY <2>4, <3>1, <3>2, <3>4 DEF Recv, MonitorType, ServerTypeOK
    <3>6. /\ Aligned(SubSeq(b, 1, n)) /\ (Whole(SubSeq(b, 1, n)) \/ Cut)
          /\ Aligned(SubSeq(b, n + 1, Len(b))) /\ (Whole(SubSeq(b, n + 1, Len(b))) \/ pc[wd[s]] = "cut")
      <4>1. CASE n = Len(b)
        <5>1. SubSeq(b, 1, n) = b /\ SubSeq(b, n + 1, Len(b)) = <<>>
          BY <4>1
        <5>2. QED
          BY <3>1, <3>3, <5>1, NoBytes DEF Cut
      <4>2. CASE n = MAX_MSG_LENGTH
        <5>1. PICK c \in Nat : n = c * WORD
          BY <4>2 DEF BufferHoldsWords
        <5>2. QED
          BY <3>3, <5>1, MessagesTaken
      <4>3. QED
        BY <3>4, <4>1, <4>2
    <3>7. GoodBuffer(s)'
      BY <1>a, <1>d, <3>1, <3>5, <3>6
    <3>8. \A d \in Daemons : GoodStream(d)'
      <4>1. \A d \in Daemons \ {wd[s]} : stream'[d] = stream[d]
        BY <2>4, <3>1 DEF Recv, MonitorType, ServerTypeOK
      <4>2. Aligned(stream'[wd[s]]) /\ (Whole(stream'[wd[s]]) \/ pc'[wd[s]] = "cut")
        BY <1>c, <3>1, <3>5, <3>6
      <4>3. QED
        BY <1>e, <4>1, <4>2
    <3>9. \A t \in Servers \ {s} : received'[t] = received[t]
      BY <2>4 DEF Recv, MonitorType, ServerTypeOK
    <3>10. \A t \in Servers : view'[t] = view[t] /\ (spc'[t] # "malformed" \/ spc'[t] = spc[t])
      BY <2>4 DEF Recv, MonitorType, ServerTypeOK
    <3>11. QED
      BY <1>b, <1>f, <1>g, <3>7, <3>8, <3>9, <3>10
  <2>5. CASE PrintSize(s)
    <3>1. PICK b \in Seq(Bytes) : b = received[s] /\ Len(b) >= WORD
      BY <2>5 DEF PrintSize, MonitorType, ServerTypeOK
    <3>2. Aligned(b) /\ (Whole(b) \/ Cut) /\ WORD \in Nat \ {0}
      BY <1>a, <3>1, WordAssumption
    <3>3. Aligned(SubSeq(b, WORD + 1, Len(b))) /\ (Whole(SubSeq(b, WORD + 1, Len(b))) \/ Cut)
      <4>1. WORD \in 0 .. Len(b) /\ WORD = 1 * WORD /\ 1 \in Nat
        BY <3>1, <3>2
      <4>2. QED
        BY <3>2, <4>1, MessagesTaken
    <3>4. received'[s] = SubSeq(b, WORD + 1, Len(b)) /\ view'[s] = Value(SubSeq(b, 1, WORD))
      BY <2>5, <3>1 DEF PrintSize, MonitorType, ServerTypeOK
    <3>5. view'[s] # Garbage
      <4>1. view'[s] \in Sizes
        BY <3>1, <3>2, <3>4, FirstValue
      <4>2. QED
        BY <4>1, SizeAssumption DEF Sizes, Garbage
    <3>6. GoodBuffer(s)'
      BY <1>d, <3>3, <3>4
    <3>7. \A t \in Servers \ {s} : received'[t] = received[t] /\ view'[t] = view[t]
      BY <2>5 DEF PrintSize, MonitorType, ServerTypeOK
    <3>8. UNCHANGED stream /\ \A t \in Servers : spc'[t] # "malformed" \/ spc'[t] = spc[t]
      BY <2>5 DEF PrintSize, MonitorType, ServerTypeOK, socketVars
    <3>9. GoodEnd(s)'
      BY <1>a, <1>d, <3>5, <3>8
    <3>10. QED
      BY <1>b, <1>e, <1>f, <1>g, <3>6, <3>7, <3>8, <3>9
  <2>6. QED
    BY <1>3, <2>1, <2>2, <2>3, <2>4, <2>5 DEF Server
<1>4. ASSUME Modify \/ Delete \/ Create
      PROVE  UNCHANGED <<stream, received, view, spc>>
  BY <1>4 DEF Modify, Delete, Create, Change, socketVars, serverVars
<1>5. QED
  BY <1>1, <1>2, <1>3, <1>4 DEF MonitorNext, monitorVars, socketVars, serverVars

(* The bytes of every pipe are whole messages, when the buffer of a server *)
(* holds whole ones.                                                       *)
LEMMA MessagesStayWhole == BufferHoldsWords => (Spec => []FramingInv)
<1> SUFFICES ASSUME BufferHoldsWords
             PROVE  Spec => []FramingInv
  OBVIOUS
<1>1. Init => FramingInv
  <2> SUFFICES ASSUME Init PROVE FramingInv
    OBVIOUS
  <2>1. \A d \in Daemons : stream[d] = <<>>
    BY DEF Init, MonitorInit
  <2>2. \A s \in Servers : received[s] = <<>> /\ view[s] = NoSize /\ spc[s] # "malformed"
    BY DEF Init, MonitorInit
  <2>3. NoSize # Garbage
    BY DEF NoSize, Garbage
  <2>4. QED
    BY <2>1, <2>2, <2>3, NoBytes DEF FramingInv, BytesInv, Framing
<1>2. MonitorType /\ MonitorType' /\ FramingInv /\ [Next]_vars => FramingInv'
  BY MonitorSteps, FramingStep
<1>3. QED
  BY <1>1, <1>2, MonitorTypeCorrect, PTL DEF Spec

(* A server finds the messages in the bytes it receives: what it prints is *)
(* a size that a daemon sent, and it ends with "incorrect format" only if  *)
(* a daemon sent part of a message.                                        *)
THEOREM MessagesAreFound == BufferHoldsWords => (Spec => []Framing)
<1>1. FramingInv => Framing
  BY DEF FramingInv
<1>2. QED
  BY <1>1, MessagesStayWhole, PTL

-----------------------------------------------------------------------------
(* The queues of the servers.                                              *)

(* What a server holds after it has taken the head of its backlog.         *)
LEMMA TailOfBacklog ==
    ASSUME NEW S, NEW b \in Seq(S), b # <<>>
    PROVE  /\ Head(b) = b[1] /\ 1 \in DOMAIN b
           /\ \A i \in DOMAIN Tail(b) : i + 1 \in DOMAIN b /\ Tail(b)[i] = b[i + 1] /\ 1 < i + 1
<1>1. Len(b) \in Nat \ {0} /\ Tail(b) \in Seq(S) /\ Len(Tail(b)) = Len(b) - 1
  OBVIOUS
<1>2. DOMAIN Tail(b) = 1 .. Len(b) - 1 /\ DOMAIN b = 1 .. Len(b)
  BY <1>1
<1>3. \A i \in 1 .. Len(b) - 1 : Tail(b)[i] = b[i + 1]
  OBVIOUS
<1>4. QED
  BY <1>1, <1>2, <1>3

(* The backlog after a connection.                                         *)
LEMMA AppendedBacklog ==
    ASSUME NEW S, NEW b \in Seq(S), NEW x \in S
    PROVE  \A i \in DOMAIN Append(b, x) : \/ i \in DOMAIN b /\ Append(b, x)[i] = b[i]
                                          \/ i = Len(b) + 1 /\ Append(b, x)[i] = x
<1>1. Append(b, x) \in Seq(S) /\ Len(Append(b, x)) = Len(b) + 1 /\ Len(b) \in Nat
  BY AppendProperties
<1>2. DOMAIN Append(b, x) = 1 .. Len(b) + 1 /\ DOMAIN b = 1 .. Len(b)
  BY <1>1
<1>3. \A i \in 1 .. Len(b) : Append(b, x)[i] = b[i]
  OBVIOUS
<1>4. Append(b, x)[Len(b) + 1] = x
  OBVIOUS
<1>5. \A i \in 1 .. Len(b) + 1 : i \in 1 .. Len(b) \/ i = Len(b) + 1
  BY <1>1
<1>6. QED
  BY <1>2, <1>3, <1>4, <1>5

(* All but the last of them were there before.                             *)
LEMMA EarlierInBacklog ==
    ASSUME NEW S, NEW b \in Seq(S), NEW x \in S
    PROVE  \A i, j \in DOMAIN Append(b, x) : i < j => i \in DOMAIN b /\ Append(b, x)[i] = b[i]
<1>1. Append(b, x) \in Seq(S) /\ Len(Append(b, x)) = Len(b) + 1 /\ Len(b) \in Nat
  BY AppendProperties
<1>2. DOMAIN Append(b, x) = 1 .. Len(b) + 1 /\ DOMAIN b = 1 .. Len(b)
  BY <1>1
<1>3. \A i \in 1 .. Len(b) : Append(b, x)[i] = b[i]
  OBVIOUS
<1>4. \A i, j \in 1 .. Len(b) + 1 : i < j => i \in 1 .. Len(b)
  BY <1>1
<1>5. QED
  BY <1>2, <1>3, <1>4

(* How a step changes the queue of server s.                               *)
SameQueue(s) == wd'[s] = wd[s] /\ backlog'[s] = backlog[s]
Accepts(s) == /\ wd[s] = None /\ backlog[s] # <<>>
              /\ wd'[s] = Head(backlog[s]) /\ backlog'[s] = Tail(backlog[s])
Leaves(s) == wd'[s] = None /\ (backlog'[s] = backlog[s] \/ backlog'[s] = <<>>)
Connects(s, d) ==
    /\ pc[d] = "connect" /\ pc'[d] = "watch" /\ Listening(s)
    /\ wd'[s] = wd[s] /\ backlog'[s] = Append(backlog[s], d)

(* What a step can do to the queue of a server: nothing, a new connection, *)
(* an accept, or an end.                                                   *)
LEMMA QueueSteps ==
    ASSUME MonitorType, [MonitorNext]_monitorVars, NEW s \in Servers
    PROVE  SameQueue(s) \/ Accepts(s) \/ Leaves(s) \/ \E d \in Daemons : Connects(s, d)
<1> USE DEF MonitorType, ServerTypeOK
<1>1. CASE UNCHANGED <<wd, backlog>>
  BY <1>1 DEF SameQueue
<1>2. ASSUME Modify \/ Delete \/ Create
      PROVE  UNCHANGED <<wd, backlog>>
  BY <1>2 DEF Modify, Delete, Create, Change, socketVars, serverVars
<1>3. ASSUME NEW d \in Daemons, Daemon(d) \/ SendIsCut(d) \/ DaemonFails(d)
      PROVE  SameQueue(s) \/ Connects(s, d)
  <2>1. CASE ConnectToServer(d)
    <3>1. CASE s = path
      BY <2>1, <3>1 DEF ConnectToServer, Connects, MonitorTypeOK, serverVars
    <3>2. CASE s # path
      BY <2>1, <3>2 DEF ConnectToServer, SameQueue, serverVars
    <3>3. QED
      BY <3>1, <3>2
  <2>2. CASE UNCHANGED <<wd, backlog>>
    BY <2>2 DEF SameQueue
  <2>3. QED
    BY <1>3, <2>1, <2>2 DEF Daemon, ConnectFails, AddWatch, AddWatchFails, ReadEvents, Stat,
       UndefinedEvent, StatAgain, StatFails, SendFails, DaemonFails, Send, SendIsCut, socketVars, serverVars
<1>4. ASSUME NEW t \in Servers, Server(t) \/ ServerFails(t)
      PROVE  SameQueue(s) \/ Accepts(s) \/ Leaves(s)
  <2>1. CASE \E how \in Down : EndServer(t, how)
    BY <2>1 DEF EndServer, SameQueue, Leaves
  <2>2. CASE Accept(t)
    <3>1. wd[t] = None
      BY <2>2 DEF Accept, ControlInv
    <3>2. QED
      BY <2>2, <3>1 DEF Accept, SameQueue, Accepts
  <2>3. CASE RecvEnd(t)
    BY <2>3 DEF RecvEnd, SameQueue, Leaves, socketVars
  <2>4. CASE UNCHANGED <<wd, backlog>>
    BY <2>4 DEF SameQueue
  <2>5. QED
    BY <1>4, <2>1, <2>2, <2>3, <2>4 DEF Server, Unlink, Bind, BindFails, Listen, Recv, PrintSize, IncorrectFormat,
       ServerFails, socketVars, Down
<1>5. QED
  BY <1>1, <1>2, <1>3, <1>4 DEF MonitorNext, monitorVars, socketVars, serverVars

(* A step takes daemons out of the queue and puts those behind it that     *)
(* connect.                                                                *)
LEMMA QueueMoves ==
    ASSUME MonitorType, [MonitorNext]_monitorVars, NEW s \in Servers
    PROVE  /\ \A d \in Daemons : Holds(s, d)' => Holds(s, d) \/ Connects(s, d)
           /\ \A d, e \in Daemons : Before(s, d, e)' => Before(s, d, e) \/ (Holds(s, d) /\ Connects(s, e))
<1> USE DEF MonitorType, ServerTypeOK
<1>0. \A d \in Daemons : d # None
  BY DaemonsAssumption
<1>1. PICK b \in Seq(Daemons), w \in Daemons \cup {None} : b = backlog[s] /\ w = wd[s]
  OBVIOUS
<1>2. CASE SameQueue(s)
  BY <1>2 DEF SameQueue, Holds, Before
<1>3. CASE Leaves(s)
  <2>1. wd'[s] = None /\ (backlog'[s] = b \/ backlog'[s] = <<>>)
    BY <1>1, <1>3 DEF Leaves
  <2>2. \A i \in DOMAIN <<>> : FALSE
    OBVIOUS
  <2>3. QED
    BY <1>0, <1>1, <2>1, <2>2 DEF Holds, Before
<1>4. CASE Accepts(s)
  <2>1. PICK c : /\ c = backlog'[s] /\ wd'[s] = b[1] /\ 1 \in DOMAIN b
                 /\ \A i \in DOMAIN c : i + 1 \in DOMAIN b /\ c[i] = b[i + 1] /\ 1 < i + 1
                 /\ \A i, j \in DOMAIN c : i < j => i + 1 < j + 1
    <3>1. b # <<>> /\ wd'[s] = Head(b) /\ backlog'[s] = Tail(b)
      BY <1>1, <1>4 DEF Accepts
    <3>2. /\ Head(b) = b[1] /\ 1 \in DOMAIN b
          /\ \A i \in DOMAIN Tail(b) : i + 1 \in DOMAIN b /\ Tail(b)[i] = b[i + 1] /\ 1 < i + 1
      BY <3>1, TailOfBacklog
    <3>3. \A i, j \in DOMAIN Tail(b) : i < j => i + 1 < j + 1
      <4>1. Tail(b) \in Seq(Daemons)
        BY <3>1
      <4>2. DOMAIN Tail(b) \subseteq Nat
        BY <4>1
      <4>3. QED
        BY <4>2
    <3>4. QED
      BY <3>1, <3>2, <3>3
  <2>2. \A d \in Daemons : Holds(s, d)' => Holds(s, d)
    BY <1>1, <2>1 DEF Holds
  <2>3. ASSUME NEW d \in Daemons, NEW e \in Daemons, Before(s, d, e)'
        PROVE  Before(s, d, e)
    <3>1. CASE b[1] = d /\ \E j \in DOMAIN c : c[j] = e
      BY <1>1, <2>1, <3>1 DEF Before
    <3>2. CASE \E i, j \in DOMAIN c : i < j /\ c[i] = d /\ c[j] = e
      <4>1. PICK i \in DOMAIN c, j \in DOMAIN c : i < j /\ c[i] = d /\ c[j] = e
        BY <3>2
      <4>2. i + 1 \in DOMAIN b /\ j + 1 \in DOMAIN b /\ i + 1 < j + 1 /\ b[i + 1] = d /\ b[j + 1] = e
        BY <2>1, <4>1
      <4>3. QED
        BY <1>1, <4>2 DEF Before
    <3>3. QED
      BY <2>1, <2>3, <3>1, <3>2 DEF Before
  <2>4. QED
    BY <2>2, <2>3
<1>5. ASSUME NEW x \in Daemons, Connects(s, x)
      PROVE  /\ \A d \in Daemons : Holds(s, d)' => Holds(s, d) \/ d = x
             /\ \A d, e \in Daemons : Before(s, d, e)' => Before(s, d, e) \/ (Holds(s, d) /\ e = x)
  <2>1. PICK c : c = backlog'[s] /\ c = Append(b, x) /\ wd'[s] = w
    BY <1>1, <1>5 DEF Connects
  <2>2. \A i \in DOMAIN Append(b, x) : (i \in DOMAIN b /\ Append(b, x)[i] = b[i]) \/ Append(b, x)[i] = x
    BY ONLY b \in Seq(Daemons), x \in Daemons, AppendedBacklog, SMTT(60)
  <2>3. \A i, j \in DOMAIN Append(b, x) : i < j => i \in DOMAIN b /\ Append(b, x)[i] = b[i]
    BY ONLY b \in Seq(Daemons), x \in Daemons, EarlierInBacklog, SMTT(60)
  <2>4. \A d \in Daemons : Holds(s, d)' => Holds(s, d) \/ d = x
    BY <1>1, <2>1, <2>2 DEF Holds
  <2>5. ASSUME NEW d \in Daemons, NEW e \in Daemons, Before(s, d, e)'
        PROVE  Before(s, d, e) \/ (Holds(s, d) /\ e = x)
    <3>1. CASE w = d /\ \E j \in DOMAIN c : c[j] = e
      BY <1>1, <2>1, <2>2, <3>1 DEF Before, Holds
    <3>2. CASE \E i, j \in DOMAIN c : i < j /\ c[i] = d /\ c[j] = e
      BY <1>1, <2>1, <2>2, <2>3, <3>2 DEF Before, Holds
    <3>3. QED
      BY <2>1, <2>5, <3>1, <3>2 DEF Before
  <2>6. QED
    BY <2>4, <2>5
<1>6. QED
  BY <1>2, <1>3, <1>4, <1>5, QueueSteps

(* A daemon that connects is the only one that runs: those before it in    *)
(* the queue have ended.                                                   *)
LEMMA QueueStep ==
    ASSUME MonitorType, MonitorType', QueueInv, OneReporter', [MonitorNext]_monitorVars
    PROVE  QueueInv'
<1> USE DEF MonitorType, ServerTypeOK
<1>1. \A d \in Daemons : /\ pc[d] \in Ended => pc'[d] \in Ended
                         /\ pc'[d] = "connect" => pc[d] = "connect"
  BY DaemonsEndOnce
<1>2. \A s \in Servers, d \in Daemons : Holds(s, d)' => Holds(s, d) \/ Connects(s, d)
  BY QueueMoves
<1>3. ASSUME NEW s \in Servers, NEW d \in Daemons, Connects(s, d), NEW e \in Daemons, NEW t \in Servers, Holds(t, e)
      PROVE  e # d /\ pc'[e] \in Ended
  <2>1. pc[e] # "connect" /\ pc[d] = "connect" /\ pc'[d] = "watch"
    BY <1>3 DEF QueueInv, Connects
  <2>2. Connected(d)' /\ pc'[e] # "connect"
    BY <1>1, <2>1 DEF Connected, Ended
  <2>3. ~Connected(e)'
    BY <2>1, <2>2 DEF OneReporter
  <2>4. QED
    BY <2>1, <2>2, <2>3 DEF Connected
<1>4. \A s \in Servers, d \in Daemons : Holds(s, d)' => pc'[d] # "connect"
  BY <1>1, <1>2 DEF QueueInv, Connects
<1>5. ASSUME NEW s \in Servers, NEW t \in Servers, NEW d \in Daemons, Holds(s, d)', Holds(t, d)'
      PROVE  s = t
  <2>1. CASE Holds(s, d) /\ Holds(t, d)
    BY <2>1 DEF QueueInv
  <2>2. CASE Holds(s, d) /\ Connects(t, d)
    BY <1>3, <2>2
  <2>3. CASE Connects(s, d) /\ Holds(t, d)
    BY <1>3, <2>3
  <2>4. CASE Connects(s, d) /\ Connects(t, d)
    <3>1. [MonitorNext]_monitorVars /\ pc[d] = "connect" /\ pc'[d] = "watch"
      BY <2>4 DEF Connects
    <3>2. ConnectToServer(d)
      <4>1. CASE UNCHANGED pc
        BY <3>1, <4>1
      <4>2. ASSUME NEW e \in Daemons, Daemon(e) \/ SendIsCut(e) \/ DaemonFails(e)
            PROVE  ConnectToServer(d)
        <5>1. CASE ConnectToServer(e)
          BY <3>1, <5>1 DEF ConnectToServer, MonitorTypeOK
        <5>2. CASE \E p \in {"read", "event", "stat2", "send"} \cup Ended : pc' = [pc EXCEPT ![e] = p]
          BY <3>1, <5>2 DEF MonitorTypeOK, Ended
        <5>3. QED
          BY <4>2, <5>1, <5>2 DEF Daemon, ConnectFails, AddWatch, AddWatchFails, ReadEvents, Stat, UndefinedEvent,
             StatAgain, StatFails, SendFails, DaemonFails, Send, SendIsCut, AfterEvent, End, Ended
      <4>3. QED
        BY <3>1, <4>1, <4>2 DEF MonitorNext, monitorVars, daemonVars, Modify, Delete, Create, Change, Server, Unlink,
           Bind, BindFails, Listen, Accept, Recv, RecvEnd, PrintSize, IncorrectFormat, ServerFails
    <3>3. \A u \in Servers : Connects(u, d) => u = path
      <4>1. ASSUME NEW u \in Servers, Connects(u, d), u # path
            PROVE  FALSE
        <5>1. backlog'[u] = backlog[u]
          BY <3>2, <4>1 DEF ConnectToServer
        <5>2. Len(Append(backlog[u], d)) = Len(backlog[u]) + 1 /\ Len(backlog[u]) \in Nat
          BY AppendProperties
        <5>3. QED
          BY <4>1, <5>1, <5>2 DEF Connects
      <4>2. QED
        BY <4>1
    <3>4. QED
      BY <2>4, <3>3
  <2>5. QED
    BY <1>2, <1>5, <2>1, <2>2, <2>3, <2>4
<1>6. ASSUME NEW s \in Servers, NEW d \in Daemons, NEW e \in Daemons, Before(s, d, e)'
      PROVE  pc'[d] \in Ended
  <2>1. CASE Before(s, d, e)
    BY <1>1, <2>1 DEF QueueInv
  <2>2. CASE Holds(s, d) /\ Connects(s, e)
    BY <1>3, <2>2
  <2>3. QED
    BY <1>6, <2>1, <2>2, QueueMoves
<1>7. QED
  BY <1>4, <1>5, <1>6 DEF QueueInv

(* One queue holds a daemon, and only the last of a queue can be running.  *)
THEOREM ServersTakeTurns == Spec => []QueueInv
<1>1. Init => QueueInv
  <2> SUFFICES ASSUME Init PROVE QueueInv
    OBVIOUS
  <2>1. \A s \in Servers : wd[s] = None /\ backlog[s] = <<>>
    BY DEF Init, MonitorInit
  <2>2. \A s \in Servers, d, e \in Daemons : ~Holds(s, d) /\ ~Before(s, d, e)
    BY <2>1, DaemonsAssumption DEF Holds, Before
  <2>3. QED
    BY <2>1, <2>2 DEF QueueInv
<1>2. MonitorType /\ MonitorType' /\ QueueInv /\ OneReporter' /\ [Next]_vars => QueueInv'
  BY MonitorSteps, QueueStep
<1>3. QED
  BY <1>1, <1>2, MonitorTypeCorrect, OneReports, PTL DEF Spec

-----------------------------------------------------------------------------
(* The order of the sizes.                                                 *)

(* The bytes of c are bytes of b.                                          *)
PartOf(c, b) == \A i \in DOMAIN c : \E j \in DOMAIN b : c[i] = b[j]

(* A byte begins with a size.                                              *)
LEMMA ByteType ==
    ASSUME NEW b \in Seq(Bytes), NEW i \in DOMAIN b
    PROVE  b[i] \in Bytes /\ b[i][1] \in Int /\ b[i][1] \in Sizes
<1>1. b[i] \in Bytes
  OBVIOUS
<1>2. b[i][1] \in Sizes
  BY <1>1 DEF Bytes
<1>3. QED
  BY <1>1, <1>2, SizeAssumption DEF Sizes

(* A sequence cut in two: the parts are in order when the whole is.        *)
LEMMA CutInTwo ==
    ASSUME NEW b \in Seq(Bytes), NEW n \in 0 .. Len(b)
    PROVE  LET a == SubSeq(b, 1, n)
               c == SubSeq(b, n + 1, Len(b))
           IN  /\ PartOf(a, b) /\ PartOf(c, b)
               /\ Sorted(b) => Sorted(a) /\ Sorted(c) /\ NotAfter(a, c)
               /\ c # <<>> => b # <<>> /\ Last(c) = Last(b)
               /\ c = <<>> => n = Len(b)
<1> PICK a \in Seq(Bytes), c \in Seq(Bytes) : a = SubSeq(b, 1, n) /\ c = SubSeq(b, n + 1, Len(b))
  <2>1. SubSeq(b, 1, n) \in Seq(Bytes) /\ SubSeq(b, n + 1, Len(b)) \in Seq(Bytes)
    BY SequenceTypes
  <2>2. QED
    BY <2>1
<1>1. Len(a) = n /\ Len(c) = Len(b) - n /\ Len(b) \in Nat
  BY SubSeqProperties
<1>2. DOMAIN a = 1 .. n /\ DOMAIN c = 1 .. Len(b) - n /\ DOMAIN b = 1 .. Len(b)
  BY <1>1
<1>3. \A i \in 1 .. n : i \in 1 .. Len(b) /\ a[i] = b[i]
  OBVIOUS
<1>4. \A i \in 1 .. Len(b) - n : n + i \in 1 .. Len(b) /\ c[i] = b[n + i]
  OBVIOUS
<1>5. PartOf(a, b) /\ PartOf(c, b)
  BY <1>2, <1>3, <1>4 DEF PartOf
<1>6. ASSUME Sorted(b)
      PROVE  Sorted(a) /\ Sorted(c) /\ NotAfter(a, c)
  <2>1. Sorted(a)
    BY <1>2, <1>3, <1>6 DEF Sorted
  <2>2. Sorted(c)
    <3> SUFFICES ASSUME NEW i \in 1 .. Len(b) - n, NEW j \in 1 .. Len(b) - n, i < j
                 PROVE  c[i][1] <= c[j][1]
      BY <1>2 DEF Sorted
    <3>1. PICK x \in 1 .. Len(b), y \in 1 .. Len(b) : x < y /\ c[i] = b[x] /\ c[j] = b[y]
      <4>1. n + i < n + j
        BY <1>1
      <4>2. QED
        BY <1>4, <4>1
    <3>2. QED
      BY <1>2, <1>6, <3>1 DEF Sorted
  <2>3. NotAfter(a, c)
    <3>1. \A i \in 1 .. n, j \in 1 .. Len(b) - n : i < n + j
      BY <1>1
    <3>2. QED
      BY <1>2, <1>3, <1>4, <1>6, <3>1 DEF Sorted, NotAfter
  <2>4. QED
    BY <2>1, <2>2, <2>3
<1>7. c # <<>> => b # <<>> /\ Last(c) = Last(b)
  <2>1. c # <<>> => Len(c) \in 1 .. Len(b) - n
    BY <1>1
  <2>2. c # <<>> => c[Len(c)] = b[Len(b)]
    <3>1. c # <<>> => c[Len(c)] = b[n + Len(c)]
      BY <1>4, <2>1
    <3>2. n + Len(c) = Len(b)
      BY <1>1
    <3>3. QED
      BY <3>1, <3>2
  <2>3. c # <<>> => b # <<>>
    BY <1>1, <2>1
  <2>4. QED
    BY <2>2, <2>3 DEF Last
<1>8. c = <<>> => n = Len(b)
  <2>1. c = <<>> => Len(c) = 0
    OBVIOUS
  <2>2. QED
    BY <1>1, <2>1
<1>9. QED
  BY <1>5, <1>6, <1>7, <1>8

(* A message behind a sequence.                                            *)
LEMMA PutBehind ==
    ASSUME NEW b \in Seq(Bytes), NEW c \in Seq(Bytes), NEW v \in Int, \A i \in DOMAIN c : c[i][1] = v
    PROVE  /\ \A i \in DOMAIN (b \o c) : (i \in DOMAIN b /\ (b \o c)[i] = b[i]) \/ (b \o c)[i][1] = v
           /\ Sorted(b) /\ (\A i \in DOMAIN b : b[i][1] <= v) => Sorted(b \o c)
           /\ c # <<>> => b \o c # <<>> /\ Last(b \o c)[1] = v
<1>0. b \o c \in Seq(Bytes)
  OBVIOUS
<1> PICK a \in Seq(Bytes) : a = b \o c
  BY <1>0
<1>1. Len(a) = Len(b) + Len(c) /\ Len(b) \in Nat /\ Len(c) \in Nat
  OBVIOUS
<1>2. DOMAIN a = 1 .. Len(a) /\ DOMAIN c = 1 .. Len(c) /\ DOMAIN b = 1 .. Len(b)
  BY <1>1
<1>3. \A i \in 1 .. Len(b) : a[i] = b[i]
  OBVIOUS
<1>4. \A i \in 1 .. Len(a) : i > Len(b) => a[i][1] = v
  <2>1. \A i \in 1 .. Len(a) : i > Len(b) => i - Len(b) \in 1 .. Len(c) /\ a[i] = c[i - Len(b)]
    BY <1>1
  <2>2. QED
    BY <1>2, <2>1
<1>5. ASSUME Sorted(b), \A i \in DOMAIN b : b[i][1] <= v
      PROVE  Sorted(a)
  <2> SUFFICES ASSUME NEW i \in 1 .. Len(a), NEW j \in 1 .. Len(a), i < j
               PROVE  a[i][1] <= a[j][1]
    BY <1>2 DEF Sorted
  <2>1. CASE j \in 1 .. Len(b)
    <3>1. i \in 1 .. Len(b)
      BY <1>1, <2>1
    <3>2. QED
      BY <1>2, <1>3, <1>5, <2>1, <3>1 DEF Sorted
  <2>2. CASE j > Len(b) /\ i \in 1 .. Len(b)
    BY <1>2, <1>3, <1>4, <1>5, <2>2
  <2>3. CASE j > Len(b) /\ i > Len(b)
    BY <1>4, <2>3
  <2>4. QED
    BY <1>1, <2>1, <2>2, <2>3
<1>6. \A i \in DOMAIN a : (i \in DOMAIN b /\ a[i] = b[i]) \/ a[i][1] = v
  BY <1>1, <1>2, <1>3, <1>4
<1>7. c # <<>> => a # <<>> /\ Last(a)[1] = v
  <2>1. c # <<>> => Len(c) > 0
    OBVIOUS
  <2>2. c # <<>> => Len(a) \in 1 .. Len(a) /\ Len(a) > Len(b)
    BY <1>1, <2>1
  <2>3. c # <<>> => a # <<>>
    BY <1>1, <2>2
  <2>4. QED
    BY <1>4, <2>2, <2>3 DEF Last
<1>8. QED
  BY <1>5, <1>6, <1>7

(* The bytes of a message are bytes of its size.                           *)
LEMMA MessageBytes ==
    ASSUME NEW v \in Sizes
    PROVE  /\ Message(v) \in Seq(Bytes) /\ Message(v) # <<>>
           /\ \A i \in DOMAIN Message(v) : Message(v)[i][1] = v
           /\ \A k \in 0 .. WORD : LET c == SubSeq(Message(v), 1, k) IN
                  c \in Seq(Bytes) /\ \A i \in DOMAIN c : c[i][1] = v
<1>1. WORD \in Nat \ {0}
  BY WordAssumption
<1>2. Message(v) \in Seq(Bytes) /\ Len(Message(v)) = WORD
  BY <1>1, MessageType
<1>3. \A i \in DOMAIN Message(v) : Message(v)[i][1] = v
  <2>1. DOMAIN Message(v) = 1 .. WORD /\ \A i \in 1 .. WORD : Message(v)[i] = <<v, i>>
    BY DEF Message
  <2>2. QED
    BY <2>1
<1>4. ASSUME NEW k \in 0 .. WORD
      PROVE  SubSeq(Message(v), 1, k) \in Seq(Bytes)
             /\ \A i \in DOMAIN SubSeq(Message(v), 1, k) : SubSeq(Message(v), 1, k)[i][1] = v
  <2>1. PICK c : c = SubSeq(Message(v), 1, k) /\ c \in Seq(Bytes) /\ Len(c) = k /\ \A i \in 1 .. k : c[i] = <<v, i>>
    BY MessageType
  <2>2. DOMAIN c = 1 .. k
    BY <1>1, <2>1
  <2>3. \A i \in DOMAIN c : c[i][1] = v
    BY <2>1, <2>2
  <2>4. QED
    BY <2>1, <2>3
<1>5. Message(v) # <<>>
  BY <1>1, <1>2
<1>6. QED
  BY <1>2, <1>3, <1>4, <1>5

(* How a step changes the pipe of a daemon, and the buffer of a server.    *)
Sends(d) ==
    /\ pc[d] = "send" /\ pc'[d] # "send" /\ UNCHANGED <<size, wd, backlog, received, view>>
    /\ \E c \in Seq(Bytes) :
          /\ \A i \in DOMAIN c : c[i][1] = message[d]
          /\ stream' = [stream EXCEPT ![d] = @ \o c]
Receives(s) ==
    /\ wd[s] \in Daemons /\ received[s] = <<>> /\ stream[wd[s]] # <<>>
    /\ UNCHANGED <<size, watching, queue, pc, wd, backlog, view>>
    /\ \E n \in 1 .. Len(stream[wd[s]]) :
          /\ received' = [received EXCEPT ![s] = SubSeq(stream[wd[s]], 1, n)]
          /\ stream' = [stream EXCEPT ![wd[s]] = SubSeq(@, n + 1, Len(@))]
Prints(s) ==
    /\ Len(received[s]) >= WORD /\ UNCHANGED <<size, watching, queue, pc, wd, backlog, stream>>
    /\ view' = [view EXCEPT ![s] = Value(SubSeq(received[s], 1, WORD))]
    /\ received' = [received EXCEPT ![s] = SubSeq(@, WORD + 1, Len(@))]
Drops ==
    /\ UNCHANGED view
    /\ \A d \in Daemons : stream'[d] = stream[d] \/ stream'[d] = <<>>
    /\ \A s \in Servers : received'[s] = received[s] \/ received'[s] = <<>>

(* The bytes move in these ways only.                                      *)
LEMMA ByteSteps ==
    ASSUME MonitorType, [MonitorNext]_monitorVars
    PROVE  \/ UNCHANGED <<stream, received, view>>
           \/ \E d \in Daemons : Sends(d)
           \/ \E s \in Servers : Receives(s) \/ Prints(s) \/ \E how \in Down : EndServer(s, how)
<1> USE DEF MonitorType, ServerTypeOK, MonitorTypeOK
<1>2. ASSUME Modify \/ Delete \/ Create
      PROVE  UNCHANGED <<stream, received, view>>
  BY <1>2 DEF Modify, Delete, Create, Change, socketVars, serverVars
<1>3. ASSUME NEW d \in Daemons, Daemon(d) \/ SendIsCut(d) \/ DaemonFails(d)
      PROVE  Sends(d) \/ UNCHANGED <<stream, received, view>>
  <2>1. CASE Send(d)
    <3>1. message[d] \in Sizes /\ pc[d] = "send"
      BY <2>1 DEF ControlInv, Send
    <3>2. PICK c \in Seq(Bytes) : c = Message(message[d]) /\ \A i \in DOMAIN c : c[i][1] = message[d]
      BY <3>1, MessageBytes
    <3>3. pc'[d] # "send"
      BY <2>1 DEF Send, AfterEvent
    <3>4. UNCHANGED <<size, wd, backlog, received, view>>
      BY <2>1 DEF Send, fileVars, serverVars
    <3>5. stream' = [stream EXCEPT ![d] = @ \o c]
      BY <2>1, <3>2 DEF Send
    <3>6. QED
      BY <3>1, <3>2, <3>3, <3>4, <3>5 DEF Sends
  <2>2. CASE SendIsCut(d)
    <3>1. message[d] \in Sizes /\ pc[d] = "send" /\ WORD \in Nat \ {0}
      BY <2>2, WordAssumption DEF ControlInv, SendIsCut
    <3>2. PICK k \in 1 .. WORD - 1 : stream' = [stream EXCEPT ![d] = @ \o SubSeq(Message(message[d]), 1, k)]
      BY <2>2 DEF SendIsCut
    <3>3. PICK v \in Sizes : v = message[d]
      BY <3>1
    <3>4. k \in 0 .. WORD
      BY <3>1
    <3>5. PICK c \in Seq(Bytes) : c = SubSeq(Message(v), 1, k) /\ \A i \in DOMAIN c : c[i][1] = v
      <4>1. /\ SubSeq(Message(v), 1, k) \in Seq(Bytes)
            /\ \A i \in DOMAIN SubSeq(Message(v), 1, k) : SubSeq(Message(v), 1, k)[i][1] = v
        BY <3>4, MessageBytes
      <4>2. QED
        BY <4>1
    <3>6. stream' = [stream EXCEPT ![d] = @ \o c]
      BY <3>2, <3>3, <3>5
    <3>7. QED
      BY <2>2, <3>1, <3>3, <3>5, <3>6 DEF Sends, SendIsCut, End, fileVars, serverVars
  <2>3. QED
    BY <1>3, <2>1, <2>2 DEF Daemon, ConnectToServer, ConnectFails, AddWatch, AddWatchFails, ReadEvents, Stat,
       UndefinedEvent, StatAgain, StatFails, SendFails, DaemonFails, socketVars, serverVars
<1>4. ASSUME NEW s \in Servers, Server(s) \/ ServerFails(s)
      PROVE  \/ UNCHANGED <<stream, received, view>>
             \/ Receives(s) \/ Prints(s) \/ \E how \in Down : EndServer(s, how)
  <2>2. CASE Recv(s)
    <3>1. wd[s] \in Daemons /\ stream[wd[s]] \in Seq(Bytes) /\ stream[wd[s]] # <<>> /\ received[s] = <<>>
      BY <2>2 DEF ControlInv, Recv
    <3>2. PICK b \in Seq(Bytes) : b = stream[wd[s]] /\ b # <<>>
      BY <3>1
    <3>3. PICK n \in 1 .. Len(b) : Received(b) = SubSeq(b, 1, n) /\ Len(Received(b)) = n
      BY <3>2, ReceivedBytes
    <3>4. /\ received' = [received EXCEPT ![s] = SubSeq(b, 1, n)]
          /\ stream' = [stream EXCEPT ![wd[s]] = SubSeq(@, n + 1, Len(@))]
      BY <2>2, <3>2, <3>3 DEF Recv
    <3>5. QED
      BY <2>2, <3>1, <3>2, <3>4 DEF Receives, Recv, fileVars, daemonVars, eventVars
  <2>3. CASE PrintSize(s)
    BY <2>3 DEF PrintSize, Prints, fileVars, daemonVars, eventVars, socketVars
  <2>4. QED
    BY <1>4, <2>2, <2>3 DEF Server, Unlink, Bind, BindFails, Listen, Accept, RecvEnd, IncorrectFormat,
       ServerFails, socketVars, Down
<1>5. QED
  BY <1>2, <1>3, <1>4 DEF MonitorNext, monitorVars, socketVars, serverVars

(* A step that neither adds nor moves bytes drops some at most.            *)
LEMMA ByteMoves ==
    ASSUME MonitorType, [MonitorNext]_monitorVars
    PROVE  Drops \/ (\E d \in Daemons : Sends(d)) \/ (\E s \in Servers : Receives(s) \/ Prints(s))
<1>1. UNCHANGED <<stream, received, view>> => Drops
  BY DEF Drops
<1>2. ASSUME NEW s \in Servers, NEW how \in Down, EndServer(s, how)
      PROVE  Drops
  BY <1>2 DEF MonitorType, ServerTypeOK, EndServer, Drops
<1>3. QED
  BY <1>1, <1>2, ByteSteps

(* A step moves one daemon at most.                                        *)
LEMMA DaemonMoves ==
    ASSUME MonitorType, [MonitorNext]_monitorVars, NEW d \in Daemons, NEW e \in Daemons, d # e
    PROVE  pc'[d] = pc[d] \/ pc'[e] = pc[e]
<1>1. CASE UNCHANGED pc
  BY <1>1
<1>2. ASSUME NEW x \in Daemons, Daemon(x) \/ SendIsCut(x) \/ DaemonFails(x)
      PROVE  \E p : pc' = [pc EXCEPT ![x] = p]
  BY <1>2 DEF Daemon, ConnectToServer, ConnectFails, AddWatch, AddWatchFails, ReadEvents, Stat, UndefinedEvent,
     StatAgain, StatFails, SendFails, DaemonFails, Send, SendIsCut, AfterEvent, End
<1>3. CASE \E x \in Daemons : \E p : pc' = [pc EXCEPT ![x] = p]
  BY <1>3 DEF MonitorType, MonitorTypeOK
<1>4. ASSUME NEW s \in Servers, Server(s) \/ ServerFails(s)
      PROVE  UNCHANGED pc
  BY <1>4 DEF Server, Unlink, Bind, BindFails, Listen, Accept, Recv, RecvEnd, PrintSize, IncorrectFormat,
     ServerFails, daemonVars
<1>5. ASSUME Modify \/ Delete \/ Create
      PROVE  UNCHANGED pc
  BY <1>5 DEF Modify, Delete, Create, Change
<1>6. QED
  BY <1>1, <1>2, <1>3, <1>4, <1>5 DEF MonitorNext, monitorVars, daemonVars

FileSizeInv == size \in Sizes /\ \A e \in Daemons : pc[e] = "send" => message[e] <= size

(* The file only grows, and what a daemon has read of it to send is never  *)
(* less than what was old before.                                          *)
LEMMA OldStays ==
    ASSUME Growing, MonitorType, MonitorType', [MonitorNext]_monitorVars, ~deleted', ~deleted => FileSizeInv
    PROVE  /\ ~deleted /\ FileSizeInv' /\ size <= size'
           /\ \A v \in Int : Old(v) => Old(v)'
<1> USE DEF MonitorType, MonitorTypeOK, ServerTypeOK
<1>1. ~deleted /\ Sizes \subseteq Int
  <2>1. deleted => deleted'
    <3>1. ASSUME Modify \/ Delete \/ Create
          PROVE  deleted => deleted'
      BY <3>1 DEF Modify, Delete, Create, Change
    <3>2. ASSUME NEW d \in Daemons, Daemon(d) \/ SendIsCut(d) \/ DaemonFails(d)
          PROVE  UNCHANGED deleted
      BY <3>2 DEF Daemon, ConnectToServer, ConnectFails, AddWatch, AddWatchFails, ReadEvents, Stat, UndefinedEvent,
         StatAgain, StatFails, SendFails, DaemonFails, Send, SendIsCut, fileVars
    <3>3. ASSUME NEW s \in Servers, Server(s) \/ ServerFails(s)
          PROVE  UNCHANGED deleted
      BY <3>3 DEF Server, Unlink, Bind, BindFails, Listen, Accept, Recv, RecvEnd, PrintSize, IncorrectFormat,
         ServerFails, fileVars
    <3>4. QED
      BY <3>1, <3>2, <3>3 DEF MonitorNext, monitorVars, fileVars
  <2>2. QED
    BY <2>1, SizeAssumption DEF Sizes
<1>2. FileSizeInv
  BY <1>1
<1>3. size' \in Sizes /\ size <= size'
  <2>1. CASE UNCHANGED size
    BY <1>1, <1>2, <2>1 DEF FileSizeInv
  <2>2. CASE Modify
    BY <1>1, <1>2, <2>2 DEF FileSizeInv, Modify, Change
  <2>3. CASE Delete
    BY <2>3 DEF Delete, Change
  <2>4. CASE Create
    BY <1>2, <2>4, SizeAssumption DEF FileSizeInv, Create, Sizes, NoSize
  <2>5. ASSUME NEW d \in Daemons, Daemon(d) \/ SendIsCut(d) \/ DaemonFails(d)
        PROVE  UNCHANGED size
    BY <2>5 DEF Daemon, ConnectToServer, ConnectFails, AddWatch, AddWatchFails, ReadEvents, Stat, UndefinedEvent,
       StatAgain, StatFails, SendFails, DaemonFails, Send, SendIsCut, fileVars
  <2>6. ASSUME NEW s \in Servers, Server(s) \/ ServerFails(s)
        PROVE  UNCHANGED size
    BY <2>6 DEF Server, Unlink, Bind, BindFails, Listen, Accept, Recv, RecvEnd, PrintSize, IncorrectFormat,
       ServerFails, fileVars
  <2>7. QED
    BY <2>1, <2>2, <2>3, <2>4, <2>5, <2>6 DEF MonitorNext, monitorVars, fileVars
<1>4. \A e \in Daemons : pc'[e] = "send" =>
         (pc[e] = "send" /\ message'[e] = message[e]) \/ (message'[e] = size /\ size' = size)
  <2>1. CASE UNCHANGED <<pc, message>>
    BY <2>1
  <2>2. ASSUME NEW d \in Daemons, Daemon(d) \/ SendIsCut(d) \/ DaemonFails(d)
        PROVE  \A e \in Daemons : pc'[e] = "send" =>
                  (pc[e] = "send" /\ message'[e] = message[e]) \/ (message'[e] = size /\ size' = size)
    <3>1. CASE StatAgain(d)
      BY <3>1 DEF StatAgain, fileVars
    <3>2. CASE \E p \in {"watch", "read", "event", "stat2"} \cup Ended : pc' = [pc EXCEPT ![d] = p]
      <4>1. pc'[d] # "send"
        BY <3>2 DEF Ended
      <4>2. message' = message \/ \E m : message' = [message EXCEPT ![d] = m]
        BY <2>2 DEF Daemon, ConnectToServer, ConnectFails, AddWatch, AddWatchFails, ReadEvents, Stat,
           UndefinedEvent, StatAgain, StatFails, SendFails, DaemonFails, Send, SendIsCut, End, ownVars
      <4>3. \A e \in Daemons \ {d} : pc'[e] = pc[e] /\ message'[e] = message[e]
        BY <3>2, <4>2
      <4>4. QED
        BY <4>1, <4>3
    <3>3. QED
      BY <2>2, <3>1, <3>2 DEF Daemon, ConnectToServer, ConnectFails, AddWatch, AddWatchFails, ReadEvents, Stat,
         UndefinedEvent, StatFails, SendFails, DaemonFails, Send, SendIsCut, AfterEvent, End, Ended
  <2>3. ASSUME NEW s \in Servers, Server(s) \/ ServerFails(s)
        PROVE  UNCHANGED <<pc, message>>
    BY <2>3 DEF Server, Unlink, Bind, BindFails, Listen, Accept, Recv, RecvEnd, PrintSize, IncorrectFormat,
       ServerFails, daemonVars, ownVars
  <2>4. ASSUME Modify \/ Delete \/ Create
        PROVE  UNCHANGED <<pc, message>>
    BY <2>4 DEF Modify, Delete, Create, Change, ownVars
  <2>5. QED
    BY <2>1, <2>2, <2>3, <2>4 DEF MonitorNext, monitorVars, daemonVars, ownVars
<1>5. \A e \in Daemons : pc[e] = "send" => message[e] \in Int
  BY <1>1 DEF ControlInv
<1>6. FileSizeInv'
  <2>1. size \in Int /\ size' \in Int
    BY <1>1, <1>2, <1>3 DEF FileSizeInv
  <2>2. \A e \in Daemons : pc[e] = "send" => message[e] <= size
    BY <1>2 DEF FileSizeInv
  <2>3. \A e \in Daemons : pc'[e] = "send" => message'[e] <= size'
    <3> SUFFICES ASSUME NEW e \in Daemons, pc'[e] = "send"
                 PROVE  message'[e] <= size'
      OBVIOUS
    <3>1. CASE message'[e] = size /\ size' = size
      BY <2>1, <3>1
    <3>2. CASE pc[e] = "send" /\ message'[e] = message[e]
      <4>1. message[e] \in Int /\ message[e] <= size
        BY <1>5, <2>2, <3>2
      <4>2. QED
        BY <1>3, <2>1, <3>2, <4>1
    <3>3. QED
      BY <1>4, <3>1, <3>2
  <2>4. QED
    BY <1>3, <2>3 DEF FileSizeInv
<1>7. ASSUME NEW v \in Int, Old(v)
      PROVE  Old(v)'
  <2>1. size \in Int /\ size' \in Int
    BY <1>1, <1>2, <1>3 DEF FileSizeInv
  <2>2. v <= size'
    BY <1>3, <1>7, <2>1 DEF Old
  <2>3. \A e \in Daemons : pc'[e] = "send" => v <= message'[e]
    BY <1>4, <1>7 DEF Old
  <2>4. QED
    BY <2>2, <2>3 DEF Old
<1>8. QED
  BY <1>1, <1>3, <1>6, <1>7

(* The sizes stay in order, in every pipe and along every queue.           *)
LEMMA SizesStep ==
    ASSUME Growing, MonitorType, MonitorType', QueueInv, OneReporter, SizesInv, [MonitorNext]_monitorVars
    PROVE  SizesInv'
<1> SUFFICES ASSUME ~deleted'
             PROVE  /\ FileSizeInv'
                    /\ \A d \in Daemons : StreamInv(d)'
                    /\ \A s \in Servers : BufferInv(s)'
                    /\ \A s \in Servers, d \in Daemons : Holds(s, d)' => PipeInv(s, d)'
                    /\ \A s \in Servers, d, e \in Daemons : Before(s, d, e)' => NotAfter(stream[d], stream[e])'
  BY DEF SizesInv, FileSizeInv
<1>1. ~deleted => FileSizeInv
  BY DEF SizesInv, FileSizeInv
<1>2. ~deleted /\ FileSizeInv' /\ \A v \in Int : Old(v) => Old(v)'
  BY <1>1, OldStays
<1>3. /\ \A d \in Daemons : StreamInv(d)
      /\ \A s \in Servers : BufferInv(s)
      /\ \A s \in Servers, d \in Daemons : Holds(s, d) => PipeInv(s, d)
      /\ \A s \in Servers, d, e \in Daemons : Before(s, d, e) => NotAfter(stream[d], stream[e])
  BY <1>2 DEF SizesInv
<1>4. /\ \A d \in Daemons : stream[d] \in Seq(Bytes) /\ stream'[d] \in Seq(Bytes)
      /\ \A s \in Servers : received[s] \in Seq(Bytes) /\ view[s] \in Int
  <2>1. OptionalSizes \cup {Garbage} \subseteq Int
    BY SizeAssumption DEF OptionalSizes, Sizes, NoSize, Garbage
  <2>2. QED
    BY <2>1 DEF MonitorType, ServerTypeOK
<1>5. /\ \A d \in Daemons : \A i \in DOMAIN stream[d] : stream[d][i][1] \in Int
      /\ \A s \in Servers : \A i \in DOMAIN received[s] : received[s][i][1] \in Int
  BY <1>4, ByteType
<1>6. \A s \in Servers, d \in Daemons : Holds(s, d)' => Holds(s, d) \/ Connects(s, d)
  BY QueueMoves
<1>7. \A s \in Servers, d, e \in Daemons : Before(s, d, e)' => Before(s, d, e) \/ (Holds(s, d) /\ Connects(s, e))
  BY QueueMoves
<1>8. \A i \in DOMAIN <<>> : FALSE
  OBVIOUS
<1>9. CASE Drops
  <2>1. \A d \in Daemons : stream'[d] = stream[d] \/ stream'[d] = <<>>
    BY <1>9 DEF Drops
  <2>2. \A s \in Servers : view'[s] = view[s] /\ (received'[s] = received[s] \/ received'[s] = <<>>)
    BY <1>9 DEF Drops
  <2>3. \A s \in Servers, d \in Daemons : Connects(s, d) => stream'[d] = <<>>
    <3>1. \A s \in Servers, d \in Daemons : Connects(s, d) => stream[d] = <<>>
      BY DEF Connects, MonitorType, ControlInv
    <3>2. QED
      BY <2>1, <3>1
  <2>4. \A d \in Daemons : StreamInv(d)'
    BY <1>2, <1>3, <1>5, <1>8, <2>1 DEF StreamInv, Sorted
  <2>5. \A s \in Servers : BufferInv(s)'
    BY <1>2, <1>3, <1>4, <1>5, <1>8, <2>2 DEF BufferInv, Sorted
  <2>6. \A s \in Servers, d \in Daemons : Holds(s, d)' => PipeInv(s, d)'
    BY <1>3, <1>6, <1>8, <2>1, <2>2, <2>3 DEF PipeInv, NotAfter
  <2>7. \A s \in Servers, d, e \in Daemons : Before(s, d, e)' => NotAfter(stream[d], stream[e])'
    BY <1>3, <1>7, <1>8, <2>1, <2>3 DEF NotAfter
  <2>8. QED
    BY <1>2, <2>4, <2>5, <2>6, <2>7
<1>a. CASE UNCHANGED <<wd, backlog>>
  <2>1. \A s \in Servers, d \in Daemons : Holds(s, d)' <=> Holds(s, d)
    BY <1>a DEF Holds
  <2>2. \A s \in Servers, d, e \in Daemons : Before(s, d, e)' <=> Before(s, d, e)
    BY <1>a DEF Before
  <2>3. ASSUME NEW d \in Daemons, Sends(d)
        PROVE  /\ \A e \in Daemons : StreamInv(e)'
               /\ \A s \in Servers : BufferInv(s)'
               /\ \A s \in Servers, e \in Daemons : Holds(s, e) => PipeInv(s, e)'
               /\ \A s \in Servers, e, f \in Daemons : Before(s, e, f) => NotAfter(stream[e], stream[f])'
    <3>1. PICK m \in Int : m = message[d]
      <4>1. message[d] \in Sizes
        BY <2>3 DEF Sends, MonitorType, ControlInv
      <4>2. QED
        BY <4>1, SizeAssumption DEF Sizes
    <3>2. PICK c \in Seq(Bytes) : stream' = [stream EXCEPT ![d] = @ \o c] /\ \A i \in DOMAIN c : c[i][1] = m
      BY <2>3, <3>1 DEF Sends
    <3>3. \A v : Old(v) => v <= m
      BY <2>3, <3>1 DEF Sends, Old
    <3>4. Old(m)'
      <4>1. \A e \in Daemons : pc'[e] # "send"
        <5>1. pc[d] = "send" /\ pc'[d] # "send" /\ Connected(d)
          BY <2>3 DEF Sends, Connected, Ended
        <5>2. ASSUME NEW e \in Daemons, e # d
              PROVE  pc'[e] # "send"
          <6>1. pc[e] \in {"connect"} \cup Ended
            BY <5>1, <5>2 DEF OneReporter, Connected
          <6>2. pc'[e] = pc[e] \/ pc'[d] = pc[d]
            BY <5>2, DaemonMoves
          <6>3. QED
            BY <5>1, <6>1, <6>2 DEF Ended
        <5>3. QED
          BY <5>1, <5>2
      <4>2. m <= size'
        BY <1>1, <1>2, <2>3, <3>1 DEF Sends, FileSizeInv
      <4>3. QED
        BY <4>1, <4>2 DEF Old
    <3>5. PICK b \in Seq(Bytes) : b = stream[d]
      BY <1>4
    <3>6. stream'[d] = b \o c /\ \A e \in Daemons \ {d} : stream'[e] = stream[e]
      BY <3>2, <3>5 DEF MonitorType, ServerTypeOK
    <3>7. /\ Sorted(b) /\ (\A i \in DOMAIN b : b[i][1] <= m) => Sorted(b \o c)
          /\ \A i \in DOMAIN (b \o c) : (i \in DOMAIN b /\ (b \o c)[i] = b[i]) \/ (b \o c)[i][1] = m
      BY <3>2, PutBehind
    <3>8. \A i \in DOMAIN b : Old(b[i][1]) /\ b[i][1] <= m
      BY <1>3, <3>3, <3>5 DEF StreamInv
    <3> PICK a : a = b \o c
      OBVIOUS
    <3>9. Sorted(a) /\ \A i \in DOMAIN a : (\E j \in DOMAIN b : a[i] = b[j]) \/ a[i][1] = m
      BY <1>3, <3>5, <3>7, <3>8 DEF StreamInv
    <3>10. \A e \in Daemons : StreamInv(e)'
      <4>1. \A i \in DOMAIN a : Old(a[i][1])'
        BY <1>2, <1>5, <3>4, <3>5, <3>8, <3>9
      <4>2. StreamInv(d)'
        BY <3>6, <3>9, <4>1 DEF StreamInv
      <4>3. \A e \in Daemons \ {d} : StreamInv(e)'
        BY <1>2, <1>3, <1>5, <3>6 DEF StreamInv
      <4>4. QED
        BY <4>2, <4>3
    <3>11. \A s \in Servers : received'[s] = received[s] /\ view'[s] = view[s]
      BY <2>3 DEF Sends
    <3>12. \A s \in Servers : BufferInv(s)'
      BY <1>2, <1>3, <1>4, <1>5, <3>11 DEF BufferInv
    <3>13. ASSUME NEW s \in Servers, NEW e \in Daemons, Holds(s, e)
           PROVE  PipeInv(s, e)'
      <4>1. CASE e # d
        BY <1>3, <3>6, <3>11, <3>13, <4>1 DEF PipeInv
      <4>2. CASE e = d
        <5>1. view[s] <= m /\ \A i \in DOMAIN received[s] : received[s][i][1] <= m
          BY <1>3, <3>3 DEF BufferInv
        <5>2. /\ \A i \in DOMAIN a : view[s] <= a[i][1]
              /\ NotAfter(received[s], a)
          <6>1. /\ \A i \in DOMAIN b : view[s] <= b[i][1]
                /\ \A i \in DOMAIN received[s], j \in DOMAIN b : received[s][i][1] <= b[j][1]
            BY <1>3, <3>5, <3>13, <4>2 DEF PipeInv, NotAfter
          <6>2. \A i \in DOMAIN a : view[s] <= a[i][1]
            BY <3>9, <5>1, <6>1
          <6>3. \A i \in DOMAIN received[s], j \in DOMAIN a : received[s][i][1] <= a[j][1]
            BY <3>9, <5>1, <6>1
          <6>4. QED
            BY <6>2, <6>3 DEF NotAfter
        <5>3. QED
          BY <3>6, <3>11, <4>2, <5>2 DEF PipeInv
      <4>3. QED
        BY <4>1, <4>2
    <3>14. ASSUME NEW s \in Servers, NEW e \in Daemons, NEW f \in Daemons, Before(s, e, f)
           PROVE  NotAfter(stream[e], stream[f])'
      <4>1. e # d
        BY <2>3, <3>14 DEF QueueInv, Sends, Ended
      <4>2. CASE f # d
        BY <1>3, <3>6, <3>14, <4>1, <4>2
      <4>3. CASE f = d
        <5>1. \A i \in DOMAIN stream[e] : stream[e][i][1] <= m
          BY <1>3, <3>3 DEF StreamInv
        <5>2. NotAfter(stream[e], a)
          BY <1>3, <3>5, <3>9, <3>14, <4>3, <5>1 DEF NotAfter
        <5>3. QED
          BY <3>6, <4>1, <4>3, <5>2
      <4>4. QED
        BY <4>2, <4>3
    <3>15. QED
      BY <3>10, <3>12, <3>13, <3>14
  <2>4. ASSUME NEW s \in Servers, Receives(s)
        PROVE  /\ \A e \in Daemons : StreamInv(e)'
               /\ \A t \in Servers : BufferInv(t)'
               /\ \A t \in Servers, e \in Daemons : Holds(t, e) => PipeInv(t, e)'
               /\ \A t \in Servers, e, f \in Daemons : Before(t, e, f) => NotAfter(stream[e], stream[f])'
    <3>0. PICK d \in Daemons : d = wd[s]
      BY <2>4 DEF Receives
    <3>a. PICK b \in Seq(Bytes) : b = stream[d]
      BY <1>4
    <3>1. PICK n \in 1 .. Len(b) :
             /\ d = wd[s] /\ b = stream[d]
             /\ received' = [received EXCEPT ![s] = SubSeq(b, 1, n)]
             /\ stream' = [stream EXCEPT ![d] = SubSeq(b, n + 1, Len(b))]
      BY <2>4, <3>0, <3>a DEF Receives
    <3>2. PICK a, c : /\ a = SubSeq(b, 1, n) /\ c = SubSeq(b, n + 1, Len(b))
                      /\ PartOf(a, b) /\ PartOf(c, b)
                      /\ Sorted(b) => Sorted(a) /\ Sorted(c) /\ NotAfter(a, c)
      <4>1. n \in 0 .. Len(b)
        OBVIOUS
      <4>2. /\ PartOf(SubSeq(b, 1, n), b) /\ PartOf(SubSeq(b, n + 1, Len(b)), b)
            /\ Sorted(b) => /\ Sorted(SubSeq(b, 1, n)) /\ Sorted(SubSeq(b, n + 1, Len(b)))
                            /\ NotAfter(SubSeq(b, 1, n), SubSeq(b, n + 1, Len(b)))
        BY ONLY b \in Seq(Bytes), <4>1, CutInTwo
      <4>3. QED
        BY <4>2
    <3>3. /\ received'[s] = a /\ \A t \in Servers \ {s} : received'[t] = received[t]
          /\ stream'[d] = c /\ \A e \in Daemons \ {d} : stream'[e] = stream[e]
          /\ \A t \in Servers : view'[t] = view[t]
      BY <2>4, <3>1, <3>2 DEF Receives, MonitorType, ServerTypeOK
    <3>4. \A e \in Daemons : PartOf(stream'[e], stream[e])
      BY <3>1, <3>2, <3>3 DEF PartOf
    <3>5. Sorted(a) /\ Sorted(c) /\ NotAfter(a, c)
      BY <1>3, <3>1, <3>2 DEF StreamInv
    <3>6. \A e \in Daemons : StreamInv(e)'
      <4>1. \A e \in Daemons : Sorted(stream[e])'
        BY <1>3, <3>3, <3>5 DEF StreamInv
      <4>2. \A e \in Daemons : \A i \in DOMAIN stream'[e] : Old(stream[e][i][1])'
        <5> SUFFICES ASSUME NEW e \in Daemons, NEW i \in DOMAIN stream'[e]
                     PROVE  Old(stream[e][i][1])'
          OBVIOUS
        <5>1. PICK j \in DOMAIN stream[e] : stream'[e][i] = stream[e][j]
          BY <3>4 DEF PartOf
        <5>2. PICK v \in Int : v = stream[e][j][1] /\ Old(v)
          BY <1>3, <1>5 DEF StreamInv
        <5>3. Old(v)'
          BY <1>2, <5>2
        <5>4. stream'[e][i][1] = v
          BY <5>1, <5>2
        <5>5. QED
          BY <5>3, <5>4 DEF Old
      <4>3. QED
        BY <4>1, <4>2 DEF StreamInv
    <3>7. Holds(s, d)
      BY <3>1 DEF Holds
    <3>8. \A i \in DOMAIN a : Old(a[i][1])' /\ view[s] <= a[i][1]
      BY <1>2, <1>3, <1>5, <3>1, <3>2, <3>7 DEF PartOf, StreamInv, PipeInv
    <3>9. \A t \in Servers : BufferInv(t)'
      BY <1>2, <1>3, <1>4, <1>5, <3>3, <3>5, <3>8 DEF BufferInv
    <3>10. ASSUME NEW t \in Servers, NEW e \in Daemons, Holds(t, e)
           PROVE  PipeInv(t, e)'
      <4>1. \A i \in DOMAIN stream'[e] : view[t] <= stream'[e][i][1]
        BY <1>3, <3>4, <3>10 DEF PipeInv, PartOf
      <4>2. NotAfter(received'[t], stream'[e])
        <5>1. CASE t # s
          BY <1>3, <3>3, <3>4, <3>10, <5>1 DEF PipeInv, PartOf, NotAfter
        <5>2. CASE t = s /\ e = d
          BY <3>3, <3>5, <5>2
        <5>3. CASE t = s /\ e # d
          <6>1. Before(s, d, e)
            BY <3>1, <3>10, <5>3 DEF Holds, Before
          <6>2. NotAfter(b, stream[e])
            BY <1>3, <3>1, <6>1
          <6>3. NotAfter(a, stream'[e])
            BY <3>2, <3>3, <5>3, <6>2 DEF NotAfter, PartOf
          <6>4. QED
            BY <3>3, <5>3, <6>3
        <5>4. QED
          BY <5>1, <5>2, <5>3
      <4>3. QED
        BY <3>3, <4>1, <4>2 DEF PipeInv
    <3>11. \A t \in Servers, e, f \in Daemons : Before(t, e, f) => NotAfter(stream[e], stream[f])'
      BY <1>3, <3>4 DEF NotAfter, PartOf
    <3>12. QED
      BY <3>6, <3>9, <3>10, <3>11
  <2>5. ASSUME NEW s \in Servers, Prints(s)
        PROVE  /\ \A e \in Daemons : StreamInv(e)'
               /\ \A t \in Servers : BufferInv(t)'
               /\ \A t \in Servers, e \in Daemons : Holds(t, e) => PipeInv(t, e)'
               /\ \A t \in Servers, e, f \in Daemons : Before(t, e, f) => NotAfter(stream[e], stream[f])'
    <3>1. WORD \in Nat \ {0}
      BY WordAssumption
    <3>a. PICK b \in Seq(Bytes) : b = received[s]
      BY DEF MonitorType, ServerTypeOK
    <3>2. PICK v : /\ b = received[s] /\ Len(b) >= WORD /\ v = Value(SubSeq(b, 1, WORD))
                   /\ view' = [view EXCEPT ![s] = v]
                   /\ received' = [received EXCEPT ![s] = SubSeq(b, WORD + 1, Len(b))]
      BY <1>4, <2>5, <3>a DEF Prints
    <3>3. WORD \in 0 .. Len(b)
      BY <3>1, <3>2
    <3>4. PICK c : c = SubSeq(b, WORD + 1, Len(b)) /\ PartOf(c, b) /\ (Sorted(b) => Sorted(c))
      BY <3>3, CutInTwo
    <3>5. /\ received'[s] = c /\ view'[s] = v
          /\ \A t \in Servers \ {s} : received'[t] = received[t] /\ view'[t] = view[t]
          /\ \A e \in Daemons : stream'[e] = stream[e]
      BY <2>5, <3>2, <3>4 DEF Prints, MonitorType, ServerTypeOK
    <3>6. 1 \in DOMAIN b /\ v \in {b[1][1], Garbage}
      <4>1. SubSeq(b, 1, WORD)[1] = b[1] /\ 1 \in DOMAIN b
        BY <3>1, <3>2
      <4>2. QED
        BY <3>2, <4>1 DEF Value
    <3>7. Sorted(b) /\ \A i \in DOMAIN b : Old(b[i][1]) /\ b[i][1] \in Int
      BY <1>3, <1>5, <3>2 DEF BufferInv
    <3>8. v \in Int /\ \A i \in DOMAIN b : v <= b[i][1]
      <4>1. \A i \in DOMAIN b : b[1][1] <= b[i][1] /\ Garbage <= b[i][1]
        <5>1. \A i \in DOMAIN b : i = 1 \/ 1 < i
          OBVIOUS
        <5>2. \A i \in DOMAIN b : b[1][1] <= b[i][1]
          BY <3>6, <3>7, <5>1 DEF Sorted
        <5>3. \A i \in DOMAIN b : b[i][1] \in Sizes
          BY ByteType
        <5>4. QED
          BY <5>2, <5>3, SizeAssumption DEF Sizes, Garbage
      <4>2. b[1][1] \in Int /\ Garbage \in Int
        BY <3>6, <3>7 DEF Garbage
      <4>3. QED
        BY <3>6, <4>1, <4>2
    <3>9. Old(v)
      <4>1. Old(b[1][1]) /\ v <= b[1][1] /\ b[1][1] \in Int
        BY <3>6, <3>7, <3>8
      <4>2. size \in Int /\ \A e \in Daemons : pc[e] = "send" => message[e] \in Int
        BY <1>1, <1>2, SizeAssumption DEF FileSizeInv, Sizes, MonitorType, ControlInv
      <4>3. QED
        BY <3>8, <4>1, <4>2 DEF Old
    <3>10. \A e \in Daemons : StreamInv(e)'
      BY <1>2, <1>3, <1>5, <3>5 DEF StreamInv
    <3>11. BufferInv(s)'
      <4>1. \A i \in DOMAIN c : Old(c[i][1])' /\ v <= c[i][1]
        BY <1>2, <3>4, <3>7, <3>8 DEF PartOf
      <4>2. Old(v)' /\ Sorted(c)
        BY <1>2, <3>4, <3>7, <3>8, <3>9
      <4>3. QED
        BY <3>5, <4>1, <4>2 DEF BufferInv
    <3>12. \A t \in Servers \ {s} : BufferInv(t)'
      BY <1>2, <1>3, <1>4, <1>5, <3>5 DEF BufferInv
    <3>13. ASSUME NEW t \in Servers, NEW e \in Daemons, Holds(t, e)
           PROVE  PipeInv(t, e)'
      <4>1. CASE t # s
        BY <1>3, <3>5, <3>13, <4>1 DEF PipeInv
      <4>2. CASE t = s
        <5>1. NotAfter(b, stream[e])
          BY <1>3, <3>2, <3>13, <4>2 DEF PipeInv
        <5>2. \A i \in DOMAIN stream[e] : v <= stream[e][i][1]
          BY <1>5, <3>6, <3>7, <3>8, <5>1 DEF NotAfter
        <5>3. NotAfter(c, stream[e])
          BY <3>4, <5>1 DEF NotAfter, PartOf
        <5>4. QED
          BY <3>5, <4>2, <5>2, <5>3 DEF PipeInv
      <4>3. QED
        BY <4>1, <4>2
    <3>14. \A t \in Servers, e, f \in Daemons : Before(t, e, f) => NotAfter(stream[e], stream[f])'
      BY <1>3, <3>5
    <3>15. QED
      BY <3>10, <3>11, <3>12, <3>13, <3>14
  <2>6. QED
    BY <1>2, <1>9, <2>1, <2>2, <2>3, <2>4, <2>5, ByteMoves
<1>10. QED
  <2>1. Drops \/ UNCHANGED <<wd, backlog>>
    BY ByteMoves DEF Sends, Receives, Prints
  <2>2. QED
    BY <1>9, <1>a, <2>1

(* A number, numbers in order, one more at most and a last one.            *)
LEMMA NumbersInOrder ==
    ASSUME NEW v \in Int, NEW vs \in Seq(Int), NEW ms \in Seq(Int), NEW z \in Int, Len(ms) <= 1,
           v <= z, \A i \in DOMAIN vs : v <= vs[i] /\ vs[i] <= z, \A k \in DOMAIN ms : v <= ms[k] /\ ms[k] <= z,
           \A i, j \in DOMAIN vs : i < j => vs[i] <= vs[j],
           \A i \in DOMAIN vs, k \in DOMAIN ms : vs[i] <= ms[k]
    PROVE  LET way == <<v>> \o vs \o ms \o <<z>> IN \A i \in 1 .. Len(way) - 1 : way[i] <= way[i + 1]
<1>1. PICK p \in Seq(Int) : p = <<v>> \o vs /\ Len(p) = 1 + Len(vs)
      /\ p[1] = v /\ \A i \in 1 .. Len(vs) : p[1 + i] = vs[i]
  <2>1. <<v>> \o vs \in Seq(Int) /\ Len(<<v>> \o vs) = 1 + Len(vs)
    OBVIOUS
  <2>2. (<<v>> \o vs)[1] = v /\ \A i \in 1 .. Len(vs) : (<<v>> \o vs)[1 + i] = vs[i]
    OBVIOUS
  <2>3. QED
    BY <2>1, <2>2
<1>2. DOMAIN vs = 1 .. Len(vs) /\ DOMAIN ms = 1 .. Len(ms) /\ Len(vs) \in Nat /\ Len(ms) \in 0 .. 1
  <2>1. DOMAIN vs = 1 .. Len(vs) /\ DOMAIN ms = 1 .. Len(ms) /\ Len(vs) \in Nat /\ Len(ms) \in Nat
    OBVIOUS
  <2>2. QED
    BY <2>1
<1>3. \A i \in 1 .. 1 + Len(vs) : i = 1 \/ (i - 1 \in 1 .. Len(vs) /\ p[i] = vs[i - 1])
  <2>1. \A i \in 1 .. 1 + Len(vs) : i # 1 => i - 1 \in 1 .. Len(vs) /\ i = 1 + (i - 1)
    BY <1>2
  <2>2. QED
    BY <1>1, <2>1
<1>4. \A i, j \in 1 .. 1 + Len(vs) : i < j => p[i] <= p[j]
  <2> SUFFICES ASSUME NEW i \in 1 .. 1 + Len(vs), NEW j \in 1 .. 1 + Len(vs), i < j
               PROVE  p[i] <= p[j]
    OBVIOUS
  <2>1. j # 1 /\ j - 1 \in 1 .. Len(vs) /\ p[j] = vs[j - 1]
    BY <1>2, <1>3
  <2>2. CASE i = 1
    BY <1>1, <1>2, <2>1, <2>2
  <2>3. CASE i # 1
    <3>1. i - 1 \in 1 .. Len(vs) /\ p[i] = vs[i - 1] /\ i - 1 < j - 1
      BY <1>2, <1>3, <2>3
    <3>2. QED
      BY <1>2, <2>1, <3>1
  <2>4. QED
    BY <2>2, <2>3
<1>5. \A i \in 1 .. 1 + Len(vs) : p[i] <= z /\ \A k \in 1 .. Len(ms) : p[i] <= ms[k]
  BY <1>1, <1>2, <1>3
<1>6. PICK q \in Seq(Int) : q = p \o ms /\ Len(q) = Len(p) + Len(ms)
      /\ (\A i \in 1 .. Len(p) : q[i] = p[i]) /\ (\A k \in 1 .. Len(ms) : q[Len(p) + k] = ms[k])
  <2>1. p \o ms \in Seq(Int) /\ Len(p \o ms) = Len(p) + Len(ms)
    OBVIOUS
  <2>2. (\A i \in 1 .. Len(p) : (p \o ms)[i] = p[i]) /\ (\A k \in 1 .. Len(ms) : (p \o ms)[Len(p) + k] = ms[k])
    OBVIOUS
  <2>3. QED
    BY <2>1, <2>2
<1>7. Len(p) = 1 + Len(vs) /\ Len(p) \in Nat /\ Len(q) \in Nat
  BY <1>1, <1>2, <1>6
<1>8. \A i \in 1 .. Len(q) : i \in 1 .. Len(p) \/ (i = Len(p) + 1 /\ 1 \in 1 .. Len(ms) /\ q[i] = ms[1])
  <2>1. \A i \in 1 .. Len(q) : i \in 1 .. Len(p) \/ (i = Len(p) + 1 /\ 1 \in 1 .. Len(ms))
    BY <1>2, <1>6, <1>7
  <2>2. QED
    BY <1>6, <2>1
<1>9. \A i \in 1 .. Len(q) - 1 : q[i] <= q[i + 1]
  <2> SUFFICES ASSUME NEW i \in 1 .. Len(q) - 1
               PROVE  q[i] <= q[i + 1]
    OBVIOUS
  <2>1. i \in 1 .. Len(p) /\ q[i] = p[i]
    <3>1. Len(q) <= Len(p) + 1
      BY <1>2, <1>6, <1>7
    <3>2. i \in 1 .. Len(p)
      BY <1>7, <3>1
    <3>3. QED
      BY <1>6, <3>2
  <2>2. CASE i + 1 \in 1 .. Len(p)
    BY <1>4, <1>6, <1>7, <2>1, <2>2
  <2>3. CASE i + 1 \notin 1 .. Len(p)
    <3>1. i + 1 \in 1 .. Len(q)
      BY <1>7
    <3>2. q[i + 1] = ms[1] /\ 1 \in 1 .. Len(ms)
      BY <1>8, <2>3, <3>1
    <3>3. QED
      BY <1>5, <1>7, <2>1, <3>2
  <2>4. QED
    BY <2>2, <2>3
<1>10. \A i \in 1 .. Len(q) : q[i] <= z
  BY <1>2, <1>5, <1>6, <1>7, <1>8
<1>11. PICK w \in Seq(Int) : w = q \o <<z>> /\ Len(w) = Len(q) + 1
       /\ (\A i \in 1 .. Len(q) : w[i] = q[i]) /\ w[Len(q) + 1] = z
  <2>1. q \o <<z>> \in Seq(Int) /\ Len(q \o <<z>>) = Len(q) + 1
    OBVIOUS
  <2>2. (\A i \in 1 .. Len(q) : (q \o <<z>>)[i] = q[i]) /\ (q \o <<z>>)[Len(q) + 1] = z
    OBVIOUS
  <2>3. QED
    BY <2>1, <2>2
<1>12. ASSUME NEW i \in 1 .. Len(w) - 1
       PROVE  w[i] <= w[i + 1]
  <2>1. i \in 1 .. Len(q) /\ w[i] = q[i]
    BY <1>7, <1>11
  <2>2. CASE i + 1 \in 1 .. Len(q)
    <3>1. i \in 1 .. Len(q) - 1
      BY <1>7, <2>1, <2>2
    <3>2. QED
      BY <1>9, <1>11, <2>1, <2>2, <3>1
  <2>3. CASE i + 1 = Len(q) + 1
    BY <1>10, <1>11, <2>1, <2>3
  <2>4. QED
    BY <1>7, <2>1, <2>2, <2>3
<1>13. QED
  BY <1>1, <1>6, <1>11, <1>12

(* The order of the pipe of a server is the order that InOrder speaks of.  *)
LEMMA OrderOfThePipe ==
    ASSUME MonitorType, SizesInv
    PROVE  InOrder
<1> SUFFICES ASSUME NEW s \in Servers, NEW d \in Daemons, wd[s] = d, ~deleted
             PROVE  \A i \in 1 .. Len(OnTheWay(s, d)) - 1 : OnTheWay(s, d)[i] <= OnTheWay(s, d)[i + 1]
  BY DEF InOrder
<1>1. PICK b \in Seq(Bytes), c \in Seq(Bytes) : b = received[s] /\ c = stream[d]
  BY DEF MonitorType, ServerTypeOK
<1>2. PICK a \in Seq(Bytes) : a = b \o c
  <2>1. b \o c \in Seq(Bytes)
    OBVIOUS
  <2>2. QED
    BY <2>1
<1>3. PICK v \in Int, z \in Int : v = view[s] /\ z = size
  <2>1. OptionalSizes \cup {Garbage} \subseteq Int
    BY SizeAssumption DEF OptionalSizes, Sizes, NoSize, Garbage
  <2>2. view[s] \in Int /\ size \in Int
    BY <2>1 DEF MonitorType, ServerTypeOK, MonitorTypeOK
  <2>3. QED
    BY <2>2
<1>4. /\ FileSizeInv /\ StreamInv(d) /\ BufferInv(s) /\ PipeInv(s, d)
  BY DEF SizesInv, FileSizeInv, Holds
<1>5. /\ Len(a) = Len(b) + Len(c) /\ Len(b) \in Nat /\ Len(c) \in Nat /\ DOMAIN a = 1 .. Len(a)
      /\ DOMAIN b = 1 .. Len(b) /\ DOMAIN c = 1 .. Len(c)
      /\ \A i \in 1 .. Len(b) : a[i] = b[i]
      /\ \A i \in 1 .. Len(c) : a[Len(b) + i] = c[i]
  <2>1. Len(a) = Len(b) + Len(c) /\ Len(b) \in Nat /\ Len(c) \in Nat
    BY <1>2
  <2>2. (\A i \in 1 .. Len(b) : a[i] = b[i]) /\ (\A i \in 1 .. Len(c) : a[Len(b) + i] = c[i])
    BY <1>2
  <2>3. QED
    BY <2>1, <2>2
<1>6. \A i \in 1 .. Len(a) : i \in 1 .. Len(b) \/ \E k \in 1 .. Len(c) : i = Len(b) + k
  <2> SUFFICES ASSUME NEW i \in 1 .. Len(a), i \notin 1 .. Len(b)
               PROVE  \E k \in 1 .. Len(c) : i = Len(b) + k
    OBVIOUS
  <2>1. i - Len(b) \in 1 .. Len(c) /\ i = Len(b) + (i - Len(b))
    BY <1>5
  <2>2. QED
    BY <2>1
<1>7. PICK vs \in Seq(Int) : vs = [i \in DOMAIN a |-> a[i][1]]
  <2>1. \A i \in DOMAIN a : a[i][1] \in Int
    BY ByteType
  <2>2. PICK f : f = [i \in DOMAIN a |-> a[i][1]]
    OBVIOUS
  <2>3. f \in [1 .. Len(a) -> Int] /\ Len(a) \in Nat
    BY <1>5, <2>1, <2>2
  <2>4. f \in Seq(Int)
    <3>1. PICK n \in Nat : f \in [1 .. n -> Int]
      BY <2>3
    <3>2. QED
      BY <3>1
  <2>5. QED
    BY <2>2, <2>4
<1>8. DOMAIN vs = 1 .. Len(a) /\ \A i \in 1 .. Len(a) : vs[i] = a[i][1]
  BY <1>5, <1>7
<1>9. \A i \in DOMAIN vs : v <= vs[i] /\ Old(vs[i])
  <2>1. \A i \in 1 .. Len(b) : v <= b[i][1] /\ Old(b[i][1])
    BY <1>1, <1>3, <1>4, <1>5 DEF BufferInv
  <2>2. \A i \in 1 .. Len(c) : v <= c[i][1] /\ Old(c[i][1])
    BY <1>1, <1>3, <1>4, <1>5 DEF StreamInv, PipeInv
  <2>3. ASSUME NEW i \in 1 .. Len(a)
        PROVE  v <= a[i][1] /\ Old(a[i][1])
    <3>1. CASE i \in 1 .. Len(b)
      BY <1>5, <2>1, <3>1
    <3>2. ASSUME NEW k \in 1 .. Len(c), i = Len(b) + k
          PROVE  v <= a[i][1] /\ Old(a[i][1])
      <4>1. a[i] = c[k]
        BY <1>5, <3>2
      <4>2. QED
        BY <2>2, <4>1
    <3>3. QED
      BY <1>6, <3>1, <3>2
  <2>4. QED
    BY <1>8, <2>3
<1>10. \A i, j \in DOMAIN vs : i < j => vs[i] <= vs[j]
  <2> SUFFICES ASSUME NEW i \in 1 .. Len(a), NEW j \in 1 .. Len(a), i < j
               PROVE  a[i][1] <= a[j][1]
    BY <1>8
  <2>1. CASE i \in 1 .. Len(b) /\ j \in 1 .. Len(b)
    BY <1>1, <1>4, <1>5, <2>1 DEF BufferInv, Sorted
  <2>2. ASSUME i \in 1 .. Len(b), NEW k \in 1 .. Len(c), j = Len(b) + k
        PROVE  a[i][1] <= a[j][1]
    <3>1. b[i][1] <= c[k][1]
      BY <1>1, <1>4, <1>5, <2>2 DEF PipeInv, NotAfter
    <3>2. QED
      BY <1>5, <2>2, <3>1
  <2>3. ASSUME NEW x \in 1 .. Len(c), i = Len(b) + x, NEW k \in 1 .. Len(c), j = Len(b) + k
        PROVE  a[i][1] <= a[j][1]
    <3>1. x < k
      BY <1>5, <2>3
    <3>2. c[x][1] <= c[k][1]
      BY <1>1, <1>4, <1>5, <3>1 DEF StreamInv, Sorted
    <3>3. QED
      BY <1>5, <2>3, <3>2
  <2>4. j \in 1 .. Len(b) => i \in 1 .. Len(b)
    BY <1>5
  <2>5. QED
    BY <1>6, <2>1, <2>2, <2>3, <2>4
<1>11. v <= z /\ Old(v) /\ \A i \in DOMAIN vs : vs[i] <= z
  BY <1>3, <1>4, <1>9 DEF BufferInv, Old
<1>12. OnTheWay(s, d) = <<v>> \o vs \o (IF pc[d] = "send" THEN <<message[d]>> ELSE <<>>) \o <<z>>
  BY <1>1, <1>2, <1>3, <1>7 DEF OnTheWay
<1>13. PICK ms \in Seq(Int) : /\ ms = (IF pc[d] = "send" THEN <<message[d]>> ELSE <<>>) /\ Len(ms) <= 1
                              /\ \A k \in DOMAIN ms : pc[d] = "send" /\ ms[k] = message[d]
  <2>1. CASE pc[d] = "send"
    <3>1. message[d] \in Int
      BY <2>1, SizeAssumption DEF MonitorType, ControlInv, Sizes
    <3>2. <<message[d]>> \in Seq(Int) /\ Len(<<message[d]>>) <= 1 /\ \A k \in DOMAIN <<message[d]>> : <<message[d]>>[k] = message[d]
      BY <3>1
    <3>3. QED
      BY <2>1, <3>2
  <2>2. CASE pc[d] # "send"
    <3>1. <<>> \in Seq(Int) /\ Len(<<>>) <= 1 /\ \A k \in DOMAIN <<>> : FALSE
      OBVIOUS
    <3>2. QED
      BY <2>2, <3>1
  <2>3. QED
    BY <2>1, <2>2
<1>14. \A k \in DOMAIN ms : v <= ms[k] /\ ms[k] <= z /\ \A i \in DOMAIN vs : vs[i] <= ms[k]
  BY <1>3, <1>4, <1>9, <1>11, <1>13 DEF FileSizeInv, Old
<1>15. LET way == <<v>> \o vs \o ms \o <<z>> IN \A i \in 1 .. Len(way) - 1 : way[i] <= way[i + 1]
  BY <1>9, <1>10, <1>11, <1>13, <1>14, NumbersInOrder
<1>16. QED
  BY <1>12, <1>13, <1>15

(* While the file only grows, what a server prints is in order: whatever   *)
(* two daemons do, one after the other, and however far the server is      *)
(* behind.                                                                 *)
THEOREM SizesArePrintedInOrder == Growing => (Spec => []InOrder)
<1> SUFFICES ASSUME Growing
             PROVE  Spec => []InOrder
  OBVIOUS
<1>1. Init => SizesInv
  <2> SUFFICES ASSUME Init PROVE SizesInv
    OBVIOUS
  <2>1. /\ size = 0 /\ 0 \in Sizes /\ \A d \in Daemons : stream[d] = <<>> /\ pc[d] = "connect"
        /\ \A s \in Servers : received[s] = <<>> /\ view[s] = NoSize /\ wd[s] = None /\ backlog[s] = <<>>
    BY SizeAssumption DEF Init, MonitorInit, Sizes
  <2>2. \A i \in DOMAIN <<>> : FALSE
    OBVIOUS
  <2>3. \A s \in Servers, d, e \in Daemons : ~Holds(s, d) /\ ~Before(s, d, e)
    BY <2>1, <2>2, DaemonsAssumption DEF Holds, Before
  <2>4. \A d \in Daemons : StreamInv(d)
    BY <2>1, <2>2 DEF StreamInv, Sorted
  <2>5. \A s \in Servers : BufferInv(s)
    BY <2>1, <2>2 DEF BufferInv, Sorted, Old, NoSize
  <2>6. QED
    BY <2>1, <2>3, <2>4, <2>5 DEF SizesInv
<1>2. MonitorType /\ MonitorType' /\ QueueInv /\ OneReporter /\ SizesInv /\ [Next]_vars => SizesInv'
  BY MonitorSteps, SizesStep
<1>3. MonitorType /\ SizesInv => InOrder
  BY OrderOfThePipe
<1>4. QED
  BY <1>1, <1>2, <1>3, MonitorTypeCorrect, ServersTakeTurns, OneReports, PTL DEF Spec

-----------------------------------------------------------------------------
(* What the server knows.                                                  *)

(* What a step of the file does to the events of a daemon.                 *)
LEMMA Notified ==
    ASSUME MonitorType, NEW e \in Events, Notify(e), NEW d \in Daemons
    PROVE  /\ d \notin watching => queue'[d] = queue[d]
           /\ d \in watching => queue'[d] # <<>>
           /\ (\A i \in DOMAIN queue[d] : queue[d][i] = e) => \A i \in DOMAIN queue'[d] : queue'[d][i] = e
<1>1. PICK b \in Seq(Events) : b = queue[d]
  BY DEF MonitorType, MonitorTypeOK
<1>2. queue'[d] = b \/ queue'[d] = Append(b, e)
  BY <1>1 DEF Notify
<1>3. Append(b, e) # <<>>
  BY SequenceTypes
<1>4. \A i \in DOMAIN Append(b, e) : (i \in DOMAIN b /\ Append(b, e)[i] = b[i]) \/ Append(b, e)[i] = e
  BY ONLY b \in Seq(Events), e \in Events, AppendedBacklog, SMTT(60)
<1>5. d \in watching => b # <<>> \/ queue'[d] = Append(b, e)
  BY <1>1 DEF Notify
<1>6. d \notin watching => queue'[d] = b
  BY <1>1 DEF Notify
<1>7. QED
  BY <1>1, <1>2, <1>3, <1>4, <1>5, <1>6

(* What is left of events that are all equal.                              *)
LEMMA TailOfEvents ==
    ASSUME NEW b \in Seq(Events), b # <<>>, NEW e, \A i \in DOMAIN b : b[i] = e
    PROVE  Head(b) = e /\ \A i \in DOMAIN Tail(b) : Tail(b)[i] = e
BY TailOfBacklog

(* The events, the numbers and the places of a daemon stay in step.        *)
LEMMA WatchStep ==
    ASSUME Growing, MonitorType, MonitorType', [MonitorNext]_monitorVars, \A d \in Daemons : WatchInv(d)
    PROVE  \A d \in Daemons : WatchInv(d)'
<1> USE DEF MonitorType, MonitorTypeOK
<1>0. Sizes \subseteq Int /\ NoSize \notin Sizes
  BY SizeAssumption DEF Sizes, NoSize
<1>1. CASE UNCHANGED <<size, daemonVars>>
  BY <1>1 DEF WatchInv, daemonVars, eventVars, ownVars
<1>2. ASSUME Modify, NEW d \in Daemons
      PROVE  WatchInv(d)'
  <2>1. size' \in Sizes /\ size <= size' /\ UNCHANGED <<pc, ownVars, watching>> /\ Notify("IN_MODIFY")
    BY <1>2 DEF Modify, Change
  <2>2. CASE d \in watching
    <3>1. queue'[d] # <<>> /\ \A i \in DOMAIN queue'[d] : queue'[d][i] = "IN_MODIFY"
      BY <2>1, <2>2, Notified DEF WatchInv, Events
    <3>2. /\ pc[d] = "stat2" => new_file_size[d] <= size /\ new_file_size[d] \in Int
          /\ pc[d] = "send" => /\ new_file_size[d] <= message[d] /\ message[d] <= size
                               /\ new_file_size[d] \in Int /\ message[d] \in Int
          /\ size \in Int /\ size' \in Int
      BY <1>0, <2>1, <2>2 DEF WatchInv, ControlInv
    <3>3. QED
      BY <2>1, <2>2, <3>1, <3>2 DEF WatchInv, ownVars
  <2>3. CASE d \notin watching
    <3>1. queue'[d] = queue[d]
      BY <2>1, <2>3, Notified DEF Events
    <3>2. QED
      BY <2>1, <2>3, <3>1 DEF WatchInv, ownVars
  <2>4. QED
    BY <2>2, <2>3
<1>3. ASSUME Delete, NEW d \in Daemons
      PROVE  WatchInv(d)'
  <2>1. UNCHANGED <<pc, ownVars>> /\ watching' = {} /\ Notify("IN_IGNORED")
    BY <1>3 DEF Delete, Change
  <2>2. d \notin watching => queue'[d] = queue[d]
    BY <2>1, Notified DEF Events
  <2>3. QED
    BY <2>1, <2>2 DEF WatchInv, ownVars
<1>4. ASSUME Create, NEW d \in Daemons
      PROVE  WatchInv(d)'
  <2>1. d \notin watching
    BY <1>0, <1>4 DEF Create, WatchInv
  <2>2. QED
    BY <1>4, <2>1 DEF Create, Change, WatchInv, ownVars
<1>5. ASSUME NEW x \in Daemons, Daemon(x) \/ SendIsCut(x) \/ DaemonFails(x), NEW d \in Daemons
      PROVE  WatchInv(d)'
  <2>0. UNCHANGED size
    BY <1>5 DEF Daemon, ConnectToServer, ConnectFails, AddWatch, AddWatchFails, ReadEvents, Stat, UndefinedEvent,
       StatAgain, StatFails, SendFails, DaemonFails, Send, SendIsCut, fileVars
  <2>1. CASE d # x
    <3>1. /\ pc'[d] = pc[d] /\ batch'[d] = batch[d] /\ last_file_size'[d] = last_file_size[d]
      BY <1>5, <2>1 DEF Daemon, ConnectToServer, ConnectFails, AddWatch, AddWatchFails, ReadEvents, Stat,
         UndefinedEvent, StatAgain, StatFails, SendFails, DaemonFails, Send, SendIsCut, End, NextEvent, AfterEvent,
         ownVars
    <3>2. new_file_size'[d] = new_file_size[d] /\ message'[d] = message[d]
      BY <1>5, <2>1 DEF Daemon, ConnectToServer, ConnectFails, AddWatch, AddWatchFails, ReadEvents, Stat,
         UndefinedEvent, StatAgain, StatFails, SendFails, DaemonFails, Send, SendIsCut, End, ownVars
    <3>3. queue'[d] = queue[d] /\ (d \in watching' <=> d \in watching)
      BY <1>5, <2>1 DEF Daemon, ConnectToServer, ConnectFails, AddWatch, AddWatchFails, ReadEvents, Stat,
         UndefinedEvent, StatAgain, StatFails, SendFails, DaemonFails, Send, SendIsCut, End, eventVars
    <3>4. QED
      BY <2>0, <3>1, <3>2, <3>3 DEF WatchInv
  <2>2. CASE d = x
    <3> USE <2>2
    <3>1. CASE \E how \in Ended : End(d, how)
      BY <3>1 DEF End, WatchInv, Ended
    <3>2. CASE ConnectToServer(d)
      <4>1. d \notin watching
        BY <3>2 DEF ConnectToServer, WatchInv
      <4>2. QED
        BY <3>2, <4>1 DEF ConnectToServer, WatchInv, eventVars, ownVars
    <3>3. CASE AddWatch(d)
      <4>1. d \notin watching
        BY <3>3 DEF AddWatch, WatchInv
      <4>2. queue'[d] = <<>> /\ batch'[d] = <<>> /\ pc'[d] = "read" /\ size' \in Sizes
        BY <2>0, <3>3, <4>1 DEF AddWatch, WatchInv, ownVars, OptionalSizes
      <4>3. \A i \in DOMAIN <<>> : FALSE
        OBVIOUS
      <4>4. d \in watching'
        BY <3>3 DEF AddWatch
      <4>5. QED
        BY <4>2, <4>3, <4>4 DEF WatchInv
    <3>4. CASE ReadEvents(d)
      <4>1. \A i \in DOMAIN <<>> : FALSE
        OBVIOUS
      <4>2. batch'[d] = queue[d] /\ queue'[d] = <<>> /\ pc[d] = "read" /\ pc'[d] = "event"
            /\ watching' = watching
        BY <3>4 DEF ReadEvents
      <4>3. QED
        BY <2>0, <4>1, <4>2 DEF WatchInv
    <3>5. ASSUME NextEvent(d), d \in watching, batch[d] # <<>>
          PROVE  \A i \in DOMAIN batch'[d] : batch'[d][i] = "IN_MODIFY"
      <4>1. PICK b \in Seq(Events) : b = batch[d]
        OBVIOUS
      <4>2. \A i \in DOMAIN b : b[i] = "IN_MODIFY"
        BY <3>5, <4>1 DEF WatchInv
      <4>3. \A i \in DOMAIN Tail(b) : Tail(b)[i] = "IN_MODIFY"
        BY <3>5, <4>1, <4>2, TailOfEvents
      <4>4. batch'[d] = Tail(b)
        BY <3>5, <4>1 DEF NextEvent
      <4>5. QED
        BY <4>3, <4>4
    <3>6. CASE Stat(d) \/ UndefinedEvent(d) \/ StatAgain(d) \/ Send(d)
      <4>1. /\ watching' = watching /\ queue' = queue /\ pc[d] \in {"event", "stat2", "send"} /\ batch[d] # <<>>
            /\ (batch' = batch \/ NextEvent(d))
            /\ pc'[d] \in {"read", "event", "stat2", "send"}
        BY <3>6 DEF Stat, UndefinedEvent, StatAgain, Send, AfterEvent, eventVars, ControlInv
      <4>2. CASE d \notin watching
        BY <4>1, <4>2 DEF WatchInv
      <4>3. CASE d \in watching
        <5>1. \A i \in DOMAIN batch'[d] : batch'[d][i] = "IN_MODIFY"
          BY <3>5, <4>1, <4>3 DEF WatchInv
        <5>2. pc'[d] = "stat2" => new_file_size'[d] <= size
          <6>1. pc'[d] = "stat2" => new_file_size'[d] = size
            BY <3>6 DEF Stat, UndefinedEvent, StatAgain, Send, AfterEvent
          <6>2. size \in Int
            BY <1>0, <4>3 DEF WatchInv
          <6>3. QED
            BY <6>1, <6>2
        <5>3. pc'[d] = "send" => new_file_size'[d] <= message'[d] /\ message'[d] = size
          <6>1. pc'[d] = "send" => pc[d] = "stat2" /\ new_file_size'[d] = new_file_size[d] /\ message'[d] = size
            BY <3>6 DEF Stat, UndefinedEvent, StatAgain, Send, AfterEvent
          <6>2. pc[d] = "stat2" => new_file_size[d] <= size
            BY <4>3 DEF WatchInv
          <6>3. QED
            BY <6>1, <6>2
        <5>4. size \in Int
          BY <1>0, <4>3 DEF WatchInv
        <5>5. QED
          BY <2>0, <4>1, <4>3, <5>1, <5>2, <5>3, <5>4 DEF WatchInv
      <4>4. QED
        BY <4>2, <4>3
    <3>7. QED
      BY <1>5, <3>1, <3>2, <3>3, <3>4, <3>6 DEF Daemon, ConnectFails, AddWatchFails, StatFails, SendFails, SendIsCut,
         DaemonFails, Ended
  <2>3. QED
    BY <2>1, <2>2
<1>6. ASSUME NEW s \in Servers, Server(s) \/ ServerFails(s)
      PROVE  UNCHANGED <<size, daemonVars>>
  BY <1>6 DEF Server, Unlink, Bind, BindFails, Listen, Accept, Recv, RecvEnd, PrintSize, IncorrectFormat, ServerFails,
     fileVars
<1>7. QED
  BY <1>1, <1>2, <1>3, <1>4, <1>5, <1>6 DEF MonitorNext, monitorVars, fileVars

(* The last size sent stays the last, wherever it moves to, until the      *)
(* daemon sends another.                                                   *)
LEMMA LastSentMoves ==
    ASSUME MonitorType, MonitorType', FramingInv, QueueInv, [MonitorNext]_monitorVars,
           NEW s \in Servers, NEW d \in Daemons, Holds(s, d), Holds(s, d)',
           pc[d] \notin Ended, stream[d] = <<>> => wd[s] = d
    PROVE  \/ stream'[d] # <<>> /\ LastSent(s, d)' = message[d] /\ pc'[d] # pc[d]
           \/ LastSent(s, d)' = LastSent(s, d) /\ (stream'[d] = <<>> => wd'[s] = d)
<1> USE DEF MonitorType, ServerTypeOK
<1>0. d # None
  BY DaemonsAssumption
<1>a. stream[d] = <<>> => wd'[s] = d
  <2>1. CASE Leaves(s)
    <3>1. wd[s] = d => Before(s, d, d)
      <4>1. wd'[s] # d /\ (backlog'[s] = backlog[s] \/ backlog'[s] = <<>>)
        BY <1>0, <2>1 DEF Leaves
      <4>2. \A i \in DOMAIN <<>> : FALSE
        OBVIOUS
      <4>3. QED
        BY <4>1, <4>2 DEF Holds, Before
    <3>2. QED
      BY <3>1 DEF QueueInv
  <2>2. QED
    BY <1>0, <2>1, QueueSteps DEF SameQueue, Accepts, Connects
<1>1. ASSUME stream'[d] = stream[d], received'[s] = received[s], view'[s] = view[s]
      PROVE  LastSent(s, d)' = LastSent(s, d) /\ (stream'[d] = <<>> => wd'[s] = d)
  BY <1>a, <1>1 DEF LastSent
<1>2. ASSUME NEW x \in Daemons, Sends(x)
      PROVE  \/ stream'[d] # <<>> /\ LastSent(s, d)' = message[d] /\ pc'[d] # pc[d]
             \/ LastSent(s, d)' = LastSent(s, d) /\ (stream'[d] = <<>> => wd'[s] = d)
  <2>1. UNCHANGED <<wd, received, view>> /\ pc[x] = "send" /\ pc'[x] # "send"
    BY <1>2 DEF Sends
  <2>2. PICK c \in Seq(Bytes) : /\ \A i \in DOMAIN c : c[i][1] = message[x]
                                /\ stream' = [stream EXCEPT ![x] = @ \o c]
    BY <1>2 DEF Sends
  <2>3. CASE x # d
    <3>1. stream'[d] = stream[d]
      BY <2>2, <2>3
    <3>2. QED
      BY <1>1, <2>1, <3>1
  <2>4. CASE x = d
    <3>1. PICK m \in Int : m = message[d]
      <4>1. message[d] \in Sizes
        BY <2>1, <2>4 DEF ControlInv
      <4>2. QED
        BY <4>1, SizeAssumption DEF Sizes
    <3>0. PICK b \in Seq(Bytes) : b = stream[d]
      BY <2>2, <2>4
    <3>2. PICK a : b = stream[d] /\ a = b \o c /\ stream'[d] = a
      BY <2>2, <2>4, <3>0
    <3>a. \A i \in DOMAIN c : c[i][1] = m
      BY <2>2, <2>4, <3>1
    <3>b. c # <<>> => b \o c # <<>> /\ Last(b \o c)[1] = m
      BY ONLY b \in Seq(Bytes), c \in Seq(Bytes), m \in Int, <3>a, PutBehind, SMTT(60)
    <3>3. c # <<>> => a # <<>> /\ Last(a)[1] = m
      BY <3>2, <3>b
    <3>4. CASE c # <<>>
      <4>1. a # <<>> /\ Last(a)[1] = m
        BY <3>3, <3>4
      <4>2. QED
        BY <2>1, <2>4, <3>1, <3>2, <4>1 DEF LastSent
    <3>5. CASE c = <<>>
      <4>1. a = b
        BY <3>2, <3>5
      <4>2. QED
        BY <1>1, <2>1, <3>2, <4>1
    <3>6. QED
      BY <3>4, <3>5
  <2>5. QED
    BY <2>3, <2>4
<1>3. ASSUME NEW t \in Servers, Receives(t)
      PROVE  LastSent(s, d)' = LastSent(s, d) /\ (stream'[d] = <<>> => wd'[s] = d)
  <2>1. PICK e \in Daemons : e = wd[t]
    BY <1>3 DEF Receives
  <2>2. PICK b \in Seq(Bytes) : b = stream[e] /\ b # <<>>
    BY <1>3, <2>1 DEF Receives
  <2>3. PICK n \in 1 .. Len(b) : /\ received' = [received EXCEPT ![t] = SubSeq(b, 1, n)]
                                 /\ stream' = [stream EXCEPT ![e] = SubSeq(b, n + 1, Len(b))]
    BY <1>3, <2>1, <2>2 DEF Receives
  <2>4. UNCHANGED <<wd, view>>
    BY <1>3 DEF Receives
  <2>5. CASE e # d
    <3>1. stream'[d] = stream[d]
      BY <2>3, <2>5
    <3>2. CASE t # s
      <4>1. received'[s] = received[s]
        BY <2>3, <3>2
      <4>2. QED
        BY <1>1, <2>4, <3>1, <4>1
    <3>3. CASE t = s
      <4>1. stream[d] # <<>>
        BY <2>1, <2>5, <3>3
      <4>2. QED
        BY <3>1, <4>1 DEF LastSent
    <3>4. QED
      BY <3>2, <3>3
  <2>6. CASE e = d
    <3>1. t = s
      BY <2>1, <2>6 DEF QueueInv, Holds
    <3>2. PICK c : c = SubSeq(b, n + 1, Len(b)) /\ (c # <<>> => b # <<>> /\ Last(c) = Last(b)) /\ (c = <<>> => n = Len(b))
      <4>1. n \in 0 .. Len(b)
        OBVIOUS
      <4>2. /\ SubSeq(b, n + 1, Len(b)) # <<>> => b # <<>> /\ Last(SubSeq(b, n + 1, Len(b))) = Last(b)
            /\ SubSeq(b, n + 1, Len(b)) = <<>> => n = Len(b)
        BY ONLY b \in Seq(Bytes), <4>1, CutInTwo
      <4>3. QED
        BY <4>2
    <3>3. stream'[d] = c /\ received'[s] = SubSeq(b, 1, n)
      BY <2>3, <2>6, <3>1, <3>2
    <3>4. wd'[s] = d
      BY <2>1, <2>4, <2>6, <3>1
    <3>5. LastSent(s, d) = Last(b)[1]
      BY <2>2, <2>6 DEF LastSent
    <3>6. CASE c # <<>>
      BY <3>2, <3>3, <3>4, <3>5, <3>6 DEF LastSent
    <3>7. CASE c = <<>>
      <4>1. SubSeq(b, 1, n) = b
        BY <3>2, <3>7
      <4>2. LastSent(s, d)' = Last(b)[1]
        BY <2>2, <3>3, <3>7, <4>1 DEF LastSent
      <4>3. QED
        BY <3>4, <3>5, <4>2
    <3>8. QED
      BY <3>6, <3>7
  <2>7. QED
    BY <2>5, <2>6
<1>4. ASSUME NEW t \in Servers, Prints(t)
      PROVE  LastSent(s, d)' = LastSent(s, d) /\ (stream'[d] = <<>> => wd'[s] = d)
  <2>1. WORD \in Nat \ {0}
    BY WordAssumption
  <2>2. UNCHANGED <<wd, stream>>
    BY <1>4 DEF Prints
  <2>a. PICK b \in Seq(Bytes) : b = received[t]
    BY DEF MonitorType, ServerTypeOK
  <2>3. PICK v : /\ b = received[t] /\ Len(b) >= WORD /\ v = Value(SubSeq(b, 1, WORD))
                 /\ view' = [view EXCEPT ![t] = v]
                 /\ received' = [received EXCEPT ![t] = SubSeq(b, WORD + 1, Len(b))]
    BY <1>4, <2>a DEF Prints
  <2>4. CASE t # s
    <3>1. received'[s] = received[s] /\ view'[s] = view[s]
      BY <2>3, <2>4
    <3>2. QED
      BY <1>1, <2>2, <3>1
  <2>5. CASE t = s /\ stream[d] # <<>>
    BY <2>2, <2>5 DEF LastSent
  <2>6. CASE t = s /\ stream[d] = <<>>
    <3>1. PICK c : c = SubSeq(b, WORD + 1, Len(b)) /\ (c # <<>> => b # <<>> /\ Last(c) = Last(b)) /\ (c = <<>> => WORD = Len(b))
      <4>1. WORD \in 0 .. Len(b)
        BY <2>1, <2>3
      <4>2. /\ SubSeq(b, WORD + 1, Len(b)) # <<>> => b # <<>> /\ Last(SubSeq(b, WORD + 1, Len(b))) = Last(b)
            /\ SubSeq(b, WORD + 1, Len(b)) = <<>> => WORD = Len(b)
        BY ONLY b \in Seq(Bytes), <4>1, CutInTwo
      <4>3. QED
        BY <4>2
    <3>2. b # <<>>
      BY <2>1, <2>3
    <3>3. LastSent(s, d) = Last(b)[1]
      BY <2>3, <2>6, <3>2 DEF LastSent
    <3>4. stream'[d] = <<>> /\ received'[s] = c /\ view'[s] = v /\ wd'[s] = d
      BY <2>2, <2>3, <2>6, <3>1
    <3>5. CASE c # <<>>
      BY <3>1, <3>3, <3>4, <3>5 DEF LastSent
    <3>6. CASE c = <<>>
      <4>1. Aligned(b)
        BY <2>3 DEF FramingInv, BytesInv
      <4>2. v = b[1][1] /\ b[WORD][1] = b[1][1]
        BY <2>3, <4>1, FirstValue
      <4>3. Last(b)[1] = v
        BY <3>1, <3>2, <3>6, <4>2 DEF Last
      <4>4. LastSent(s, d)' = v
        BY <3>4, <3>6 DEF LastSent
      <4>5. QED
        BY <3>3, <3>4, <4>3, <4>4
    <3>7. QED
      BY <3>5, <3>6
  <2>7. QED
    BY <2>4, <2>5, <2>6
<1>5. ASSUME NEW t \in Servers, NEW how \in Down, EndServer(t, how)
      PROVE  LastSent(s, d)' = LastSent(s, d) /\ (stream'[d] = <<>> => wd'[s] = d)
  <2>1. t # s
    <3>1. t = s => wd'[s] = None /\ backlog'[s] = <<>>
      BY <1>5 DEF EndServer
    <3>2. \A i \in DOMAIN <<>> : FALSE
      OBVIOUS
    <3>3. QED
      BY <1>0, <3>1, <3>2 DEF Holds
  <2>2. ~Serves(t, d)
    BY <2>1 DEF QueueInv, Serves, Holds
  <2>3. stream'[d] = stream[d] /\ received'[s] = received[s] /\ view'[s] = view[s]
    BY <1>5, <2>1, <2>2 DEF EndServer
  <2>4. QED
    BY <1>1, <2>3
<1>6. CASE UNCHANGED <<stream, received, view>>
  BY <1>1, <1>6
<1>7. QED
  BY <1>2, <1>3, <1>4, <1>5, <1>6, ByteSteps

(* The last byte of a buffer belongs to a number.                          *)
LEMMA LastByteType ==
    ASSUME NEW b \in Seq(Bytes), b # <<>>
    PROVE  Last(b)[1] \in Int
<1>1. Len(b) \in DOMAIN b /\ Last(b) = b[Len(b)]
  BY DEF Last
<1>2. b[Len(b)] \in Bytes
  BY <1>1
<1>3. QED
  BY <1>1, <1>2, ByteType

(* The last size sent is a number, before a step and after it.             *)
LEMMA LastSentType ==
    ASSUME MonitorType, MonitorType', NEW s \in Servers, NEW d \in Daemons
    PROVE  LastSent(s, d) \in Int /\ LastSent(s, d)' \in Int
<1>1. OptionalSizes \cup {Garbage} \subseteq Int
  BY SizeAssumption DEF OptionalSizes, Sizes, NoSize, Garbage
<1>2. stream[d] \in Seq(Bytes) /\ received[s] \in Seq(Bytes) /\ view[s] \in Int
  BY <1>1 DEF MonitorType, ServerTypeOK
<1>3. stream'[d] \in Seq(Bytes) /\ received'[s] \in Seq(Bytes) /\ view'[s] \in Int
  BY <1>1 DEF MonitorType, ServerTypeOK
<1>4. LastSent(s, d) \in Int
  BY <1>2, LastByteType DEF LastSent
<1>5. LastSent(s, d)' \in Int
  BY <1>3, LastByteType DEF LastSent
<1>6. QED
  BY <1>4, <1>5

(* What the server knows of the daemon it holds stays in step with the     *)
(* file.                                                                   *)
LEMMA SentStep ==
    ASSUME Growing, MonitorType, MonitorType', FramingInv, QueueInv, KnownInv, \A d \in Daemons : WatchInv(d)',
           [MonitorNext]_monitorVars
    PROVE  \A s \in Servers, d \in Daemons : SentInv(s, d)'
<1> SUFFICES ASSUME NEW s \in Servers, NEW d \in Daemons,
                    d \in watching', Holds(s, d)', last_file_size'[d] # NoSize
             PROVE  /\ stream'[d] = <<>> => wd'[s] = d
                    /\ last_file_size'[d] <= LastSent(s, d)' /\ LastSent(s, d)' <= size'
                    /\ pc'[d] \in {"stat2", "send"} => LastSent(s, d)' <= new_file_size'[d]
                    /\ pc'[d] = "read" /\ queue'[d] = <<>> => LastSent(s, d)' = size'
  BY DEF SentInv
<1> USE DEF MonitorType, MonitorTypeOK
<1>0. Sizes \subseteq Int /\ NoSize \notin Sizes
  BY SizeAssumption DEF Sizes, NoSize
<1>1. WatchInv(d) /\ WatchInv(d)' /\ SentInv(s, d)
  BY DEF KnownInv
<1>2. pc'[d] \in {"read", "event", "stat2", "send"} /\ size' \in Sizes
  BY <1>1 DEF WatchInv
<1>3. Holds(s, d)
  <2>1. ~Connects(s, d)
    BY <1>2 DEF Connects
  <2>2. QED
    BY <2>1, QueueMoves
<1>a. pc[d] # "connect" /\ pc[d] \notin Ended
  <2>1. pc[d] # "connect"
    BY <1>3 DEF QueueInv
  <2>2. pc[d] \in Ended => pc'[d] \in Ended
    BY DaemonsEndOnce
  <2>3. QED
    BY <1>2, <2>1, <2>2 DEF Ended
<1>4. ASSUME d \in watching, last_file_size[d] # NoSize
      PROVE  \/ stream'[d] # <<>> /\ LastSent(s, d)' = message[d] /\ pc'[d] # pc[d]
             \/ LastSent(s, d)' = LastSent(s, d) /\ (stream'[d] = <<>> => wd'[s] = d)
  <2>1. stream[d] = <<>> => wd[s] = d
    BY <1>1, <1>3, <1>4 DEF SentInv
  <2>2. QED
    BY <1>3, <1>a, <2>1, LastSentMoves
<1>5. /\ LastSent(s, d) \in Int /\ LastSent(s, d)' \in Int /\ size' \in Int
      /\ (last_file_size[d] # NoSize => last_file_size[d] \in Int)
  <2>1. LastSent(s, d) \in Int /\ LastSent(s, d)' \in Int
    BY LastSentType
  <2>2. QED
    BY <1>0, <1>2, <2>1 DEF OptionalSizes
<1> DEFINE Kept == LastSent(s, d)' = LastSent(s, d) /\ (stream'[d] = <<>> => wd'[s] = d)
<1>6. ASSUME d \in watching, last_file_size[d] # NoSize, Kept, size' = size,
             last_file_size'[d] = last_file_size[d], pc'[d] = pc[d], queue'[d] = queue[d],
             new_file_size'[d] = new_file_size[d]
      PROVE  /\ stream'[d] = <<>> => wd'[s] = d
             /\ last_file_size'[d] <= LastSent(s, d)' /\ LastSent(s, d)' <= size'
             /\ pc'[d] \in {"stat2", "send"} => LastSent(s, d)' <= new_file_size'[d]
             /\ pc'[d] = "read" /\ queue'[d] = <<>> => LastSent(s, d)' = size'
  BY <1>1, <1>3, <1>6 DEF SentInv
<1>b. ASSUME pc'[d] = pc[d], d \in watching, last_file_size[d] # NoSize
      PROVE  Kept
  BY <1>4, <1>b
<1> HIDE DEF Kept
<1>7. CASE UNCHANGED <<size, daemonVars>>
  <2>1. /\ size' = size /\ last_file_size'[d] = last_file_size[d] /\ pc'[d] = pc[d] /\ queue'[d] = queue[d]
        /\ new_file_size'[d] = new_file_size[d] /\ d \in watching
    BY <1>7 DEF daemonVars, eventVars, ownVars
  <2>2. QED
    BY <1>6, <1>b, <2>1
<1>8. CASE Modify
  <2>1. /\ size' \in Sizes /\ size <= size' /\ UNCHANGED <<pc, ownVars, watching>> /\ Notify("IN_MODIFY")
    BY <1>8 DEF Modify, Change
  <2>2. queue'[d] # <<>> /\ d \in watching
    BY <2>1, Notified DEF Events
  <2>3. last_file_size'[d] = last_file_size[d] /\ new_file_size'[d] = new_file_size[d] /\ pc'[d] = pc[d]
    BY <2>1 DEF ownVars
  <2>4. Kept
    BY <1>b, <2>2, <2>3
  <2>5. /\ last_file_size[d] <= LastSent(s, d) /\ LastSent(s, d) <= size
        /\ pc[d] \in {"stat2", "send"} => LastSent(s, d) <= new_file_size[d]
    BY <1>1, <1>3, <2>2, <2>3 DEF SentInv
  <2>6. size \in Int
    BY <1>0, <1>1, <2>2 DEF WatchInv
  <2>7. QED
    BY <1>5, <2>1, <2>2, <2>3, <2>4, <2>5, <2>6 DEF Kept
<1>9. CASE Delete
  BY <1>9 DEF Delete
<1>10. CASE Create
  <2>1. d \notin watching
    BY <1>0, <1>1, <1>10 DEF Create, WatchInv
  <2>2. QED
    BY <1>10, <2>1 DEF Create
<1>11. ASSUME NEW x \in Daemons, Daemon(x) \/ SendIsCut(x) \/ DaemonFails(x)
       PROVE  /\ stream'[d] = <<>> => wd'[s] = d
              /\ last_file_size'[d] <= LastSent(s, d)' /\ LastSent(s, d)' <= size'
              /\ pc'[d] \in {"stat2", "send"} => LastSent(s, d)' <= new_file_size'[d]
              /\ pc'[d] = "read" /\ queue'[d] = <<>> => LastSent(s, d)' = size'
  <2>0. size' = size
    BY <1>11 DEF Daemon, ConnectToServer, ConnectFails, AddWatch, AddWatchFails, ReadEvents, Stat, UndefinedEvent,
       StatAgain, StatFails, SendFails, DaemonFails, Send, SendIsCut, fileVars
  <2>1. CASE d # x
    <3>1. pc'[d] = pc[d] /\ last_file_size'[d] = last_file_size[d]
      BY <1>11, <2>1 DEF Daemon, ConnectToServer, ConnectFails, AddWatch, AddWatchFails, ReadEvents, Stat,
         UndefinedEvent, StatAgain, StatFails, SendFails, DaemonFails, Send, SendIsCut, End, NextEvent, AfterEvent,
         ownVars
    <3>2. new_file_size'[d] = new_file_size[d]
      BY <1>11, <2>1 DEF Daemon, ConnectToServer, ConnectFails, AddWatch, AddWatchFails, ReadEvents, Stat,
         UndefinedEvent, StatAgain, StatFails, SendFails, DaemonFails, Send, SendIsCut, End, ownVars
    <3>3. queue'[d] = queue[d] /\ d \in watching
      BY <1>11, <2>1 DEF Daemon, ConnectToServer, ConnectFails, AddWatch, AddWatchFails, ReadEvents, Stat,
         UndefinedEvent, StatAgain, StatFails, SendFails, DaemonFails, Send, SendIsCut, End, eventVars
    <3>4. QED
      BY <1>6, <1>b, <2>0, <3>1, <3>2, <3>3
  <2>2. CASE d = x
    <3> USE <2>2
    <3>1. CASE \E how \in Ended : End(d, how)
      BY <1>2, <3>1 DEF End, Ended
    <3>2. CASE ConnectToServer(d)
      BY <1>a, <3>2 DEF ConnectToServer
    <3>3. CASE AddWatch(d)
      <4>1. d \notin watching
        BY <1>1, <3>3 DEF AddWatch, WatchInv
      <4>2. QED
        BY <1>1, <3>3, <4>1 DEF AddWatch, WatchInv, ownVars
    <3>a. ASSUME d \in watching, last_file_size'[d] = last_file_size[d], Kept
          PROVE  /\ stream'[d] = <<>> => wd'[s] = d
                 /\ last_file_size'[d] <= LastSent(s, d)' /\ LastSent(s, d)' <= size'
                 /\ LastSent(s, d)' = LastSent(s, d) /\ last_file_size[d] <= LastSent(s, d) /\ LastSent(s, d) <= size
                 /\ pc[d] \in {"stat2", "send"} => LastSent(s, d)' <= new_file_size[d]
      BY <1>1, <1>3, <2>0, <3>a DEF SentInv, Kept
    <3>b. ASSUME UNCHANGED <<stream, received, view, wd>>, d \in watching, last_file_size[d] # NoSize
          PROVE  Kept
      BY <1>1, <1>3, <3>b DEF Kept, LastSent, SentInv
    <3>4. CASE ReadEvents(d)
      <4>1. /\ d \in watching /\ last_file_size'[d] = last_file_size[d] /\ pc'[d] = "event"
            /\ UNCHANGED <<stream, received, view, wd>>
        BY <3>4 DEF ReadEvents, socketVars, serverVars
      <4>2. Kept
        BY <3>b, <4>1
      <4>3. QED
        BY <3>a, <4>1, <4>2
    <3>5. CASE Stat(d)
      <4>1. /\ d \in watching /\ last_file_size'[d] = last_file_size[d] /\ queue' = queue
            /\ UNCHANGED <<stream, received, view, wd>>
            /\ \/ pc'[d] = "stat2" /\ new_file_size'[d] = size
               \/ pc'[d] \in {"read", "event"} /\ size = last_file_size[d]
        BY <3>5 DEF Stat, AfterEvent, eventVars, socketVars, serverVars
      <4>2. Kept
        BY <3>b, <4>1
      <4>3. QED
        BY <1>5, <2>0, <3>a, <4>1, <4>2
    <3>6. CASE UndefinedEvent(d)
      <4>1. d \in watching /\ pc[d] = "event" /\ batch[d] # <<>> /\ Head(batch[d]) # "IN_MODIFY"
        BY <3>6 DEF UndefinedEvent, eventVars, ControlInv
      <4>2. PICK b \in Seq(Events) : b = batch[d] /\ b # <<>> /\ \A i \in DOMAIN b : b[i] = "IN_MODIFY"
        BY <1>1, <4>1 DEF WatchInv
      <4>3. Head(b) = "IN_MODIFY"
        BY <4>2, TailOfEvents
      <4>4. QED
        BY <4>1, <4>2, <4>3
    <3>7. CASE StatAgain(d)
      <4>1. /\ d \in watching /\ last_file_size'[d] = last_file_size[d] /\ new_file_size'[d] = new_file_size[d]
            /\ pc[d] = "stat2" /\ pc'[d] = "send" /\ UNCHANGED <<stream, received, view, wd>>
        BY <3>7 DEF StatAgain, eventVars, socketVars, serverVars
      <4>2. Kept
        BY <3>b, <4>1
      <4>3. QED
        BY <3>a, <4>1, <4>2
    <3>8. CASE Send(d)
      <4>1. /\ d \in watching /\ queue' = queue /\ last_file_size'[d] = new_file_size[d] /\ pc[d] = "send"
            /\ pc'[d] \in {"read", "event"} /\ message[d] \in Sizes
            /\ stream'[d] = stream[d] \o Message(message[d])
        BY <3>8 DEF Send, AfterEvent, eventVars, ControlInv, ServerTypeOK
      <4>a. PICK v \in Sizes : v = message[d]
        BY <4>1
      <4>b. /\ Message(v) \in Seq(Bytes) /\ Message(v) # <<>>
            /\ \A i \in DOMAIN Message(v) : Message(v)[i][1] = v
        BY MessageBytes
      <4>c. stream[d] \in Seq(Bytes)
        BY DEF ServerTypeOK
      <4>2. PICK b \in Seq(Bytes), c \in Seq(Bytes) :
               b = stream[d] /\ c = Message(v) /\ c # <<>> /\ \A i \in DOMAIN c : c[i][1] = v
        BY ONLY <4>b, <4>c
      <4>3. b \o c # <<>> /\ Last(b \o c)[1] = v
        <5>1. v \in Int
          BY <1>0
        <5>2. QED
          BY ONLY b \in Seq(Bytes), c \in Seq(Bytes), <5>1, <4>2, PutBehind, SMTT(60)
      <4>4. LastSent(s, d)' = v /\ stream'[d] # <<>>
        BY <4>1, <4>2, <4>3, <4>a DEF LastSent
      <4>5. new_file_size[d] <= v /\ v <= size /\ (queue[d] = <<>> => v = size)
        BY <1>1, <4>1, <4>a DEF WatchInv
      <4>6. QED
        BY <2>0, <4>1, <4>4, <4>5
    <3>9. QED
      BY <1>11, <3>1, <3>2, <3>3, <3>4, <3>5, <3>6, <3>7, <3>8 DEF Daemon, ConnectFails, AddWatchFails, StatFails,
         SendFails, SendIsCut, DaemonFails, Ended
  <2>3. QED
    BY <2>1, <2>2
<1>12. ASSUME NEW t \in Servers, Server(t) \/ ServerFails(t)
       PROVE  UNCHANGED <<size, daemonVars>>
  BY <1>12 DEF Server, Unlink, Bind, BindFails, Listen, Accept, Recv, RecvEnd, PrintSize, IncorrectFormat, ServerFails,
     fileVars
<1>13. QED
  BY <1>7, <1>8, <1>9, <1>10, <1>11, <1>12 DEF MonitorNext, monitorVars, fileVars

(* When nothing is on its way, the server knows the size of the file, if   *)
(* the file only grows: between the two calls of GetFileSize it can change *)
(* only with an event that is still to be read.                            *)
THEOREM QuietServerKnows == Growing /\ BufferHoldsWords => (Spec => []ServerKnowsTheSize)
<1> SUFFICES ASSUME Growing, BufferHoldsWords
             PROVE  Spec => []ServerKnowsTheSize
  OBVIOUS
<1>1. Init => KnownInv
  <2> SUFFICES ASSUME Init PROVE KnownInv
    OBVIOUS
  <2>1. watching = {} /\ \A d \in Daemons : queue[d] = <<>> /\ batch[d] = <<>> /\ last_file_size[d] = NoSize
    BY DEF Init, MonitorInit
  <2>2. QED
    BY <2>1 DEF KnownInv, WatchInv, SentInv
<1>2. MonitorType /\ MonitorType' /\ FramingInv /\ QueueInv /\ KnownInv /\ [Next]_vars => KnownInv'
  <2> SUFFICES ASSUME MonitorType, MonitorType', FramingInv, QueueInv, KnownInv, [Next]_vars
               PROVE  KnownInv'
    OBVIOUS
  <2>1. \A d \in Daemons : WatchInv(d)
    BY DEF KnownInv
  <2>2. \A d \in Daemons : WatchInv(d)'
    BY <2>1, MonitorSteps, WatchStep
  <2>3. \A s \in Servers, d \in Daemons : SentInv(s, d)'
    BY <2>2, MonitorSteps, SentStep
  <2>4. QED
    BY <2>2, <2>3 DEF KnownInv
<1>3. KnownInv => ServerKnowsTheSize
  <2> SUFFICES ASSUME KnownInv, NEW s \in Servers, NEW d \in Daemons, Quiet(s, d), last_file_size[d] # NoSize
               PROVE  view[s] = size
    BY DEF ServerKnowsTheSize
  <2>1. SentInv(s, d) /\ Holds(s, d)
    BY DEF KnownInv, Quiet, Holds
  <2>2. QED
    BY <2>1 DEF SentInv, Quiet, LastSent
<1>4. Spec => []FramingInv
  BY MessagesStayWhole
<1>5. QED
  BY <1>1, <1>2, <1>3, <1>4, MonitorTypeCorrect, ServersTakeTurns, PTL DEF Spec
=============================================================================
