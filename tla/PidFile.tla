------------------------------- MODULE PidFile -------------------------------
(***************************************************************************)
(* The PID file of hw9-Daemon (Daemonizer.c): a daemon detaches itself,    *)
(* takes a write lock on the file with fcntl, and writes its pid there;    *)
(* the handler of SIGHUP writes it again.  FileMonitor models what the     *)
(* daemon does when it runs, and MyDaemon both.                            *)
(*                                                                         *)
(* A process d is the grandchild that Daemonize leaves running; d is also  *)
(* its pid.  The handler interrupts the process between two system calls   *)
(* and SIGHUP is blocked while it runs, as with signal() of BSD and glibc. *)
(***************************************************************************)
EXTENDS DaemonProcesses

CONSTANT
    MaxHangups      \* bound: the number of SIGHUPs sent

ASSUME HangupsAssumption == MaxHangups \in Nat

VARIABLES
    content,        \* the pids in the file, each with the '\0' that ends it
    holder,         \* the process that holds the lock on the file
    dpc,
    handler,        \* the place in the handler of SIGHUP, "none" outside of it
    offset,         \* the file offset of the descriptor of d
    hangups

pidVars == <<content, holder, dpc, handler, offset, hangups>>

PidInit ==
    /\ content = <<>> /\ holder = None
    /\ dpc = [d \in Daemons |-> "start"]
    /\ handler = [d \in Daemons |-> "none"]
    /\ offset = [d \in Daemons |-> 0]
    /\ hangups = 0

Over == {"exit", "running_already"}
(* PIDFileFD # -1                                                          *)
HasPIDFile == {"truncate", "write", "run"}

Moves(d, from, to) ==
    /\ dpc[d] = from /\ handler[d] = "none"
    /\ dpc' = [dpc EXCEPT ![d] = to]

(* The file after d has written its pid at its offset: a gap reads as '\0'.*)
Written(d) ==
    [i \in 1 .. (IF Len(content) > offset[d] THEN Len(content) ELSE offset[d] + 1) |->
        IF i = offset[d] + 1 THEN d ELSE IF i <= Len(content) THEN content[i] ELSE Nul]

-----------------------------------------------------------------------------
(* Mistakes that TLC must be able to see.                                  *)

(* Do not look at the result of fcntl.                                     *)
MutLockFile(d) ==
    /\ Moves(d, "lock", "truncate")
    /\ holder' = d
    /\ UNCHANGED <<content, handler, offset, hangups>>

(* Take a file that exists for a daemon that runs (O_EXCL, no lock).       *)
MutIsLocked(d) == content # <<>>

(* Open the file with O_APPEND and do not empty it.                        *)
MutTruncate(d) ==
    /\ Moves(d, "truncate", "write")
    /\ offset' = [offset EXCEPT ![d] = Len(content)]
    /\ UNCHANGED <<content, holder, handler, hangups>>

-----------------------------------------------------------------------------
(* Daemonize.                                                              *)

SetSignal(d) ==
    /\ Moves(d, "start", "detach")
    /\ UNCHANGED <<content, holder, handler, offset, hangups>>

(* fork, setsid, fork, chdir, close of every descriptor, /dev/null, which  *)
(* nobody else sees, and the open of the file.                             *)
Open(d) ==
    /\ Moves(d, "detach", "lock")
    /\ UNCHANGED <<content, holder, handler, offset, hangups>>

IsLocked(d) == holder # None

LockFile(d) ==
    /\ ~IsLocked(d)
    /\ Moves(d, "lock", "truncate")
    /\ holder' = d
    /\ UNCHANGED <<content, handler, offset, hangups>>

AlreadyRunning(d) ==
    /\ IsLocked(d)
    /\ Moves(d, "lock", "running_already")
    /\ UNCHANGED <<content, holder, handler, offset, hangups>>

Truncate(d) ==
    /\ Moves(d, "truncate", "write")
    /\ content' = <<>>
    /\ UNCHANGED <<holder, handler, offset, hangups>>

Write(d) ==
    /\ Moves(d, "write", "run")
    /\ content' = Written(d)
    /\ offset' = [offset EXCEPT ![d] = @ + 1]
    /\ UNCHANGED <<holder, handler, hangups>>

(* UpdatePIDFile logs the failure and returns; the daemon runs.            *)
UpdateFails(d) ==
    /\ Faults
    /\ Moves(d, "truncate", "run") \/ Moves(d, "write", "run")
    /\ UNCHANGED <<content, holder, handler, offset, hangups>>

(* exit, or the end by a signal: the kernel releases the lock.             *)
Exit(d) ==
    /\ dpc[d] \notin Over
    /\ dpc' = [dpc EXCEPT ![d] = "exit"]
    /\ handler' = [handler EXCEPT ![d] = "none"]
    /\ offset' = [offset EXCEPT ![d] = 0]
    /\ holder' = IF holder = d THEN None ELSE holder
    /\ UNCHANGED <<content, hangups>>

-----------------------------------------------------------------------------
(* SIGHUP.                                                                 *)

(* Before signal() it ends the process; before PIDFileFD is set the        *)
(* handler does nothing.                                                   *)
Hangup(d) ==
    /\ hangups < MaxHangups /\ handler[d] = "none"
    /\ hangups' = hangups + 1
    /\ \/ /\ dpc[d] = "start"
          /\ dpc' = [dpc EXCEPT ![d] = "exit"]
          /\ UNCHANGED handler
       \/ /\ dpc[d] \in HasPIDFile
          /\ handler' = [handler EXCEPT ![d] = "truncate"]
          /\ UNCHANGED dpc
    /\ UNCHANGED <<content, holder, offset>>

HandlerTruncates(d) ==
    /\ handler[d] = "truncate"
    /\ handler' = [handler EXCEPT ![d] = "write"]
    /\ content' = <<>>
    /\ UNCHANGED <<holder, dpc, offset, hangups>>

HandlerWrites(d) ==
    /\ handler[d] = "write"
    /\ handler' = [handler EXCEPT ![d] = "none"]
    /\ content' = Written(d)
    /\ offset' = [offset EXCEPT ![d] = @ + 1]
    /\ UNCHANGED <<holder, dpc, hangups>>

HandlerFails(d) ==
    /\ Faults /\ handler[d] # "none"
    /\ handler' = [handler EXCEPT ![d] = "none"]
    /\ UNCHANGED <<content, holder, dpc, offset, hangups>>

-----------------------------------------------------------------------------
Daemonize(d) ==
    \/ SetSignal(d) \/ Open(d)
    \/ LockFile(d) \/ AlreadyRunning(d) \/ Truncate(d) \/ Write(d)
    \/ HandlerTruncates(d) \/ HandlerWrites(d)

PidNext ==
    \E d \in Daemons :
        Daemonize(d) \/ UpdateFails(d) \/ HandlerFails(d) \/ Hangup(d) \/ Exit(d)

PidSpec == PidInit /\ [][PidNext]_pidVars

-----------------------------------------------------------------------------
(* Properties.                                                             *)

PidTypeOK ==
    /\ content \in Seq(Daemons \cup {Nul})
    /\ holder \in Daemons \cup {None}
    /\ dpc \in [Daemons -> {"start", "detach", "lock"} \cup HasPIDFile \cup Over]
    /\ handler \in [Daemons -> {"none", "truncate", "write"}]
    /\ offset \in [Daemons -> Nat]
    /\ hangups \in 0 .. MaxHangups

(* "verify that daemon isn't already running" (Daemonizer.c:164): however  *)
(* daemons start, end and restart, at most one is past the lock.           *)
OneDaemon ==
    \A d, e \in Daemons : dpc[d] \in HasPIDFile /\ dpc[e] \in HasPIDFile => d = e

(* Until the first SIGHUP the file holds the pid of the daemon that runs,  *)
(* once it could write it, and nothing that its predecessors left there.   *)
PIDFileIsFresh ==
    \A d \in Daemons : dpc[d] = "run" /\ offset[d] # 0 /\ hangups = 0 => content = <<d>>

(* "SIGHUP Handler: updates PID File" (Daemonizer.c:72): whoever reads the *)
(* file as a string finds the pid of the daemon that runs, after SIGHUP,   *)
(* too.                                                                    *)
PIDFileNamesTheDaemon ==
    \A d \in Daemons :
        dpc[d] = "run" /\ handler[d] = "none" => content # <<>> /\ Head(content) = d

(* A daemon does not start (Daemonizer.c:58) only because another one is   *)
(* there at that moment: what a killed daemon leaves does not stop it.     *)
OnlyALiveDaemonBlocks ==
    [][\A d \in Daemons : dpc[d] = "lock" /\ dpc'[d] = "running_already" =>
        \E e \in Daemons \ {d} : dpc[e] \in HasPIDFile]_pidVars

(* Only the daemon that runs changes the file: not one that ends because   *)
(* it has no lock, in its handler or before.                               *)
OnlyTheHolderWrites ==
    [][content' # content => \E d \in Daemons : holder = d /\ dpc[d] \in HasPIDFile]_pidVars
=============================================================================
