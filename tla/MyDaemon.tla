------------------------------ MODULE MyDaemon ------------------------------
(***************************************************************************)
(* hw9-Daemon as its main function puts it together (MyDaemon.c, option    *)
(* -d): a process goes through Daemonize (PidFile) and then connects to    *)
(* the server and monitors the file (FileMonitor), until it ends, which    *)
(* closes its connection and releases the lock in one step.                *)
(***************************************************************************)
EXTENDS PidFile, FileMonitor

vars == <<pidVars, monitorVars>>

Init == PidInit /\ MonitorInit

-----------------------------------------------------------------------------
(* Mistakes that TLC must be able to see.                                  *)

(* Monitor the file without waiting for Daemonize.                         *)
MutMonitors(d) == handler[d] = "none"

-----------------------------------------------------------------------------
(* The main function has returned from Daemonize and no handler runs.      *)
Monitors(d) == dpc[d] = "run" /\ handler[d] = "none"

DaemonizeStep(d) == Daemonize(d) /\ UNCHANGED monitorVars

MonitorStep(d) ==
    /\ Monitors(d)
    /\ \/ ConnectToServer(d) \/ AddWatch(d)
       \/ ReadEvents(d) \/ Stat(d) \/ UndefinedEvent(d) \/ StatAgain(d) \/ Send(d)
    /\ UNCHANGED pidVars

MonitorExits(d) ==
    /\ Monitors(d)
    /\ ConnectFails(d) \/ AddWatchFails(d) \/ StatFails(d) \/ SendFails(d)
    /\ Exit(d)

(* The steps that a daemon takes on its own.                               *)
Process(d) == DaemonizeStep(d) \/ MonitorStep(d) \/ MonitorExits(d)

(* What may happen to it.                                                  *)
Fault(d) ==
    \/ (UpdateFails(d) \/ HandlerFails(d) \/ Hangup(d)) /\ UNCHANGED monitorVars
    \/ Monitors(d) /\ SendIsCut(d) /\ Exit(d)
    \/ DaemonFails(d) /\ Exit(d)

Others == (Modify \/ Delete \/ Create \/ \E s \in Servers : ServerFails(s)) /\ UNCHANGED pidVars

ServerStep(s) == Server(s) /\ UNCHANGED pidVars

Next ==
    \/ \E d \in Daemons : Process(d) \/ Fault(d)
    \/ \E s \in Servers : ServerStep(s)
    \/ Others

Spec == Init /\ [][Next]_vars

(* The scheduler runs every process that can take a step.                  *)
FairSpec ==
    /\ Spec
    /\ \A d \in Daemons : WF_vars(Process(d))
    /\ \A s \in Servers : WF_vars(ServerStep(s))

-----------------------------------------------------------------------------
(* Properties.                                                             *)

Connected(d) == pc[d] \notin {"connect"} \cup Ended

(* However daemons start, fail and restart, one at a time is connected and *)
(* reports: the lock is released only when the connection is closed.       *)
OneReporter == \A d, e \in Daemons : Connected(d) /\ Connected(e) => d = e

(* A daemon that runs is served: Server.c serves one client at a time, and *)
(* the lock lets a daemon connect only when the one before it has ended,   *)
(* whose connection the server leaves when it has printed what it sent.    *)
EveryoneIsServed ==
    \A s \in Servers, d \in Daemons :
        (\E i \in DOMAIN backlog[s] : backlog[s][i] = d)
            ~> wd[s] = d \/ spc[s] \in Down
=============================================================================
