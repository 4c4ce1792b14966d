----------------------------- MODULE FileMonitor -----------------------------
(***************************************************************************)
(* The monitoring half of hw9-Daemon: daemons that watch a file with       *)
(* inotify (FileInfoMonitoring.c) and tell its size to a server over a     *)
(* UNIX stream socket (MyDaemon.c), and the servers that print what they   *)
(* are told (Server.c).  What a daemon does before, PidFile models, and    *)
(* MyDaemon both; here the daemons run at once, as without the option -d.  *)
(*                                                                         *)
(* An action is one system call and the computation that follows it.  The  *)
(* kernel is modelled from the calls: inotify merges an event with an      *)
(* equal one that ends the queue, and drops the watch (IN_IGNORED) of a    *)
(* file that is deleted; IN_DELETE is sent for a watched directory only.   *)
(***************************************************************************)
EXTENDS DaemonProcesses, SequencesExt

CONSTANTS
    Servers,            \* processes of Server.c, each of which starts once
    MaxSize,            \* bound: the largest size of the file
    MaxChanges,         \* bound: the number of changes of the file
    Growing,            \* TRUE: the file never gets shorter
    Removable,          \* TRUE: the file may be deleted and created again
    WORD,               \* sizeof(ssize_t)
    MAX_MSG_LENGTH,     \* the buffer of the server
    BACKLOG             \* the argument of listen

ASSUME SizeAssumption == MaxSize \in Nat /\ MaxChanges \in Nat
ASSUME WordAssumption == WORD \in Nat \ {0} /\ MAX_MSG_LENGTH \in Nat \ {0} /\ BACKLOG \in Nat
ASSUME SwitchAssumption == {Growing, Removable} \subseteq BOOLEAN

Sizes == 0 .. MaxSize
NoSize == -1            \* no file, nothing sent, nothing printed
Garbage == -2           \* the value of bytes of two messages

VARIABLES
    \* the file
    size, changes,
    deleted,            \* ghost: the file has been deleted
    \* the daemons
    pc,
    watching,           \* the daemons with a watch
    queue,              \* inotify events not read yet
    batch,              \* the events read into buffer and not handled yet
    last_file_size, new_file_size,
    message,            \* the size that is the argument of SendMessageToServer
    \* the sockets
    path,               \* the server bound to kSocketPath, if any
    backlog,            \* daemons that connected and were not accepted
    stream,             \* bytes sent by a daemon and not received
    \* the servers
    spc, wd,
    received,           \* the bytes received and not read yet
    view                \* the last size printed

fileVars == <<size, changes, deleted>>
eventVars == <<watching, queue>>
ownVars == <<batch, last_file_size, new_file_size, message>>
daemonVars == <<pc, eventVars, ownVars>>
socketVars == <<path, backlog, stream>>
serverVars == <<spc, wd, received, view>>
monitorVars == <<fileVars, daemonVars, socketVars, serverVars>>

MonitorInit ==
    /\ size = 0 /\ changes = 0 /\ deleted = FALSE
    /\ pc = [d \in Daemons |-> "connect"]
    /\ watching = {}
    /\ queue = [d \in Daemons |-> <<>>]
    /\ batch = [d \in Daemons |-> <<>>]
    /\ last_file_size = [d \in Daemons |-> NoSize]
    /\ new_file_size = [d \in Daemons |-> NoSize]
    /\ message = [d \in Daemons |-> NoSize]
    /\ path = None
    /\ backlog = [s \in Servers |-> <<>>]
    /\ stream = [d \in Daemons |-> <<>>]
    /\ spc = [s \in Servers |-> "unlink"]
    /\ wd = [s \in Servers |-> None]
    /\ received = [s \in Servers |-> <<>>]
    /\ view = [s \in Servers |-> NoSize]

Down == {"exit", "malformed"}
Ended == {"exit", "cut"}
Listening(s) == spc[s] \in {"accept", "recv", "print"}
(* The other end of the connection of d is open: s holds it for accept or  *)
(* serves it.                                                              *)
Serves(s, d) == Listening(s) /\ (wd[s] = d \/ \E i \in DOMAIN backlog[s] : backlog[s][i] = d)
HasServer(d) == \E s \in Servers : Serves(s, d)

(* The bytes of a size, and the size that WORD bytes stand for.            *)
Message(v) == [k \in 1 .. WORD |-> <<v, k>>]
Value(bytes) == IF bytes = Message(bytes[1][1]) THEN bytes[1][1] ELSE Garbage

-----------------------------------------------------------------------------
(* Mistakes that TLC must be able to see.                                  *)

(* Send a size only when it is the one sent last.                          *)
MutStat(d) ==
    /\ pc[d] = "event" /\ Head(batch[d]) = "IN_MODIFY" /\ size # NoSize
    /\ IF size = last_file_size[d]
       THEN /\ new_file_size' = [new_file_size EXCEPT ![d] = size]
            /\ pc' = [pc EXCEPT ![d] = "stat2"]
            /\ UNCHANGED batch
       ELSE /\ batch' = [batch EXCEPT ![d] = Tail(@)]
            /\ pc' = [pc EXCEPT ![d] = IF batch'[d] = <<>> THEN "read" ELSE "event"]
            /\ UNCHANGED new_file_size
    /\ UNCHANGED <<fileVars, eventVars, last_file_size, message, socketVars, serverVars>>

(* Receive one byte less than the buffer holds.                            *)
MutReceived(bytes) == SubSeq(bytes, 1, IF Len(bytes) < MAX_MSG_LENGTH THEN Len(bytes) ELSE MAX_MSG_LENGTH - 1)

(* Read one message of what recv returned and forget the rest.             *)
MutPrintSize(s) ==
    /\ spc[s] = "print" /\ Len(received[s]) >= WORD
    /\ view' = [view EXCEPT ![s] = received[s][1][1]]
    /\ received' = [received EXCEPT ![s] = <<>>]
    /\ spc' = [spc EXCEPT ![s] = "recv"]
    /\ UNCHANGED <<fileVars, daemonVars, socketVars, wd>>

(* Call recv again when the client has closed the connection.              *)
MutRecvEnd(s) ==
    /\ spc[s] = "recv" /\ stream[wd[s]] = <<>> /\ pc[wd[s]] \in Ended
    /\ UNCHANGED monitorVars

-----------------------------------------------------------------------------
(* The file, which other programs change.                                  *)

(* Queue event e at every daemon that watches the file.                    *)
Notify(e) ==
    queue' = [d \in Daemons |->
        IF d \notin watching \/ (queue[d] # <<>> /\ Last(queue[d]) = e) THEN queue[d] ELSE Append(queue[d], e)]

Change(s) ==
    /\ changes < MaxChanges
    /\ changes' = changes + 1
    /\ size' = s
    /\ deleted' = (deleted \/ s = NoSize)
    /\ UNCHANGED <<pc, ownVars, socketVars, serverVars>>

Modify ==
    /\ size # NoSize
    /\ \E s \in Sizes : (Growing => s >= size) /\ Change(s)
    /\ Notify("IN_MODIFY")
    /\ UNCHANGED watching

Delete ==
    /\ Removable /\ size # NoSize
    /\ Change(NoSize)
    /\ Notify("IN_IGNORED")
    /\ watching' = {}

Create ==
    /\ size = NoSize
    /\ \E s \in Sizes : Change(s)
    /\ UNCHANGED <<watching, queue>>

-----------------------------------------------------------------------------
(* A daemon.                                                               *)

(* exit, or the end by a signal: the kernel closes the connection and the  *)
(* inotify descriptor, and the memory is gone.                             *)
End(d, how) ==
    /\ pc' = [pc EXCEPT ![d] = how]
    /\ watching' = watching \ {d}
    /\ queue' = [queue EXCEPT ![d] = <<>>]
    /\ batch' = [batch EXCEPT ![d] = <<>>]
    /\ last_file_size' = [last_file_size EXCEPT ![d] = NoSize]
    /\ new_file_size' = [new_file_size EXCEPT ![d] = NoSize]
    /\ message' = [message EXCEPT ![d] = NoSize]

ConnectToServer(d) ==
    /\ pc[d] = "connect"
    /\ path # None /\ Listening(path) /\ Len(backlog[path]) <= BACKLOG
    /\ backlog' = [backlog EXCEPT ![path] = Append(@, d)]
    /\ pc' = [pc EXCEPT ![d] = "watch"]
    /\ UNCHANGED <<fileVars, eventVars, ownVars, path, stream, serverVars>>

ConnectFails(d) ==
    /\ pc[d] = "connect"
    /\ path \notin {s \in Servers : Listening(s)}
    /\ End(d, "exit")
    /\ UNCHANGED <<fileVars, socketVars, serverVars>>

AddWatch(d) ==
    /\ pc[d] = "watch" /\ size # NoSize
    /\ watching' = watching \cup {d}
    /\ pc' = [pc EXCEPT ![d] = "read"]
    /\ UNCHANGED <<fileVars, queue, ownVars, socketVars, serverVars>>

AddWatchFails(d) ==
    /\ pc[d] = "watch" /\ size = NoSize
    /\ End(d, "exit")
    /\ UNCHANGED <<fileVars, socketVars, serverVars>>

ReadEvents(d) ==
    /\ pc[d] = "read" /\ queue[d] # <<>>
    /\ batch' = [batch EXCEPT ![d] = queue[d]]
    /\ queue' = [queue EXCEPT ![d] = <<>>]
    /\ pc' = [pc EXCEPT ![d] = "event"]
    /\ UNCHANGED <<fileVars, watching, last_file_size, new_file_size, message, socketVars, serverVars>>

(* pos moves past the first event of the buffer.                           *)
NextEvent(d) == batch' = [batch EXCEPT ![d] = Tail(@)]
AfterEvent(d) == pc' = [pc EXCEPT ![d] = IF batch'[d] = <<>> THEN "read" ELSE "event"]

Stat(d) ==
    /\ pc[d] = "event" /\ Head(batch[d]) = "IN_MODIFY" /\ size # NoSize
    /\ IF size # last_file_size[d]
       THEN /\ new_file_size' = [new_file_size EXCEPT ![d] = size]
            /\ pc' = [pc EXCEPT ![d] = "stat2"]
            /\ UNCHANGED batch
       ELSE /\ NextEvent(d) /\ AfterEvent(d)
            /\ UNCHANGED new_file_size
    /\ UNCHANGED <<fileVars, eventVars, last_file_size, message, socketVars, serverVars>>

UndefinedEvent(d) ==
    /\ pc[d] = "event" /\ Head(batch[d]) # "IN_MODIFY"
    /\ NextEvent(d) /\ AfterEvent(d)
    /\ UNCHANGED <<fileVars, eventVars, last_file_size, new_file_size, message, socketVars, serverVars>>

StatAgain(d) ==
    /\ pc[d] = "stat2" /\ size # NoSize
    /\ message' = [message EXCEPT ![d] = size]
    /\ pc' = [pc EXCEPT ![d] = "send"]
    /\ UNCHANGED <<fileVars, eventVars, batch, last_file_size, new_file_size, socketVars, serverVars>>

StatFails(d) ==
    /\ size = NoSize
    /\ \/ pc[d] = "event" /\ Head(batch[d]) = "IN_MODIFY"
       \/ pc[d] = "stat2"
    /\ End(d, "exit")
    /\ UNCHANGED <<fileVars, socketVars, serverVars>>

Send(d) ==
    /\ pc[d] = "send" /\ HasServer(d)
    /\ stream' = [stream EXCEPT ![d] = @ \o Message(message[d])]
    /\ last_file_size' = [last_file_size EXCEPT ![d] = new_file_size[d]]
    /\ new_file_size' = [new_file_size EXCEPT ![d] = NoSize]
    /\ message' = [message EXCEPT ![d] = NoSize]
    /\ NextEvent(d) /\ AfterEvent(d)
    /\ UNCHANGED <<fileVars, eventVars, path, backlog, serverVars>>

(* bytes_sent != length.                                                   *)
SendIsCut(d) ==
    /\ Faults /\ pc[d] = "send" /\ HasServer(d)
    /\ \E k \in 1 .. WORD - 1 : stream' = [stream EXCEPT ![d] = @ \o SubSeq(Message(message[d]), 1, k)]
    /\ End(d, "cut")
    /\ UNCHANGED <<fileVars, path, backlog, serverVars>>

(* SIGPIPE: nobody serves the connection any more.                         *)
SendFails(d) ==
    /\ pc[d] = "send" /\ ~HasServer(d)
    /\ End(d, "exit")
    /\ UNCHANGED <<fileVars, socketVars, serverVars>>

(* A read or a send fails, or the daemon is killed.                        *)
DaemonFails(d) ==
    /\ Faults /\ pc[d] \notin Ended
    /\ End(d, "exit")
    /\ UNCHANGED <<fileVars, socketVars, serverVars>>

Daemon(d) ==
    \/ ConnectToServer(d) \/ ConnectFails(d)
    \/ AddWatch(d) \/ AddWatchFails(d)
    \/ ReadEvents(d) \/ Stat(d) \/ UndefinedEvent(d) \/ StatAgain(d) \/ StatFails(d)
    \/ Send(d) \/ SendFails(d)

-----------------------------------------------------------------------------
(* A server.                                                               *)

(* The process ends: its connections are closed, its memory is gone.       *)
EndServer(s, how) ==
    /\ spc' = [spc EXCEPT ![s] = how]
    /\ wd' = [wd EXCEPT ![s] = None]
    /\ received' = [received EXCEPT ![s] = <<>>]
    /\ backlog' = [backlog EXCEPT ![s] = <<>>]
    /\ stream' = [d \in Daemons |-> IF Serves(s, d) THEN <<>> ELSE stream[d]]
    /\ UNCHANGED <<path, view>>

Unlink(s) ==
    /\ spc[s] = "unlink"
    /\ path' = None
    /\ spc' = [spc EXCEPT ![s] = "bind"]
    /\ UNCHANGED <<fileVars, daemonVars, backlog, stream, wd, received, view>>

Bind(s) ==
    /\ spc[s] = "bind" /\ path = None
    /\ path' = s
    /\ spc' = [spc EXCEPT ![s] = "listen"]
    /\ UNCHANGED <<fileVars, daemonVars, backlog, stream, wd, received, view>>

BindFails(s) ==
    /\ spc[s] = "bind"
    /\ path # None \/ Faults
    /\ EndServer(s, "exit")
    /\ UNCHANGED <<fileVars, daemonVars>>

Listen(s) ==
    /\ spc[s] = "listen"
    /\ spc' = [spc EXCEPT ![s] = "accept"]
    /\ UNCHANGED <<fileVars, daemonVars, socketVars, wd, received, view>>

Accept(s) ==
    /\ spc[s] = "accept" /\ backlog[s] # <<>>
    /\ wd' = [wd EXCEPT ![s] = Head(backlog[s])]
    /\ backlog' = [backlog EXCEPT ![s] = Tail(@)]
    /\ spc' = [spc EXCEPT ![s] = "recv"]
    /\ UNCHANGED <<fileVars, daemonVars, path, stream, received, view>>

(* recv returns what is there, and not more than the buffer holds.         *)
Received(bytes) == SubSeq(bytes, 1, IF Len(bytes) < MAX_MSG_LENGTH THEN Len(bytes) ELSE MAX_MSG_LENGTH)

Recv(s) ==
    /\ spc[s] = "recv" /\ stream[wd[s]] # <<>>
    /\ LET bytes == Received(stream[wd[s]]) IN
       /\ received' = [received EXCEPT ![s] = bytes]
       /\ stream' = [stream EXCEPT ![wd[s]] = SubSeq(@, Len(bytes) + 1, Len(@))]
    /\ spc' = [spc EXCEPT ![s] = "print"]
    /\ UNCHANGED <<fileVars, daemonVars, path, backlog, wd, view>>

(* bytes_received == 0                                                     *)
RecvEnd(s) ==
    /\ spc[s] = "recv" /\ stream[wd[s]] = <<>> /\ pc[wd[s]] \in Ended
    /\ spc' = [spc EXCEPT ![s] = "accept"]
    /\ wd' = [wd EXCEPT ![s] = None]
    /\ UNCHANGED <<fileVars, daemonVars, socketVars, received, view>>

(* bytes_read moves past one message.                                      *)
PrintSize(s) ==
    /\ spc[s] = "print" /\ Len(received[s]) >= WORD
    /\ view' = [view EXCEPT ![s] = Value(SubSeq(received[s], 1, WORD))]
    /\ received' = [received EXCEPT ![s] = SubSeq(@, WORD + 1, Len(@))]
    /\ spc' = [spc EXCEPT ![s] = IF received'[s] = <<>> THEN "recv" ELSE "print"]
    /\ UNCHANGED <<fileVars, daemonVars, socketVars, wd>>

IncorrectFormat(s) ==
    /\ spc[s] = "print" /\ Len(received[s]) < WORD
    /\ EndServer(s, "malformed")
    /\ UNCHANGED <<fileVars, daemonVars>>

(* The server is killed, or a call of its own fails.                       *)
ServerFails(s) ==
    /\ Faults /\ spc[s] \notin Down
    /\ EndServer(s, "exit")
    /\ UNCHANGED <<fileVars, daemonVars>>

Server(s) ==
    \/ Unlink(s) \/ Bind(s) \/ BindFails(s) \/ Listen(s)
    \/ Accept(s) \/ Recv(s) \/ RecvEnd(s) \/ PrintSize(s) \/ IncorrectFormat(s)

-----------------------------------------------------------------------------
(* Properties.                                                             *)

(* The server finds the messages in the stream of bytes: it never prints a *)
(* size made of two messages, and it ends with "incorrect format"          *)
(* (Server.c:73) only when a daemon sent part of a message.                *)
Framing ==
    \A s \in Servers :
        /\ view[s] # Garbage
        /\ spc[s] = "malformed" => \E d \in Daemons : pc[d] = "cut"

(* The sizes on their way from d to s: printed, received, sent, read.      *)
OnTheWay(s, d) ==
    LET bytes == received[s] \o stream[d] IN
    <<view[s]>> \o [i \in DOMAIN bytes |-> bytes[i][1]]
        \o (IF pc[d] = "send" THEN <<message[d]>> ELSE <<>>) \o <<size>>

(* While the file only grows, a server prints its sizes in the order in    *)
(* which the file had them, and never one that it did not have yet.  That  *)
(* holds across daemons, too, since only one of them runs at a time: of    *)
(* two that run, the second would send sizes that wait for the first.      *)
InOrder ==
    \A s \in Servers, d \in Daemons : wd[s] = d /\ ~deleted =>
        LET way == OnTheWay(s, d) IN \A i \in 1 .. Len(way) - 1 : way[i] <= way[i + 1]

(* d waits for events, and all it sent has been printed.                   *)
Quiet(s, d) ==
    /\ wd[s] = d /\ stream[d] = <<>> /\ received[s] = <<>>
    /\ pc[d] = "read" /\ d \in watching /\ queue[d] = <<>>

(* When nothing is on its way, the last size that the server printed is    *)
(* the size of the file: GetFileSize is called twice for one event         *)
(* (FileInfoMonitoring.c:84, :87) and the change between the calls must    *)
(* not be lost.                                                            *)
ServerKnowsTheSize ==
    \A s \in Servers, d \in Daemons :
        Quiet(s, d) /\ last_file_size[d] # NoSize => view[s] = size

(* A change of the file that a served daemon is notified of is printed,    *)
(* unless one of the two processes ends or the file is deleted, which the  *)
(* daemon does not notice (it asks for IN_DELETE and gets IN_IGNORED).     *)
ChangesArePrinted ==
    \A s \in Servers, d \in Daemons :
        wd[s] = d /\ queue[d] # <<>> ~> (wd[s] = d /\ view[s] = size) \/ d \notin watching \/ spc[s] \in Down
=============================================================================
