----------------------------- MODULE HTTPServer -----------------------------
(***************************************************************************)
(* The HTTP server of hw13-HTTP-server: the main thread waits for kevents, *)
(* accepts connections and gives every readable connection to a worker     *)
(* thread, which reads one request, answers it and closes the connection.  *)
(* HTTPExchange composes it with the clients.                              *)
(*                                                                         *)
(* An action is one access to what other threads, the kernel or a client   *)
(* can see; what a worker computes on its own stack goes with the next one.*)
(* The kernel (kqueue, sockets, file descriptors, files) is modelled from  *)
(* the calls, with their BSD meaning: the code builds only there.          *)
(***************************************************************************)
EXTENDS Integers, Sequences, FiniteSets

CONSTANTS
    Clients,        \* one connection each
    Request,        \* Request[c]: the words of the request of c
    Kind,           \* Kind[n]: what the file of name n is when the server starts
    Size,           \* Size[n]: its length in chunks
    MAX_WORKERS,    \* worker slots
    MAX_EVENTS,     \* events that one kevent call returns
    NFds,           \* file descriptors the process may have for its clients and files
    SendBuffer      \* chunks that the send buffer of a socket holds

Names == DOMAIN Kind        \* the names that start with '/'
Kinds == {"regular", "private", "locked", "directory", "missing"}
Workers == 1 .. MAX_WORKERS
Fds == 1 .. NFds
sfd == 0                    \* the listening socket
NoFd == -1
NULL == "NULL"
Free == "free"
AFile == "file"

ASSUME KindAssumption == Kind \in [Names -> Kinds] /\ Size \in [Names -> Nat]
ASSUME ClientsAssumption == Clients \cap {Free, AFile, NULL} = {}
ASSUME RequestAssumption == \A c \in Clients : Request[c] \in Seq(STRING) /\ Len(Request[c]) \in 1 .. 3
ASSUME BoundsAssumption == {MAX_WORKERS, MAX_EVENTS, NFds, SendBuffer} \subseteq Nat \ {0}

VARIABLES
    \* the network
    queue,          \* connections the kernel holds for accept
    inbox,          \* how many words of its request can be read from c
    out,            \* what was sent to c and not received yet
    gone,           \* clients that have closed or reset their connection
    closed,         \* clients whose connection the server has closed
    \* the kernel
    disk,           \* disk[n]: the kind of file n now
    fds,            \* what each descriptor stands for
    watched,        \* client descriptors with an event registered (EV_ONESHOT)
    \* the main thread
    status,         \* "running", "exit" or "crashed"
    main_pc,
    events,         \* the events of the last kevent not yet handled
    main_fd,        \* event_fd, the argument of RunWorker
    main_i,         \* i in FindFreeWorker
    \* the workers
    worker_inited, worker_finished,
    pc, fd, file_fd,
    client,         \* ghost: the client that fd stood for when the worker started
    words,          \* words read by recv
    tokens,         \* results of strtok
    code,           \* status_code
    file_size,
    strtok_last     \* the static position of strtok: <<worker, client, next word>>

netVars == <<queue, inbox, out, gone, closed>>
kernelVars == <<disk, fds, watched>>
mainVars == <<main_pc, events, main_fd, main_i>>
slotVars == <<worker_inited, worker_finished>>
ownVars == <<fd, file_fd, client, words, tokens, code, file_size>>
serverVars == <<netVars, kernelVars, status, mainVars, slotVars, pc, ownVars, strtok_last>>

ServerInit ==
    /\ queue = <<>>
    /\ inbox = [c \in Clients |-> 0]
    /\ out = [c \in Clients |-> <<>>]
    /\ gone = {} /\ closed = {}
    /\ disk = Kind
    /\ fds = [f \in Fds |-> Free]
    /\ watched = {}
    /\ status = "running" /\ main_pc = "wait"
    /\ events = {} /\ main_fd = NoFd /\ main_i = 1
    /\ worker_inited = [w \in Workers |-> FALSE]
    /\ worker_finished = [w \in Workers |-> TRUE]
    /\ pc = [w \in Workers |-> "none"]
    /\ fd = [w \in Workers |-> NoFd]
    /\ file_fd = [w \in Workers |-> NoFd]
    /\ client = [w \in Workers |-> NULL]
    /\ words = [w \in Workers |-> 0]
    /\ tokens = [w \in Workers |-> <<>>]
    /\ code = [w \in Workers |-> 200]
    /\ file_size = [w \in Workers |-> 0]
    /\ strtok_last = <<>>

FreeFds == {f \in Fds : fds[f] = Free}
LowestFree == CHOOSE f \in FreeFds : \A g \in FreeFds : f <= g

(* exit() in the main thread, or a fault in any thread.                    *)
Die(how) ==
    /\ status' = how
    /\ UNCHANGED <<netVars, kernelVars, mainVars, slotVars, pc, ownVars, strtok_last>>

-----------------------------------------------------------------------------
(* Mistakes that TLC must be able to see.                                  *)

(* Register client events without EV_ONESHOT.                              *)
MutOneShot(ready) == {}

(* Reuse the slot of a finished worker without pthread_join.               *)
MutJoinWorker ==
    /\ status = "running" /\ main_pc = "join"
    /\ main_pc' = "start"
    /\ UNCHANGED <<netVars, kernelVars, status, events, main_fd, main_i, slotVars, pc, ownVars, strtok_last>>

(* Give up after one scan.                                                 *)
MutEndScan ==
    /\ status = "running" /\ main_pc = "find" /\ main_i = MAX_WORKERS + 1
    /\ main_pc' = "events" /\ main_fd' = NoFd /\ main_i' = 1
    /\ UNCHANGED <<netVars, kernelVars, status, events, slotVars, pc, ownVars, strtok_last>>

(* Close the connection after an error, and again at the end.              *)
MutSendError(w) ==
    /\ status = "running" /\ pc[w] = "error"
    /\ out' = [out EXCEPT ![client[w]] = Append(@, <<"status", code[w], 0>>)]
    /\ fds' = [fds EXCEPT ![fd[w]] = Free]
    /\ closed' = closed \cup {client[w]}
    /\ pc' = [pc EXCEPT ![w] = "close"]
    /\ UNCHANGED <<queue, inbox, gone, disk, watched, status, mainVars, slotVars, ownVars, strtok_last>>

(* Send the error of a failed open, and go on with the file.               *)
MutErrorReturns(w) ==
    /\ status = "running" /\ pc[w] = "error"
    /\ out' = [out EXCEPT ![client[w]] = Append(@, <<"status", code[w], 0>>)]
    /\ pc' = [pc EXCEPT ![w] = IF file_size[w] > 0 THEN "header" ELSE "close"]
    /\ UNCHANGED <<queue, inbox, gone, closed, kernelVars, status, mainVars, slotVars, ownVars, strtok_last>>

(* Leave the connection open when recv fails.                              *)
MutReceiveRequest(w) ==
    /\ status = "running" /\ pc[w] = "recv"
    /\ words' = [words EXCEPT ![w] = inbox[client[w]]]
    /\ inbox' = [inbox EXCEPT ![client[w]] = 0]
    /\ pc' = [pc EXCEPT ![w] = IF inbox[client[w]] > 0 THEN "parse" ELSE "flag"]
    /\ UNCHANGED <<queue, out, gone, closed, kernelVars, status, mainVars, slotVars,
                   fd, file_fd, client, tokens, code, file_size, strtok_last>>

-----------------------------------------------------------------------------
(* The main thread: RunServer.                                             *)

MainAt(place) == status = "running" /\ main_pc = place

Readable(f) == fds[f] \in Clients /\ (inbox[fds[f]] > 0 \/ fds[f] \in gone)

Ready == {[fd |-> f, eof |-> fds[f] \in gone] : f \in {g \in watched : Readable(g)}}
         \cup {[fd |-> sfd, eof |-> FALSE] : x \in {y \in {1} : queue # <<>>}}

(* The registrations that a delivery of these events uses up.              *)
OneShot(ready) == {e.fd : e \in ready}

(* kevent: it blocks until something is ready.                             *)
WaitForEvents ==
    /\ MainAt("wait") /\ Ready # {}
    /\ \E ready \in SUBSET Ready :
        /\ Cardinality(ready) = IF Cardinality(Ready) > MAX_EVENTS
                                THEN MAX_EVENTS ELSE Cardinality(Ready)
        /\ events' = ready
        /\ watched' = watched \ OneShot(ready)
    /\ main_pc' = "events"
    /\ UNCHANGED <<netVars, disk, fds, status, main_fd, main_i, slotVars, pc, ownVars, strtok_last>>

NoMoreEvents ==
    /\ MainAt("events") /\ events = {}
    /\ main_pc' = "wait"
    /\ UNCHANGED <<netVars, kernelVars, status, events, main_fd, main_i, slotVars, pc, ownVars, strtok_last>>

(* EV_EOF: the client has disconnected; what it had sent is dropped.       *)
Disconnected(e) ==
    /\ MainAt("events") /\ e.eof
    /\ fds' = [fds EXCEPT ![e.fd] = Free]
    /\ closed' = closed \cup ({fds[e.fd]} \cap Clients)
    /\ events' = events \ {e}
    /\ UNCHANGED <<queue, inbox, out, gone, disk, watched, status, main_pc, main_fd, main_i,
                   slotVars, pc, ownVars, strtok_last>>

(* accept fails when the client has left the queue again or no descriptor  *)
(* is left, and a failure ends the server.                                 *)
AcceptClient(e) ==
    /\ MainAt("events") /\ e.fd = sfd
    /\ queue # <<>> /\ FreeFds # {}
    /\ queue' = Tail(queue)
    /\ fds' = [fds EXCEPT ![LowestFree] = Head(queue)]
    /\ watched' = watched \cup {LowestFree}
    /\ events' = events \ {e}
    /\ UNCHANGED <<inbox, out, gone, closed, disk, status, main_pc, main_fd, main_i,
                   slotVars, pc, ownVars, strtok_last>>

AcceptFails(e) ==
    /\ MainAt("events") /\ e.fd = sfd
    /\ queue = <<>> \/ FreeFds = {}
    /\ Die("exit")

(* RunWorker is called with the descriptor of the event.                   *)
RunWorker(e) ==
    /\ MainAt("events") /\ e.fd # sfd /\ ~e.eof
    /\ events' = events \ {e}
    /\ main_pc' = "find" /\ main_fd' = e.fd /\ main_i' = 1
    /\ UNCHANGED <<netVars, kernelVars, status, slotVars, pc, ownVars, strtok_last>>

(* FindFreeWorker, one read of worker_finished at a time; RunWorker calls  *)
(* it until it finds one.                                                  *)
FindFreeWorker ==
    /\ MainAt("find") /\ main_i \in Workers
    /\ IF worker_finished[main_i]
       THEN /\ main_pc' = IF worker_inited[main_i] THEN "join" ELSE "start"
            /\ UNCHANGED main_i
       ELSE /\ main_i' = main_i + 1
            /\ UNCHANGED main_pc
    /\ UNCHANGED <<netVars, kernelVars, status, events, main_fd, slotVars, pc, ownVars, strtok_last>>

EndScan ==
    /\ MainAt("find") /\ main_i = MAX_WORKERS + 1
    /\ main_i' = 1
    /\ UNCHANGED <<netVars, kernelVars, status, main_pc, events, main_fd, slotVars, pc, ownVars, strtok_last>>

(* "It's possible that thread is almost gone but isn't finished yet".      *)
JoinWorker ==
    /\ MainAt("join") /\ pc[main_i] = "exited"
    /\ main_pc' = "start"
    /\ UNCHANGED <<netVars, kernelVars, status, events, main_fd, main_i, slotVars, pc, ownVars, strtok_last>>

StartWorker ==
    /\ MainAt("start")
    /\ worker_inited' = [worker_inited EXCEPT ![main_i] = TRUE]
    /\ worker_finished' = [worker_finished EXCEPT ![main_i] = FALSE]
    /\ pc' = [pc EXCEPT ![main_i] = "recv"]
    /\ fd' = [fd EXCEPT ![main_i] = main_fd]
    /\ client' = [client EXCEPT ![main_i] = fds[main_fd]]
    /\ tokens' = [tokens EXCEPT ![main_i] = <<>>]
    /\ code' = [code EXCEPT ![main_i] = 200]
    /\ file_size' = [file_size EXCEPT ![main_i] = 0]
    /\ main_pc' = "events" /\ main_fd' = NoFd /\ main_i' = 1
    /\ UNCHANGED <<netVars, kernelVars, status, events, file_fd, words, strtok_last>>

(* fcntl, kevent or pthread_create fails.                                  *)
MainFails ==
    /\ \/ MainAt("events") /\ \E e \in events : e.fd = sfd
       \/ MainAt("start")
       \/ MainAt("wait") /\ Ready # {}
    /\ Die("exit")

Main == \/ WaitForEvents \/ NoMoreEvents
        \/ \E e \in events :
               Disconnected(e) \/ AcceptClient(e) \/ AcceptFails(e) \/ RunWorker(e)
        \/ FindFreeWorker \/ EndScan \/ JoinWorker \/ StartWorker
        \/ MainFails

-----------------------------------------------------------------------------
(* A worker: ProcessConnection and ProcessRequest.  It reads and writes the*)
(* connection of client[w], for which fd[w] stands (NoStrangerServed).     *)

At(w, place) == status = "running" /\ pc[w] = place
Step(w, place) == pc' = [pc EXCEPT ![w] = place]

(* recv on the non-blocking socket takes what has arrived; with nothing    *)
(* there (an error, or 0 after a disconnection) the connection is closed.  *)
ReceiveRequest(w) ==
    /\ At(w, "recv")
    /\ words' = [words EXCEPT ![w] = inbox[client[w]]]
    /\ inbox' = [inbox EXCEPT ![client[w]] = 0]
    /\ Step(w, IF inbox[client[w]] > 0 THEN "parse" ELSE "close")
    /\ UNCHANGED <<queue, out, gone, closed, kernelVars, status, mainVars, slotVars,
                   fd, file_fd, client, tokens, code, file_size, strtok_last>>

(* The words that strtok returns.  The delimiters of the third call strip  *)
(* the end of the line from the last word; those of the others do not.     *)
Word(c, k, last_call) ==
    IF k = 3 /\ ~last_call THEN "HTTP/1.0 and newline" ELSE Request[c][k]

(* How many words there are in the buffer that strtok_last points into.    *)
Received(last) == IF words[last[1]] < Len(Request[last[2]])
                  THEN words[last[1]] ELSE Len(Request[last[2]])

(* The buffer that strtok_last points into is on the stack of a worker.    *)
Dangling(last) == pc[last[1]] \in {"none", "exited"} \/ client[last[1]] # last[2]

(* ParseRequest, one call of strtok at a time.  The first call of a worker *)
(* points strtok_last to its own buffer; the second and the third go on    *)
(* from wherever strtok_last points to.  Reading a buffer whose thread has *)
(* ended has no defined result: the old word, or a fault.                  *)
ParseRequest(w) ==
    /\ At(w, "parse") /\ Len(tokens[w]) < 3
    /\ LET call == Len(tokens[w]) + 1
           last == IF call = 1 THEN <<w, client[w], 1>> ELSE strtok_last
           more == last # <<>> /\ last[3] \in 1 .. Received(last)
       IN  /\ tokens' = [tokens EXCEPT ![w] =
                             Append(@, IF more THEN Word(last[2], last[3], call = 3) ELSE NULL)]
           /\ strtok_last' = IF more THEN <<last[1], last[2], last[3] + 1>> ELSE <<>>
    /\ UNCHANGED <<netVars, kernelVars, status, mainVars, slotVars, pc,
                   fd, file_fd, client, words, code, file_size>>

ParseFaults(w) ==
    /\ At(w, "parse") /\ Len(tokens[w]) \in 1 .. 2
    /\ strtok_last # <<>> /\ Dangling(strtok_last)
    /\ Die("crashed")

(* ParseRequest's result and VerifyRequest.                                *)
ValidRequest(req) ==
    /\ NULL \notin {req[k] : k \in 1 .. 3}
    /\ req[1] = "GET" /\ req[2] \in Names /\ req[3] = "HTTP/1.0"

(* VerifyFileRequest; the mode is tested for others' read permission.      *)
FileStatus(name) ==
    CASE disk[name] = "missing" -> 404
      [] disk[name] = "private" -> 403
      [] disk[name] = "directory" -> 400
      [] OTHER -> 200

VerifyRequest(w) ==
    /\ At(w, "parse") /\ Len(tokens[w]) = 3
    /\ LET result == IF ValidRequest(tokens[w]) THEN FileStatus(tokens[w][2]) ELSE 400
       IN  /\ code' = [code EXCEPT ![w] = result]
           /\ Step(w, IF result = 200 THEN "size" ELSE "error")
    /\ UNCHANGED <<netVars, kernelVars, status, mainVars, slotVars,
                   fd, file_fd, client, words, tokens, file_size, strtok_last>>

(* SendError: one send.  It fails, silently, when the client has gone.     *)
SendError(w) ==
    /\ At(w, "error")
    /\ \/ out' = [out EXCEPT ![client[w]] = Append(@, <<"status", code[w], 0>>)]
       \/ client[w] \in gone /\ UNCHANGED out
    /\ Step(w, "close")
    /\ UNCHANGED <<queue, inbox, gone, closed, kernelVars, status, mainVars, slotVars,
                   ownVars, strtok_last>>

(* SendFile: stat, open, the header, sendfile, close.                      *)
GetFileSize(w) ==
    /\ At(w, "size")
    /\ LET name == tokens[w][2]
       IN  IF disk[name] = "missing"
           THEN /\ code' = [code EXCEPT ![w] = 400]
                /\ Step(w, "error")
                /\ UNCHANGED file_size
           ELSE /\ file_size' = [file_size EXCEPT ![w] = Size[name]]
                /\ Step(w, "open")
                /\ UNCHANGED code
    /\ UNCHANGED <<netVars, kernelVars, status, mainVars, slotVars,
                   fd, file_fd, client, words, tokens, strtok_last>>

OpenFile(w) ==
    /\ At(w, "open")
    /\ IF disk[tokens[w][2]] \in {"missing", "locked"} \/ FreeFds = {}
       THEN /\ code' = [code EXCEPT ![w] = 400]
            /\ Step(w, "error")
            /\ UNCHANGED <<fds, file_fd>>
       ELSE /\ fds' = [fds EXCEPT ![LowestFree] = AFile]
            /\ file_fd' = [file_fd EXCEPT ![w] = LowestFree]
            /\ Step(w, "header")
            /\ UNCHANGED code
    /\ UNCHANGED <<netVars, disk, watched, status, mainVars, slotVars,
                   fd, client, words, tokens, file_size, strtok_last>>

SendHeader(w) ==
    /\ At(w, "header")
    /\ \/ /\ out' = [out EXCEPT ![client[w]] = Append(@, <<"status", 200, file_size[w]>>)]
          /\ Step(w, "body")
       \/ /\ client[w] \in gone
          /\ Step(w, "closefile")
          /\ UNCHANGED out
    /\ UNCHANGED <<queue, inbox, gone, closed, kernelVars, status, mainVars, slotVars,
                   ownVars, strtok_last>>

(* sendfile sends what the send buffer takes: all of the file or, with     *)
(* EAGAIN or a broken connection, a part of it, and SendFile returns either*)
(* way.  While it runs the client may empty the buffer.                    *)
SendFile(w) ==
    /\ At(w, "body")
    /\ LET size == file_size[w]
           room == SendBuffer - Len(out[client[w]])
           least == IF client[w] \in gone THEN 0
                    ELSE IF room < size THEN (IF room < 0 THEN 0 ELSE room) ELSE size
       IN  \E n \in least .. size :
               out' = [out EXCEPT ![client[w]] =
                           @ \o [k \in 1 .. n |-> <<"chunk", tokens[w][2], k>>]]
    /\ Step(w, "closefile")
    /\ UNCHANGED <<queue, inbox, gone, closed, kernelVars, status, mainVars, slotVars,
                   ownVars, strtok_last>>

CloseFile(w) ==
    /\ At(w, "closefile")
    /\ fds' = [fds EXCEPT ![file_fd[w]] = Free]
    /\ file_fd' = [file_fd EXCEPT ![w] = NoFd]
    /\ Step(w, "close")
    /\ UNCHANGED <<netVars, disk, watched, status, mainVars, slotVars,
                   fd, client, words, tokens, code, file_size, strtok_last>>

(* close of the connection, the cleanup handler, and the end of the thread.*)
CloseConnection(w) ==
    /\ At(w, "close")
    /\ fds' = [fds EXCEPT ![fd[w]] = Free]
    /\ closed' = closed \cup ({fds[fd[w]]} \cap Clients)
    /\ Step(w, "flag")
    /\ UNCHANGED <<queue, inbox, out, gone, disk, watched, status, mainVars, slotVars, ownVars, strtok_last>>

WorkerCleanup(w) ==
    /\ At(w, "flag")
    /\ worker_finished' = [worker_finished EXCEPT ![w] = TRUE]
    /\ Step(w, "leave")
    /\ UNCHANGED <<netVars, kernelVars, status, mainVars, worker_inited, ownVars, strtok_last>>

ExitThread(w) ==
    /\ At(w, "leave")
    /\ Step(w, "exited")
    /\ UNCHANGED <<netVars, kernelVars, status, mainVars, slotVars, ownVars, strtok_last>>

Worker(w) == \/ ReceiveRequest(w) \/ ParseRequest(w) \/ ParseFaults(w) \/ VerifyRequest(w)
             \/ SendError(w)
             \/ GetFileSize(w) \/ OpenFile(w) \/ SendHeader(w) \/ SendFile(w) \/ CloseFile(w)
             \/ CloseConnection(w) \/ WorkerCleanup(w) \/ ExitThread(w)

Server == Main \/ \E w \in Workers : Worker(w)
=============================================================================
