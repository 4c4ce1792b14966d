----------------------------- MODULE HTTPProofs -----------------------------
(***************************************************************************)
(* Proofs about HTTPExchange, for any number of clients, workers, events   *)
(* and descriptors.                                                        *)
(***************************************************************************)
EXTENDS HTTPExchange, DataLemmas

Sending == {"header", "body", "closefile"}      \* where a worker has an open file
ClientPlaces == {"start", "send", "header", "body", "saved", "failed", "crashed", "aborted"}

(* The types of everything that decides who owns a descriptor.             *)
PoolTypeOK ==
    /\ queue \in Seq(Clients) /\ cpc \in [Clients -> ClientPlaces]
    /\ fds \in [Fds -> Clients \cup {Free, AFile}]
    /\ watched \subseteq Fds
    /\ events \subseteq [fd : Fds \cup {sfd}, eof : BOOLEAN]
    /\ main_pc \in {"wait", "events", "find", "join", "start"}
    /\ main_fd \in Fds \cup {NoFd} /\ main_i \in 1 .. MAX_WORKERS + 1
    /\ worker_inited \in [Workers -> BOOLEAN] /\ worker_finished \in [Workers -> BOOLEAN]
    /\ pc \in [Workers -> Connected \cup {"none", "flag", "leave", "exited"}]
    /\ fd \in [Workers -> Fds \cup {NoFd}] /\ file_fd \in [Workers -> Fds \cup {NoFd}]
    /\ client \in [Workers -> Clients \cup {NULL}]

(* The main thread: it holds a descriptor from RunWorker until the worker  *)
(* has it, and a batch of events is handled whole before the next kevent.  *)
MainInv ==
    /\ main_fd \in Fds <=> main_pc \in {"find", "join", "start"}
    /\ main_pc = "wait" => events = {}
    /\ \A e \in events : e.fd = sfd => ~e.eof
    /\ \A d, e \in events : d.fd = e.fd => d = e

(* A slot: what worker_inited and worker_finished say of its thread, also  *)
(* while FindFreeWorker has chosen the slot and not yet filled it.         *)
SlotInv ==
    /\ \A w \in Workers :
        /\ ~worker_inited[w] => worker_finished[w] /\ pc[w] = "none"
        /\ worker_inited[w] /\ worker_finished[w] => pc[w] \in {"leave", "exited"}
        /\ worker_inited[w] /\ ~worker_finished[w] => pc[w] \in Connected \cup {"flag"}
    /\ main_pc = "join" => main_i \in Workers /\ pc[main_i] \in {"leave", "exited"}
    /\ main_pc = "start" => main_i \in Workers /\ pc[main_i] \in {"none", "exited"}

(* A worker's descriptors are those it opened or was given.                *)
ServeInv ==
    /\ \A w \in Workers : pc[w] \in Connected =>
        /\ fd[w] \in Fds /\ client[w] \in Clients
        /\ fds[fd[w]] = client[w]
    /\ \A w \in Workers : pc[w] \in Sending => file_fd[w] \in Fds /\ fds[file_fd[w]] = AFile
    /\ \A v, w \in Workers : pc[v] \in Sending /\ pc[w] \in Sending /\ file_fd[v] = file_fd[w] => v = w

(* Who owns the descriptor f.                                              *)
InKqueue(f) == f \in watched
InBatch(f) == \E e \in events : e.fd = f
InMain(f) == f = main_fd
InWorker(f) == \E w \in Workers : pc[w] \in Connected /\ fd[w] = f

(* An owned descriptor stands for a client and the owners exclude each     *)
(* other; the descriptor of a client is owned.                             *)
OwnerInv ==
    /\ \A f \in Fds :
        /\ fds[f] \in Clients <=> InKqueue(f) \/ InBatch(f) \/ InMain(f) \/ InWorker(f)
        /\ InKqueue(f) => ~InBatch(f) /\ ~InMain(f) /\ ~InWorker(f)
        /\ InBatch(f) => ~InMain(f) /\ ~InWorker(f)
        /\ InMain(f) => ~InWorker(f)
    /\ \A v, w \in Workers : pc[v] \in Connected /\ pc[w] \in Connected /\ fd[v] = fd[w] => v = w

(* A client has one connection: in the queue or under one descriptor.      *)
ConnectionInv ==
    /\ \A f, g \in Fds : fds[f] \in Clients /\ fds[f] = fds[g] => f = g
    /\ \A i, j \in DOMAIN queue : queue[i] = queue[j] => i = j
    /\ \A i \in DOMAIN queue : cpc[queue[i]] # "start" /\ \A f \in Fds : fds[f] # queue[i]
    /\ \A f \in Fds : fds[f] \in Clients => cpc[fds[f]] # "start"

PoolInv == MainInv /\ SlotInv /\ ServeInv /\ OwnerInv /\ ConnectionInv

-----------------------------------------------------------------------------
(* The steps, as far as they concern these variables.                      *)

poolVars == <<queue, cpc, fds, watched, mainVars, slotVars, pc, fd, file_fd, client>>

(* A worker goes on with its request and keeps what it has open.           *)
Proceed(w) ==
    /\ pc[w] \in Connected
    /\ \E place \in Connected : /\ place \in Sending <=> pc[w] \in Sending
                                /\ Step(w, place)
    /\ UNCHANGED <<queue, cpc, fds, watched, mainVars, slotVars, fd, file_fd, client>>

WorkerStep(w) == \/ Proceed(w)
                 \/ UNCHANGED cpc /\ \/ OpenFile(w) \/ CloseFile(w) \/ CloseConnection(w)
                                     \/ WorkerCleanup(w) \/ ExitThread(w)

(* A client that has connected goes on, or is killed.                      *)
ClientMoves(c) ==
    /\ cpc[c] # "start"
    /\ \E place \in ClientPlaces \ {"start"} : cpc' = [cpc EXCEPT ![c] = place]
    /\ \/ UNCHANGED queue
       \/ \E i \in DOMAIN queue : queue[i] = c /\ queue' = RemoveAt(queue, i)
    /\ UNCHANGED <<fds, watched, mainVars, slotVars, pc, fd, file_fd, client>>

MainStep == /\ UNCHANGED cpc
            /\ \/ WaitForEvents \/ NoMoreEvents
               \/ \E e \in events : Disconnected(e) \/ AcceptClient(e) \/ RunWorker(e)
               \/ FindFreeWorker \/ EndScan \/ JoinWorker \/ StartWorker

(* A client that has connected moves on, or only the network does.         *)
LEMMA ClientStepMoves ==
    ASSUME NEW c \in Clients, SendRequest(c) \/ DeliverRest(c) \/ Client(c) \/ Abort(c)
    PROVE  UNCHANGED poolVars \/ ClientMoves(c)
<1> USE DEF poolVars, netVars, kernelVars, mainVars, slotVars, ownVars, serverVars, clientVars
<1> USE DEF ServerUnchanged, ClientMoves, ClientPlaces, Finish
<1>1. CASE SendRequest(c) \/ DeliverRest(c)
  BY <1>1 DEF SendRequest, DeliverRest
<1>2. CASE ReceiveStatus(c)
  BY <1>2 DEF ReceiveStatus
<1>3. CASE NoStatus(c) \/ ReceiveFile(c)
  BY <1>3 DEF NoStatus, ReceiveFile
<1>4. CASE EndOfFile(c)
  <2>1. \E place \in {"saved", "failed"} : cpc' = [cpc EXCEPT ![c] = place]
    BY <1>4 DEF EndOfFile
  <2>2. QED
    BY <1>4, <2>1 DEF EndOfFile
<1>5. CASE Abort(c)
  BY <1>5 DEF Abort
<1>6. QED
  BY <1>1, <1>2, <1>3, <1>4, <1>5 DEF Client

(* Every step is one of these, or leaves these variables as they are.      *)
LEMMA Steps ==
    ASSUME [Next]_vars
    PROVE  \/ UNCHANGED poolVars
           \/ MainStep
           \/ \E w \in Workers : WorkerStep(w)
           \/ \E c \in Clients : ConnectToServer(c) \/ ClientMoves(c)
<1> USE DEF poolVars, netVars, kernelVars, mainVars, slotVars, ownVars, serverVars, clientVars
<1>1. CASE UNCHANGED vars
  BY <1>1 DEF vars
<1>2. ASSUME Main, UNCHANGED clientVars
      PROVE  UNCHANGED poolVars \/ MainStep
  BY <1>2 DEF Main, MainStep, AcceptFails, MainFails, Die
<1>3. ASSUME NEW w \in Workers, Worker(w), UNCHANGED clientVars
      PROVE  UNCHANGED poolVars \/ WorkerStep(w)
  <2> USE DEF WorkerStep, Proceed, Connected, Sending, At
  <2>1. CASE ReceiveRequest(w)
    <3>1. \E place \in {"parse", "close"} : Step(w, place)
      BY <2>1 DEF ReceiveRequest
    <3>2. QED
      BY <1>3, <2>1, <3>1 DEF ReceiveRequest
  <2>2. CASE ParseRequest(w) \/ ParseFaults(w)
    BY <1>3, <2>2 DEF ParseRequest, ParseFaults, Die
  <2>3. CASE VerifyRequest(w)
    <3>1. \E place \in {"size", "error"} : Step(w, place)
      BY <2>3 DEF VerifyRequest
    <3>2. QED
      BY <1>3, <2>3, <3>1 DEF VerifyRequest
  <2>4. CASE SendError(w)
    BY <1>3, <2>4 DEF SendError
  <2>5. CASE GetFileSize(w)
    <3>1. \E place \in {"open", "error"} : Step(w, place)
      BY <2>5 DEF GetFileSize
    <3>2. QED
      BY <1>3, <2>5, <3>1 DEF GetFileSize
  <2>6. CASE SendHeader(w)
    BY <1>3, <2>6 DEF SendHeader
  <2>7. CASE SendFile(w)
    BY <1>3, <2>7 DEF SendFile
  <2>8. QED
    BY <1>3, <2>1, <2>2, <2>3, <2>4, <2>5, <2>6, <2>7 DEF Worker
<1>4. ASSUME NEW c \in Clients, SendRequest(c) \/ DeliverRest(c) \/ Client(c) \/ Abort(c)
      PROVE  UNCHANGED poolVars \/ ClientMoves(c)
  BY <1>4, ClientStepMoves
<1>5. ASSUME NEW n \in Names, RemoveFile(n)
      PROVE  UNCHANGED poolVars
  BY <1>5 DEF RemoveFile
<1>6. QED
  BY <1>1, <1>2, <1>3, <1>4, <1>5 DEF Next, Server, Ended

-----------------------------------------------------------------------------
(* The types.                                                              *)

(* The kernel can always choose the lowest free descriptor.                *)
LEMMA LowestFreeIsFree ==
    ASSUME FreeFds # {}
    PROVE  LowestFree \in Fds /\ fds[LowestFree] = Free
<1>1. FreeFds \subseteq Nat /\ FreeFds \subseteq Fds
  BY BoundsAssumption DEF FreeFds, Fds
<1>2. \E f \in FreeFds : \A g \in FreeFds : f <= g
  BY <1>1, LeastNumber
<1>3. LowestFree \in FreeFds
  BY <1>2 DEF LowestFree
<1>4. QED
  BY <1>1, <1>3 DEF FreeFds

(* What kevent can return.                                                 *)
LEMMA ReadyType ==
    ASSUME watched \subseteq Fds
    PROVE  Ready \subseteq [fd : Fds \cup {sfd}, eof : BOOLEAN]
<1>1. \A f \in watched : [fd |-> f, eof |-> fds[f] \in gone] \in [fd : Fds \cup {sfd}, eof : BOOLEAN]
  OBVIOUS
<1>2. [fd |-> sfd, eof |-> FALSE] \in [fd : Fds \cup {sfd}, eof : BOOLEAN]
  OBVIOUS
<1>3. QED
  BY <1>1, <1>2 DEF Ready

(* A client is appended to a queue of clients.                             *)
LEMMA QueueType ==
    ASSUME queue \in Seq(Clients), NEW c \in Clients
    PROVE  Append(queue, c) \in Seq(Clients)
BY AppendProperties

(* No step breaks the types.                                               *)
LEMMA TypeStep ==
    ASSUME PoolTypeOK, MainInv, OwnerInv, [Next]_vars
    PROVE  PoolTypeOK'
<1> USE BoundsAssumption DEF PoolTypeOK, Workers
<1>1. CASE UNCHANGED poolVars
  BY <1>1 DEF poolVars, mainVars, slotVars
<1> USE DEF netVars, kernelVars, mainVars, slotVars, ownVars
<1>2. CASE MainStep
  <2>1. CASE WaitForEvents
    <3>1. PICK ready \in SUBSET Ready : events' = ready /\ watched' = watched \ OneShot(ready)
      BY <2>1 DEF WaitForEvents
    <3>2. Ready \subseteq [fd : Fds \cup {sfd}, eof : BOOLEAN]
      BY ReadyType
    <3>3. main_pc' = "events" /\ UNCHANGED <<queue, fds, main_fd, main_i, slotVars, pc, fd, file_fd, client>>
      BY <2>1 DEF WaitForEvents
    <3>4. events' \subseteq [fd : Fds \cup {sfd}, eof : BOOLEAN] /\ watched' \subseteq Fds
      BY <3>1, <3>2
    <3>5. QED
      BY <1>2, <3>3, <3>4 DEF MainStep
  <2>2. ASSUME NEW e \in events, Disconnected(e)
        PROVE  PoolTypeOK'
    BY <1>2, <2>2 DEF MainStep, Disconnected
  <2>3. ASSUME NEW e \in events, AcceptClient(e)
        PROVE  PoolTypeOK'
    <3>1. LowestFree \in Fds
      BY <2>3, LowestFreeIsFree DEF AcceptClient
    <3>2. Head(queue) \in Clients /\ Tail(queue) \in Seq(Clients)
      BY <2>3 DEF AcceptClient
    <3>3. QED
      BY <1>2, <2>3, <3>1, <3>2 DEF MainStep, AcceptClient
  <2>4. ASSUME NEW e \in events, RunWorker(e)
        PROVE  PoolTypeOK'
    BY <1>2, <2>4 DEF MainStep, RunWorker
  <2>5. CASE NoMoreEvents \/ FindFreeWorker \/ EndScan \/ JoinWorker
    BY <1>2, <2>5 DEF MainStep, NoMoreEvents, FindFreeWorker, EndScan, JoinWorker
  <2>6. CASE StartWorker
    <3>1. main_fd \in Fds /\ fds[main_fd] \in Clients
      BY <2>6 DEF StartWorker, MainAt, MainInv, OwnerInv, InMain
    <3>2. pc' \in [Workers -> Connected \cup {"none", "flag", "leave", "exited"}]
      BY <2>6 DEF StartWorker, Connected
    <3>3. fd' \in [Workers -> Fds \cup {NoFd}] /\ client' \in [Workers -> Clients \cup {NULL}]
      BY <2>6, <3>1 DEF StartWorker
    <3>4. QED
      BY <1>2, <2>6, <3>2, <3>3 DEF MainStep, StartWorker
  <2>7. QED
    BY <1>2, <2>1, <2>2, <2>3, <2>4, <2>5, <2>6 DEF MainStep
<1>3. ASSUME NEW w \in Workers, WorkerStep(w)
      PROVE  PoolTypeOK'
  <2> USE DEF Step
  <2>1. CASE Proceed(w)
    BY <2>1 DEF Proceed, Connected
  <2>2. CASE UNCHANGED cpc /\ OpenFile(w)
    <3>1. CASE UNCHANGED <<fds, file_fd>>
      BY <2>2, <3>1 DEF OpenFile, Connected
    <3>2. CASE ~UNCHANGED <<fds, file_fd>>
      <4>1. LowestFree \in Fds
        BY <2>2, <3>2, LowestFreeIsFree DEF OpenFile
      <4>2. QED
        BY <2>2, <4>1 DEF OpenFile, Connected
    <3>3. QED
      BY <3>1, <3>2
  <2>3. CASE UNCHANGED cpc /\ CloseFile(w)
    BY <2>3 DEF CloseFile, Connected
  <2>4. CASE UNCHANGED cpc /\ CloseConnection(w)
    BY <2>4 DEF CloseConnection, Connected
  <2>5. CASE UNCHANGED cpc /\ (WorkerCleanup(w) \/ ExitThread(w))
    BY <2>5 DEF WorkerCleanup, ExitThread, Connected
  <2>6. QED
    BY <1>3, <2>1, <2>2, <2>3, <2>4, <2>5 DEF WorkerStep
<1>4. ASSUME NEW c \in Clients, ConnectToServer(c)
      PROVE  PoolTypeOK'
  <2>1. queue' \in Seq(Clients)
    <3>1. queue' = Append(queue, c) \/ queue' = queue
      BY <1>4 DEF ConnectToServer
    <3>2. QED
      BY <3>1, QueueType
  <2>2. cpc' \in [Clients -> ClientPlaces]
    BY <1>4 DEF ConnectToServer, Finish, ClientPlaces
  <2>3. QED
    BY <1>4, <2>1, <2>2 DEF ConnectToServer, ServerUnchanged
<1>5. ASSUME NEW c \in Clients, ClientMoves(c)
      PROVE  PoolTypeOK'
  <2>1. queue' \in Seq(Clients)
    BY <1>5, RemoveAtProperties DEF ClientMoves
  <2>2. QED
    BY <1>5, <2>1 DEF ClientMoves
<1>6. QED
  BY <1>1, <1>2, <1>3, <1>4, <1>5, Steps

-----------------------------------------------------------------------------
(* The parts of the invariant, one by one.                                 *)

(* No step breaks MainInv: the events of a kevent are for different        *)
(* descriptors, and RunWorker is left only with the descriptor handed on.  *)
LEMMA MainInvStep ==
    ASSUME PoolTypeOK, MainInv, [Next]_vars
    PROVE  MainInv'
<1> USE DEF MainInv, mainVars
<1>0. NoFd \notin Fds /\ sfd \notin Fds
  BY BoundsAssumption DEF Fds, NoFd, sfd
<1>1. CASE UNCHANGED mainVars
  BY <1>1
<1>2. CASE MainStep
  <2>1. CASE WaitForEvents
    <3>1. events' \subseteq Ready /\ main_pc' = "events" /\ main_fd' = main_fd /\ main_pc = "wait"
      BY <2>1 DEF WaitForEvents, MainAt
    <3>2. \A e \in Ready : \/ e = [fd |-> sfd, eof |-> FALSE]
                           \/ \E f \in watched : e = [fd |-> f, eof |-> fds[f] \in gone]
      BY DEF Ready
    <3>3. watched \subseteq Fds
      BY DEF PoolTypeOK
    <3>4. ASSUME NEW e \in Ready
          PROVE  \/ e = [fd |-> sfd, eof |-> FALSE] /\ e.fd = sfd /\ ~e.eof
                 \/ e.fd \in Fds /\ e = [fd |-> e.fd, eof |-> fds[e.fd] \in gone]
      BY <3>2, <3>3
    <3>5. \A d, e \in Ready : (e.fd = sfd => ~e.eof) /\ (d.fd = e.fd => d = e)
      BY <1>0, <3>4
    <3>6. QED
      BY <3>1, <3>5
  <2>2. ASSUME NEW e \in events, Disconnected(e) \/ AcceptClient(e)
        PROVE  MainInv'
    BY <2>2 DEF Disconnected, AcceptClient, MainAt
  <2>3. ASSUME NEW e \in events, RunWorker(e)
        PROVE  MainInv'
    <3>1. e.fd \in Fds
      BY <2>3 DEF RunWorker, PoolTypeOK
    <3>2. QED
      BY <2>3, <3>1 DEF RunWorker, MainAt
  <2>4. CASE NoMoreEvents \/ FindFreeWorker \/ EndScan \/ JoinWorker
    BY <2>4 DEF NoMoreEvents, FindFreeWorker, EndScan, JoinWorker, MainAt
  <2>5. CASE StartWorker
    BY <1>0, <2>5 DEF StartWorker, MainAt
  <2>6. QED
    BY <1>2, <2>1, <2>2, <2>3, <2>4, <2>5 DEF MainStep
<1>3. ASSUME NEW w \in Workers, WorkerStep(w)
      PROVE  UNCHANGED mainVars
  BY <1>3 DEF WorkerStep, Proceed, OpenFile, CloseFile, CloseConnection, WorkerCleanup, ExitThread
<1>4. ASSUME NEW c \in Clients, ConnectToServer(c) \/ ClientMoves(c)
      PROVE  UNCHANGED mainVars
  BY <1>4 DEF ConnectToServer, ServerUnchanged, ClientMoves
<1>5. QED
  BY <1>1, <1>2, <1>3, <1>4, Steps DEF poolVars

(* No step breaks SlotInv.  JoinWorker waits for the thread to be gone,    *)
(* and a thread that is gone, or was never there, takes no further step.   *)
LEMMA SlotInvStep ==
    ASSUME PoolTypeOK, SlotInv, [Next]_vars
    PROVE  SlotInv'
<1> USE DEF SlotInv
<1>1. CASE UNCHANGED <<mainVars, slotVars, pc>>
  BY <1>1 DEF mainVars, slotVars
<1>2. CASE MainStep
  <2>1. ASSUME WaitForEvents \/ NoMoreEvents \/ \E e \in events : Disconnected(e) \/ AcceptClient(e) \/ RunWorker(e)
        PROVE  /\ UNCHANGED <<slotVars, pc>>
               /\ main_pc' \notin {"join", "start"}
    BY <2>1 DEF WaitForEvents, NoMoreEvents, Disconnected, AcceptClient, RunWorker, MainAt
  <2>2. CASE EndScan
    BY <2>2 DEF EndScan, MainAt, slotVars
  <2>3. CASE FindFreeWorker
    BY <2>3 DEF FindFreeWorker, MainAt, slotVars, PoolTypeOK
  <2>4. CASE JoinWorker
    BY <2>4 DEF JoinWorker, MainAt, slotVars
  <2>5. CASE StartWorker
    BY <2>5 DEF StartWorker, MainAt, PoolTypeOK, Connected
  <2>6. QED
    BY <1>2, <2>1, <2>2, <2>3, <2>4, <2>5 DEF MainStep, slotVars
<1>3. ASSUME NEW w \in Workers, WorkerStep(w)
      PROVE  SlotInv'
  <2> USE DEF PoolTypeOK, mainVars, slotVars, Step, At
  <2>1. CASE Proceed(w)
    <3>1. PICK place \in Connected : pc' = [pc EXCEPT ![w] = place]
      BY <2>1 DEF Proceed
    <3>2. pc[w] \in Connected /\ pc[w] \notin {"none", "flag", "leave", "exited"}
          /\ place \notin {"none", "flag", "leave", "exited"}
      BY <2>1, <3>1 DEF Proceed, Connected
    <3>3. UNCHANGED <<mainVars, slotVars>>
      BY <2>1 DEF Proceed
    <3>4. QED
      BY <3>1, <3>2, <3>3
  <2>2. CASE OpenFile(w) \/ CloseFile(w)
    <3>1. PICK place \in {"error", "header", "close"} : pc' = [pc EXCEPT ![w] = place]
      BY <2>2 DEF OpenFile, CloseFile
    <3>2. pc[w] \in {"open", "closefile"} /\ UNCHANGED <<mainVars, slotVars>>
      BY <2>2 DEF OpenFile, CloseFile
    <3>3. QED
      BY <3>1, <3>2 DEF Connected
  <2>3. CASE CloseConnection(w)
    BY <2>3 DEF CloseConnection, Connected
  <2>4. CASE WorkerCleanup(w)
    BY <2>4 DEF WorkerCleanup, Connected
  <2>5. CASE ExitThread(w)
    BY <2>5 DEF ExitThread, Connected
  <2>6. QED
    BY <1>3, <2>1, <2>2, <2>3, <2>4, <2>5 DEF WorkerStep
<1>4. ASSUME NEW c \in Clients, ConnectToServer(c) \/ ClientMoves(c)
      PROVE  UNCHANGED <<mainVars, slotVars, pc>>
  BY <1>4 DEF ConnectToServer, ServerUnchanged, ClientMoves
<1>5. QED
  BY <1>1, <1>2, <1>3, <1>4, Steps DEF poolVars

(* The steps that change neither a descriptor nor what a worker has open.  *)
LEMMA QuietSteps ==
    ASSUME [Next]_vars
    PROVE  \/ UNCHANGED <<fds, pc, fd, file_fd, client>>
           \/ \E e \in events : Disconnected(e) \/ AcceptClient(e)
           \/ StartWorker
           \/ \E w \in Workers : WorkerStep(w)
<1>1. ASSUME MainStep
      PROVE  \/ UNCHANGED <<fds, pc, fd, file_fd, client>>
             \/ \E e \in events : Disconnected(e) \/ AcceptClient(e)
             \/ StartWorker
  BY <1>1 DEF MainStep, WaitForEvents, NoMoreEvents, RunWorker, FindFreeWorker, EndScan, JoinWorker,
     kernelVars, ownVars
<1>2. ASSUME NEW c \in Clients, ConnectToServer(c) \/ ClientMoves(c)
      PROVE  UNCHANGED <<fds, pc, fd, file_fd, client>>
  BY <1>2 DEF ConnectToServer, ServerUnchanged, ClientMoves, kernelVars, ownVars
<1>3. QED
  BY <1>1, <1>2, Steps DEF poolVars

(* No step breaks ServeInv: what is closed, or opened under a free number, *)
(* is not what a worker still has open.                                    *)
LEMMA ServeInvStep ==
    ASSUME PoolTypeOK, MainInv, SlotInv, ServeInv, OwnerInv, [Next]_vars
    PROVE  ServeInv'
<1>0. Free \notin Clients /\ AFile \notin Clients /\ Free # AFile
  BY ClientsAssumption DEF Free, AFile
<1>1. CASE UNCHANGED <<fds, pc, fd, file_fd, client>>
  BY <1>1 DEF ServeInv
<1>2. ASSUME NEW e \in events, Disconnected(e)
      PROVE  ServeInv'
  <2>1. e.fd \in Fds /\ fds[e.fd] \in Clients /\ ~InWorker(e.fd)
    BY <1>2 DEF Disconnected, PoolTypeOK, MainInv, OwnerInv, InBatch
  <2>2. fds' = [fds EXCEPT ![e.fd] = Free] /\ UNCHANGED <<pc, fd, file_fd, client>>
    BY <1>2 DEF Disconnected, ownVars
  <2>3. \A w \in Workers : /\ pc[w] \in Connected => fd[w] # e.fd
                           /\ pc[w] \in Sending => file_fd[w] # e.fd
    BY <1>0, <2>1 DEF InWorker, ServeInv
  <2>4. QED
    BY <2>1, <2>2, <2>3 DEF ServeInv, PoolTypeOK
<1>3. ASSUME NEW e \in events, AcceptClient(e)
      PROVE  ServeInv'
  <2>1. LowestFree \in Fds /\ fds[LowestFree] = Free
    BY <1>3, LowestFreeIsFree DEF AcceptClient
  <2>2. fds' = [fds EXCEPT ![LowestFree] = Head(queue)] /\ UNCHANGED <<pc, fd, file_fd, client>>
    BY <1>3 DEF AcceptClient, ownVars
  <2>3. \A w \in Workers : /\ pc[w] \in Connected => fd[w] # LowestFree
                           /\ pc[w] \in Sending => file_fd[w] # LowestFree
    BY <1>0, <2>1 DEF ServeInv
  <2>4. QED
    BY <2>1, <2>2, <2>3 DEF ServeInv, PoolTypeOK
<1>4. CASE StartWorker
  <2>1. main_fd \in Fds /\ fds[main_fd] \in Clients
    BY <1>4 DEF StartWorker, MainAt, MainInv, OwnerInv, InMain
  <2>2. main_i \in Workers /\ pc[main_i] \notin Sending
    BY <1>4 DEF StartWorker, MainAt, SlotInv, Sending
  <2>3. /\ pc' = [pc EXCEPT ![main_i] = "recv"] /\ fd' = [fd EXCEPT ![main_i] = main_fd]
        /\ client' = [client EXCEPT ![main_i] = fds[main_fd]]
        /\ UNCHANGED <<fds, file_fd>>
    BY <1>4 DEF StartWorker, kernelVars
  <2>4. \A w \in Workers : pc'[w] \in Sending => w # main_i /\ pc[w] \in Sending
    BY <2>2, <2>3 DEF PoolTypeOK, Sending
  <2>5. QED
    BY <2>1, <2>2, <2>3, <2>4 DEF ServeInv, PoolTypeOK
<1>5. ASSUME NEW w \in Workers, WorkerStep(w)
      PROVE  ServeInv'
  <2>1. CASE Proceed(w)
    <3>1. PICK place \in Connected : /\ place \in Sending <=> pc[w] \in Sending
                                     /\ pc' = [pc EXCEPT ![w] = place]
      BY <2>1 DEF Proceed, Step
    <3>2. pc[w] \in Connected /\ UNCHANGED <<fds, fd, file_fd, client>>
      BY <2>1 DEF Proceed
    <3>3. \A v \in Workers : /\ pc'[v] \in Connected <=> pc[v] \in Connected
                             /\ pc'[v] \in Sending <=> pc[v] \in Sending
      BY <3>1, <3>2 DEF PoolTypeOK
    <3>4. QED
      BY <3>2, <3>3 DEF ServeInv
  <2>2. CASE OpenFile(w)
    <3>1. pc[w] = "open"
      BY <2>2 DEF OpenFile, At
    <3>2. CASE FreeFds = {} \/ disk[tokens[w][2]] \in {"missing", "locked"}
      <4>1. pc' = [pc EXCEPT ![w] = "error"] /\ UNCHANGED <<fds, fd, file_fd, client>>
        BY <2>2, <3>2 DEF OpenFile, Step
      <4>2. QED
        BY <3>1, <4>1 DEF ServeInv, PoolTypeOK, Connected, Sending
    <3>3. CASE ~(FreeFds = {} \/ disk[tokens[w][2]] \in {"missing", "locked"})
      <4>1. LowestFree \in Fds /\ fds[LowestFree] = Free
        BY <3>3, LowestFreeIsFree
      <4>2. /\ pc' = [pc EXCEPT ![w] = "header"] /\ fds' = [fds EXCEPT ![LowestFree] = AFile]
            /\ file_fd' = [file_fd EXCEPT ![w] = LowestFree] /\ UNCHANGED <<fd, client>>
        BY <2>2, <3>3 DEF OpenFile, Step
      <4>3. \A v \in Workers : /\ pc'[v] \in Connected <=> pc[v] \in Connected
                               /\ pc'[v] \in Sending <=> v = w \/ pc[v] \in Sending
        BY <3>1, <4>2 DEF PoolTypeOK, Connected, Sending
      <4>4. \A v \in Workers : /\ pc[v] \in Connected => fd[v] # LowestFree
                               /\ pc[v] \in Sending => file_fd[v] # LowestFree
        BY <1>0, <4>1 DEF ServeInv
      <4>5. pc[w] \notin Sending
        BY <3>1 DEF Sending
      <4>6. QED
        BY <4>1, <4>2, <4>3, <4>4, <4>5 DEF ServeInv, PoolTypeOK
    <3>4. QED
      BY <3>2, <3>3
  <2>3. CASE CloseFile(w)
    <3>1. /\ pc[w] = "closefile" /\ pc' = [pc EXCEPT ![w] = "close"]
          /\ fds' = [fds EXCEPT ![file_fd[w]] = Free] /\ file_fd' = [file_fd EXCEPT ![w] = NoFd]
          /\ UNCHANGED <<fd, client>>
      BY <2>3 DEF CloseFile, At, Step
    <3>2. file_fd[w] \in Fds /\ fds[file_fd[w]] = AFile
      BY <3>1 DEF ServeInv, Sending
    <3>3. \A v \in Workers : /\ pc'[v] \in Connected <=> pc[v] \in Connected
                             /\ pc'[v] \in Sending <=> v # w /\ pc[v] \in Sending
      BY <3>1 DEF PoolTypeOK, Connected, Sending
    <3>4. \A v \in Workers : /\ pc[v] \in Connected => fd[v] # file_fd[w]
                             /\ v # w /\ pc[v] \in Sending => file_fd[v] # file_fd[w]
      BY <1>0, <3>1, <3>2 DEF ServeInv, Sending
    <3>5. QED
      BY <3>1, <3>2, <3>3, <3>4 DEF ServeInv, PoolTypeOK
  <2>4. CASE CloseConnection(w)
    <3>1. /\ pc[w] = "close" /\ pc' = [pc EXCEPT ![w] = "flag"]
          /\ fds' = [fds EXCEPT ![fd[w]] = Free] /\ UNCHANGED <<fd, file_fd, client>>
      BY <2>4 DEF CloseConnection, At, Step, ownVars
    <3>2. pc[w] \in Connected /\ fd[w] \in Fds /\ fds[fd[w]] \in Clients
      BY <3>1 DEF ServeInv, Connected
    <3>3. \A v \in Workers : /\ pc'[v] \in Connected <=> v # w /\ pc[v] \in Connected
                             /\ pc'[v] \in Sending <=> pc[v] \in Sending
      BY <3>1 DEF PoolTypeOK, Connected, Sending
    <3>4. \A v \in Workers : /\ v # w /\ pc[v] \in Connected => fd[v] # fd[w]
                             /\ pc[v] \in Sending => file_fd[v] # fd[w]
      BY <1>0, <3>2 DEF ServeInv, OwnerInv
    <3>5. QED
      BY <3>1, <3>2, <3>3, <3>4 DEF ServeInv, PoolTypeOK
  <2>5. CASE WorkerCleanup(w) \/ ExitThread(w)
    <3>1. PICK place \in {"leave", "exited"} : pc' = [pc EXCEPT ![w] = place]
      BY <2>5 DEF WorkerCleanup, ExitThread, Step
    <3>2. UNCHANGED <<fds, fd, file_fd, client>>
      BY <2>5 DEF WorkerCleanup, ExitThread, kernelVars, ownVars
    <3>3. \A v \in Workers : /\ pc'[v] \in Connected => pc[v] \in Connected
                             /\ pc'[v] \in Sending => pc[v] \in Sending
      BY <3>1 DEF PoolTypeOK, Connected, Sending
    <3>4. QED
      BY <3>2, <3>3 DEF ServeInv
  <2>6. QED
    BY <1>5, <2>1, <2>2, <2>3, <2>4, <2>5 DEF WorkerStep
<1>6. QED
  BY <1>1, <1>2, <1>3, <1>4, <1>5, QuietSteps

(* No step breaks OwnerInv: a descriptor is handed from kqueue to the      *)
(* batch, to the main thread and to a worker, never copied, and is closed  *)
(* only by the one that has it.                                            *)
LEMMA OwnerInvStep ==
    ASSUME PoolTypeOK, MainInv, SlotInv, ServeInv, OwnerInv, [Next]_vars
    PROVE  OwnerInv'
<1>0. /\ Free \notin Clients /\ AFile \notin Clients /\ Free # AFile
      /\ NoFd \notin Fds /\ sfd \notin Fds
  BY ClientsAssumption, BoundsAssumption DEF Free, AFile, Fds, NoFd, sfd
<1> USE DEF InKqueue, InBatch, InMain, InWorker
<1>1. CASE UNCHANGED <<fds, watched, events, main_fd, pc, fd>>
  BY <1>1 DEF OwnerInv
<1>2. CASE MainStep
  <2>1. CASE WaitForEvents
    <3>1. /\ events' \subseteq Ready /\ watched' = watched \ OneShot(events')
          /\ events = {} /\ UNCHANGED <<fds, main_fd, pc, fd>>
      BY <2>1 DEF WaitForEvents, MainAt, MainInv, ownVars
    <3>2. \A e \in Ready : e.fd = sfd \/ e.fd \in watched
      BY DEF Ready
    <3>3. ASSUME NEW f \in Fds
          PROVE  /\ f \in watched <=> InKqueue(f)' \/ InBatch(f)'
                 /\ ~(InKqueue(f)' /\ InBatch(f)')
      BY <1>0, <3>1, <3>2 DEF OneShot
    <3>4. \A f \in Fds : InMain(f)' <=> InMain(f)
      BY <3>1
    <3>5. \A f \in Fds : InWorker(f)' <=> InWorker(f)
      BY <3>1
    <3> HIDE DEF InKqueue, InBatch, InMain, InWorker
    <3>6. \A f \in Fds : f \in watched <=> InKqueue(f)
      BY DEF InKqueue
    <3>7. \A f \in Fds : ~InBatch(f)
      BY <3>1 DEF InBatch
    <3>8. QED
      BY <3>1, <3>3, <3>4, <3>5, <3>6, <3>7 DEF OwnerInv
  <2>2. ASSUME NEW e \in events, Disconnected(e)
        PROVE  OwnerInv'
    <3>1. /\ e.fd \in Fds /\ fds' = [fds EXCEPT ![e.fd] = Free] /\ events' = events \ {e}
          /\ UNCHANGED <<watched, main_fd, pc, fd>>
      BY <2>2 DEF Disconnected, PoolTypeOK, MainInv, ownVars
    <3>2. \A d \in events : d # e => d.fd # e.fd
      BY DEF MainInv
    <3>3. \A f \in Fds : /\ InBatch(f)' <=> f # e.fd /\ InBatch(f)
                         /\ fds'[f] \in Clients <=> f # e.fd /\ fds[f] \in Clients
      BY <1>0, <3>1, <3>2 DEF PoolTypeOK
    <3>4. InBatch(e.fd)
      OBVIOUS
    <3>5. QED
      BY <3>1, <3>3, <3>4 DEF OwnerInv
  <2>3. ASSUME NEW e \in events, AcceptClient(e)
        PROVE  OwnerInv'
    <3>1. LowestFree \in Fds /\ fds[LowestFree] = Free
      BY <2>3, LowestFreeIsFree DEF AcceptClient
    <3>2. Head(queue) \in Clients
      BY <2>3 DEF AcceptClient, PoolTypeOK
    <3>3. /\ e.fd = sfd /\ fds' = [fds EXCEPT ![LowestFree] = Head(queue)] /\ events' = events \ {e}
          /\ watched' = watched \cup {LowestFree} /\ UNCHANGED <<main_fd, pc, fd>>
      BY <2>3 DEF AcceptClient, ownVars
    <3>4. \A f \in Fds : /\ InBatch(f)' <=> InBatch(f)
                         /\ InKqueue(f)' <=> f = LowestFree \/ InKqueue(f)
                         /\ fds'[f] \in Clients <=> f = LowestFree \/ fds[f] \in Clients
      BY <1>0, <3>1, <3>2, <3>3 DEF PoolTypeOK
    <3>5. fds[LowestFree] \notin Clients
      BY <1>0, <3>1
    <3>6. QED
      BY <3>1, <3>3, <3>4, <3>5 DEF OwnerInv
  <2>4. ASSUME NEW e \in events, RunWorker(e)
        PROVE  OwnerInv'
    <3>1. /\ e.fd \in Fds /\ main_fd \notin Fds /\ main_fd' = e.fd /\ events' = events \ {e}
          /\ UNCHANGED <<fds, watched, pc, fd>>
      BY <2>4 DEF RunWorker, MainAt, PoolTypeOK, MainInv, kernelVars, ownVars
    <3>2. \A d \in events : d # e => d.fd # e.fd
      BY DEF MainInv
    <3>3. \A f \in Fds : /\ InBatch(f)' <=> f # e.fd /\ InBatch(f)
                         /\ InMain(f)' <=> f = e.fd
                         /\ ~InMain(f)
      BY <3>1, <3>2
    <3>4. InBatch(e.fd)
      OBVIOUS
    <3>5. QED
      BY <3>1, <3>3, <3>4 DEF OwnerInv
  <2>5. CASE NoMoreEvents \/ FindFreeWorker \/ EndScan \/ JoinWorker
    <3>1. UNCHANGED <<fds, watched, events, main_fd, pc, fd>>
      BY <2>5 DEF NoMoreEvents, FindFreeWorker, EndScan, JoinWorker, kernelVars, ownVars
    <3>2. QED
      BY <1>1, <3>1
  <2>6. CASE StartWorker
    <3>1. main_i \in Workers /\ pc[main_i] \notin Connected
      BY <2>6 DEF StartWorker, MainAt, SlotInv, Connected
    <3>2. /\ pc' = [pc EXCEPT ![main_i] = "recv"] /\ fd' = [fd EXCEPT ![main_i] = main_fd]
          /\ main_fd' = NoFd /\ UNCHANGED <<fds, watched, events>>
      BY <2>6 DEF StartWorker, kernelVars
    <3>3. main_fd \in Fds
      BY <2>6 DEF StartWorker, MainAt, MainInv
    <3>4. \A w \in Workers : /\ pc'[w] \in Connected <=> w = main_i \/ pc[w] \in Connected
                             /\ fd'[w] = IF w = main_i THEN main_fd ELSE fd[w]
      BY <3>1, <3>2, <3>3 DEF PoolTypeOK, Connected
    <3>5. \A f \in Fds : /\ InWorker(f)' <=> f = main_fd \/ InWorker(f)
                         /\ InMain(f)' <=> FALSE
      BY <1>0, <3>1, <3>2, <3>4
    <3>6. QED
      BY <3>1, <3>2, <3>3, <3>4, <3>5 DEF OwnerInv
  <2>7. QED
    BY <1>2, <2>1, <2>2, <2>3, <2>4, <2>5, <2>6 DEF MainStep
<1>3. ASSUME NEW w \in Workers, WorkerStep(w)
      PROVE  OwnerInv'
  <2>0. UNCHANGED <<watched, events, main_fd, fd>>
    BY <1>3 DEF WorkerStep, Proceed, OpenFile, CloseFile, CloseConnection, WorkerCleanup, ExitThread,
       kernelVars, mainVars, ownVars
  <2>1. ASSUME \A v \in Workers : pc'[v] \in Connected <=> pc[v] \in Connected,
               \A f \in Fds : fds'[f] \in Clients <=> fds[f] \in Clients
        PROVE  OwnerInv'
    <3>1. \A f \in Fds : InWorker(f)' <=> InWorker(f)
      BY <2>0, <2>1
    <3>2. QED
      BY <2>0, <2>1, <3>1 DEF OwnerInv
  <2>2. CASE Proceed(w)
    BY <2>1, <2>2 DEF Proceed, Step, PoolTypeOK
  <2>3. CASE OpenFile(w)
    <3>1. pc[w] = "open"
      BY <2>3 DEF OpenFile, At
    <3>2. CASE UNCHANGED fds
      <4>1. PICK place \in {"error", "header"} : pc' = [pc EXCEPT ![w] = place]
        BY <2>3 DEF OpenFile, Step
      <4>2. QED
        BY <2>1, <3>1, <3>2, <4>1 DEF PoolTypeOK, Connected
    <3>3. CASE ~UNCHANGED fds
      <4>1. LowestFree \in Fds /\ fds[LowestFree] = Free
        BY <2>3, <3>3, LowestFreeIsFree DEF OpenFile
      <4>2. pc' = [pc EXCEPT ![w] = "header"] /\ fds' = [fds EXCEPT ![LowestFree] = AFile]
        BY <2>3, <3>3 DEF OpenFile, Step
      <4>3. \A f \in Fds : fds'[f] \in Clients <=> fds[f] \in Clients
        BY <1>0, <4>1, <4>2 DEF PoolTypeOK
      <4>4. \A v \in Workers : pc'[v] \in Connected <=> pc[v] \in Connected
        BY <3>1, <4>2 DEF PoolTypeOK, Connected
      <4>5. QED
        BY <2>1, <4>3, <4>4
    <3>4. QED
      BY <3>2, <3>3
  <2>4. CASE CloseFile(w)
    <3>1. /\ pc[w] = "closefile" /\ pc' = [pc EXCEPT ![w] = "close"]
          /\ fds' = [fds EXCEPT ![file_fd[w]] = Free]
      BY <2>4 DEF CloseFile, At, Step
    <3>2. file_fd[w] \in Fds /\ fds[file_fd[w]] = AFile
      BY <3>1 DEF ServeInv, Sending
    <3>3. \A f \in Fds : fds'[f] \in Clients <=> fds[f] \in Clients
      BY <1>0, <3>1, <3>2 DEF PoolTypeOK
    <3>4. \A v \in Workers : pc'[v] \in Connected <=> pc[v] \in Connected
      BY <3>1 DEF PoolTypeOK, Connected
    <3>5. QED
      BY <2>1, <3>3, <3>4
  <2>5. CASE CloseConnection(w)
    <3>1. /\ pc[w] = "close" /\ pc' = [pc EXCEPT ![w] = "flag"]
          /\ fds' = [fds EXCEPT ![fd[w]] = Free]
      BY <2>5 DEF CloseConnection, At, Step
    <3>2. pc[w] \in Connected /\ fd[w] \in Fds
      BY <3>1 DEF ServeInv, Connected
    <3>3. \A v \in Workers : pc'[v] \in Connected <=> v # w /\ pc[v] \in Connected
      BY <3>1 DEF PoolTypeOK, Connected
    <3>4. \A f \in Fds : fds'[f] \in Clients <=> f # fd[w] /\ fds[f] \in Clients
      BY <1>0, <3>1, <3>2 DEF PoolTypeOK
    <3>5. \A f \in Fds : InWorker(f)' <=> f # fd[w] /\ InWorker(f)
      BY <2>0, <3>2, <3>3 DEF OwnerInv
    <3>6. InWorker(fd[w])
      BY <3>2
    <3>7. QED
      BY <2>0, <3>2, <3>3, <3>4, <3>5, <3>6 DEF OwnerInv
  <2>6. CASE WorkerCleanup(w) \/ ExitThread(w)
    <3>1. PICK place \in {"leave", "exited"} : pc' = [pc EXCEPT ![w] = place]
      BY <2>6 DEF WorkerCleanup, ExitThread, Step
    <3>2. pc[w] \in {"flag", "leave"} /\ UNCHANGED fds
      BY <2>6 DEF WorkerCleanup, ExitThread, At, kernelVars
    <3>3. \A v \in Workers : pc'[v] \in Connected <=> pc[v] \in Connected
      BY <3>1, <3>2 DEF PoolTypeOK, Connected
    <3>4. QED
      BY <2>1, <3>2, <3>3
  <2>7. QED
    BY <1>3, <2>2, <2>3, <2>4, <2>5, <2>6 DEF WorkerStep
<1>4. ASSUME NEW c \in Clients, ConnectToServer(c) \/ ClientMoves(c)
      PROVE  UNCHANGED <<fds, watched, events, main_fd, pc, fd>>
  BY <1>4 DEF ConnectToServer, ServerUnchanged, ClientMoves, kernelVars, mainVars, ownVars
<1>5. QED
  BY <1>1, <1>2, <1>3, <1>4, Steps DEF poolVars, mainVars

(* The descriptors that stand for clients, and the queue, change like this.*)
LEMMA DescriptorSteps ==
    ASSUME PoolTypeOK, MainInv, ServeInv, [Next]_vars
    PROVE  \/ UNCHANGED <<fds, queue, cpc>>
           \/ /\ \E f \in Fds, what \in {Free, AFile} : fds' = [fds EXCEPT ![f] = what]
              /\ UNCHANGED <<queue, cpc>>
           \/ /\ queue # <<>> /\ LowestFree \in Fds
              /\ fds' = [fds EXCEPT ![LowestFree] = Head(queue)] /\ queue' = Tail(queue)
              /\ UNCHANGED cpc
           \/ UNCHANGED fds /\ \E c \in Clients : ConnectToServer(c) \/ ClientMoves(c)
<1> USE DEF netVars, kernelVars
<1>1. CASE MainStep
  <2>1. ASSUME NEW e \in events, Disconnected(e)
        PROVE  e.fd \in Fds /\ fds' = [fds EXCEPT ![e.fd] = Free] /\ UNCHANGED queue
    BY <2>1 DEF Disconnected, PoolTypeOK, MainInv
  <2>2. ASSUME NEW e \in events, AcceptClient(e)
        PROVE  /\ queue # <<>> /\ LowestFree \in Fds
               /\ fds' = [fds EXCEPT ![LowestFree] = Head(queue)] /\ queue' = Tail(queue)
    BY <2>2, LowestFreeIsFree DEF AcceptClient
  <2>3. ASSUME NEW e \in events, RunWorker(e)
        PROVE  UNCHANGED <<fds, queue>>
    BY <2>3 DEF RunWorker
  <2>4. ASSUME WaitForEvents \/ NoMoreEvents \/ FindFreeWorker \/ EndScan \/ JoinWorker \/ StartWorker
        PROVE  UNCHANGED <<fds, queue>>
    BY <2>4 DEF WaitForEvents, NoMoreEvents, FindFreeWorker, EndScan, JoinWorker, StartWorker
  <2>5. QED
    BY <1>1, <2>1, <2>2, <2>3, <2>4 DEF MainStep
<1>2. ASSUME NEW w \in Workers, WorkerStep(w)
      PROVE  \/ UNCHANGED <<fds, queue, cpc>>
             \/ /\ \E f \in Fds, what \in {Free, AFile} : fds' = [fds EXCEPT ![f] = what]
                /\ UNCHANGED <<queue, cpc>>
  <2>1. CASE Proceed(w)
    BY <2>1 DEF Proceed
  <2>2. CASE UNCHANGED cpc /\ OpenFile(w)
    BY <2>2, LowestFreeIsFree DEF OpenFile
  <2>3. CASE UNCHANGED cpc /\ CloseFile(w)
    <3>1. file_fd[w] \in Fds
      BY <2>3 DEF CloseFile, At, ServeInv, Sending
    <3>2. QED
      BY <2>3, <3>1 DEF CloseFile
  <2>4. CASE UNCHANGED cpc /\ CloseConnection(w)
    <3>1. fd[w] \in Fds
      BY <2>4 DEF CloseConnection, At, ServeInv, Connected
    <3>2. QED
      BY <2>4, <3>1 DEF CloseConnection
  <2>5. CASE UNCHANGED cpc /\ (WorkerCleanup(w) \/ ExitThread(w))
    BY <2>5 DEF WorkerCleanup, ExitThread
  <2>6. QED
    BY <1>2, <2>1, <2>2, <2>3, <2>4, <2>5 DEF WorkerStep
<1>3. ASSUME NEW c \in Clients, ConnectToServer(c) \/ ClientMoves(c)
      PROVE  UNCHANGED fds
  BY <1>3 DEF ConnectToServer, ServerUnchanged, ClientMoves
<1>4. QED
  BY <1>1, <1>2, <1>3, Steps DEF MainStep, poolVars

(* No step breaks ConnectionInv: a client connects once, and accept takes  *)
(* its connection out of the queue when it gives it a descriptor.          *)
LEMMA ConnectionInvStep ==
    ASSUME PoolTypeOK, MainInv, ServeInv, ConnectionInv, [Next]_vars
    PROVE  ConnectionInv'
<1>0. Free \notin Clients /\ AFile \notin Clients
  BY ClientsAssumption DEF Free, AFile
<1>a. /\ queue \in Seq(Clients) /\ fds \in [Fds -> Clients \cup {Free, AFile}]
      /\ cpc \in [Clients -> ClientPlaces] /\ Len(queue) \in Nat
      /\ \A i \in DOMAIN queue : queue[i] \in Clients
  BY DEF PoolTypeOK
<1>1. CASE UNCHANGED <<fds, queue, cpc>>
  BY <1>1 DEF ConnectionInv
<1>2. ASSUME NEW f \in Fds, NEW what \in {Free, AFile},
             fds' = [fds EXCEPT ![f] = what], UNCHANGED <<queue, cpc>>
      PROVE  ConnectionInv'
  <2>1. \A g \in Fds : fds'[g] \in Clients => fds'[g] = fds[g]
    BY <1>0, <1>2, <1>a
  <2>2. \A i \in DOMAIN queue, g \in Fds : fds'[g] # queue[i]
    BY <1>a, <2>1 DEF ConnectionInv
  <2>3. QED
    BY <1>2, <2>1, <2>2 DEF ConnectionInv
<1>3. ASSUME queue # <<>>, LowestFree \in Fds, UNCHANGED cpc,
             fds' = [fds EXCEPT ![LowestFree] = Head(queue)], queue' = Tail(queue)
      PROVE  ConnectionInv'
  <2>1. 1 \in DOMAIN queue /\ Head(queue) = queue[1]
    BY <1>3, <1>a
  <2>2. \A i \in DOMAIN queue' : i + 1 \in DOMAIN queue /\ i + 1 # 1 /\ queue'[i] = queue[i + 1]
    BY <1>3, <1>a
  <2>3. \A g \in Fds : fds'[g] = IF g = LowestFree THEN queue[1] ELSE fds[g]
    BY <1>3, <1>a, <2>1
  <2>4. \A f, g \in Fds : fds'[f] \in Clients /\ fds'[f] = fds'[g] => f = g
    BY <2>1, <2>3 DEF ConnectionInv
  <2>5. \A i, j \in DOMAIN queue' : queue'[i] = queue'[j] => i = j
    <3>1. \A i, j \in DOMAIN queue' : i \in Int /\ j \in Int
      BY <1>3, <1>a
    <3>2. \A i, j \in DOMAIN queue' : queue'[i] = queue'[j] => i + 1 = j + 1
      BY <2>2 DEF ConnectionInv
    <3>3. QED
      BY <3>1, <3>2
  <2>6. \A i \in DOMAIN queue' : cpc'[queue'[i]] # "start" /\ \A f \in Fds : fds'[f] # queue'[i]
    BY <1>3, <2>1, <2>2, <2>3 DEF ConnectionInv
  <2>7. \A f \in Fds : fds'[f] \in Clients => cpc'[fds'[f]] # "start"
    BY <1>3, <2>1, <2>3 DEF ConnectionInv
  <2>8. QED
    BY <2>4, <2>5, <2>6, <2>7 DEF ConnectionInv
<1>4. ASSUME NEW c \in Clients, ConnectToServer(c), UNCHANGED fds
      PROVE  ConnectionInv'
  <2>1. cpc[c] = "start"
    BY <1>4 DEF ConnectToServer
  <2>2. \A d \in Clients : cpc'[d] = "start" => cpc[d] = "start"
    BY <1>4, <1>a DEF ConnectToServer, Finish
  <2>3. CASE queue' = queue
    BY <1>4, <1>a, <2>2, <2>3 DEF ConnectionInv
  <2>4. CASE queue' # queue
    <3>1. queue' = Append(queue, c) /\ cpc'[c] # "start"
      BY <1>4, <1>a, <2>4 DEF ConnectToServer
    <3>2. /\ Len(queue') = Len(queue) + 1 /\ DOMAIN queue' = 1 .. Len(queue) + 1
          /\ queue'[Len(queue) + 1] = c
          /\ \A i \in 1 .. Len(queue) : queue'[i] = queue[i]
      BY <3>1, <1>a, AppendProperties
    <3>3. \A i \in DOMAIN queue' : \/ i = Len(queue) + 1 /\ queue'[i] = c
                                   \/ i \in DOMAIN queue /\ queue'[i] = queue[i]
      BY <1>a, <3>2
    <3>4. \A i \in DOMAIN queue : queue[i] # c
      BY <2>1 DEF ConnectionInv
    <3>5. \A f \in Fds : fds[f] # c
      BY <2>1 DEF ConnectionInv
    <3>6. \A i, j \in DOMAIN queue' : queue'[i] = queue'[j] => i = j
      BY <3>3, <3>4 DEF ConnectionInv
    <3>7. \A i \in DOMAIN queue' : cpc'[queue'[i]] # "start" /\ \A f \in Fds : fds[f] # queue'[i]
      BY <1>a, <2>2, <3>1, <3>3, <3>5 DEF ConnectionInv
    <3>8. QED
      BY <1>4, <2>2, <3>6, <3>7 DEF ConnectionInv
  <2>5. QED
    BY <2>3, <2>4
<1>5. ASSUME NEW c \in Clients, ClientMoves(c)
      PROVE  ConnectionInv'
  <2>1. UNCHANGED fds /\ \A d \in Clients : cpc'[d] = "start" => cpc[d] = "start"
    BY <1>5, <1>a DEF ClientMoves
  <2>2. CASE UNCHANGED queue
    BY <1>a, <2>1, <2>2 DEF ConnectionInv
  <2>3. ASSUME NEW k \in DOMAIN queue, queue' = RemoveAt(queue, k)
        PROVE  ConnectionInv'
    <3> DEFINE old(i) == IF i < k THEN i ELSE i + 1
    <3>1. /\ DOMAIN queue' = 1 .. Len(queue) - 1
          /\ \A i \in 1 .. Len(queue) - 1 : queue'[i] = IF i < k THEN queue[i] ELSE queue[i + 1]
      <4>1. RemoveAt(queue, k) \in Seq(Clients) /\ Len(RemoveAt(queue, k)) = Len(queue) - 1
        BY <1>a, <2>3, RemoveAtProperties
      <4>2. DOMAIN queue' = 1 .. Len(queue) - 1
        BY <2>3, <4>1
      <4>3. QED
        BY <1>a, <2>3, <4>2, RemoveAtProperties
    <3>2. \A i \in DOMAIN queue' : old(i) \in DOMAIN queue /\ queue'[i] = queue[old(i)]
      BY <1>a, <3>1
    <3>3. \A i, j \in DOMAIN queue' : old(i) = old(j) => i = j
      BY <1>a, <3>1
    <3> HIDE DEF old
    <3>4. QED
      BY <1>a, <2>1, <3>2, <3>3 DEF ConnectionInv
  <2>4. QED
    BY <1>5, <2>2, <2>3 DEF ClientMoves
<1>6. QED
  BY <1>1, <1>2, <1>3, <1>4, <1>5, DescriptorSteps

-----------------------------------------------------------------------------
(* The theorems.                                                           *)

(* The inductive invariant: types, what the main thread holds, the state   *)
(* of the slots, the owners of the descriptors and the connections of the  *)
(* clients agree in every state, whatever the order of events and threads. *)
THEOREM PoolInvariant == Spec => [](PoolTypeOK /\ PoolInv)
<1>1. Init => PoolTypeOK /\ PoolInv
  <2> SUFFICES ASSUME Init PROVE PoolTypeOK /\ PoolInv
    OBVIOUS
  <2> USE DEF Init, ServerInit
  <2>0. Free \notin Clients /\ NoFd \notin Fds /\ sfd \notin Fds
    BY ClientsAssumption, BoundsAssumption DEF Free, NoFd, Fds, sfd
  <2>1. PoolTypeOK
    BY BoundsAssumption DEF PoolTypeOK, Workers, ClientPlaces
  <2>2. MainInv
    BY <2>0 DEF MainInv
  <2>3. SlotInv
    BY DEF SlotInv
  <2>4. ServeInv
    BY DEF ServeInv, Connected, Sending
  <2>5. OwnerInv
    BY <2>0 DEF OwnerInv, InKqueue, InBatch, InMain, InWorker, Connected
  <2>6. ConnectionInv
    BY <2>0 DEF ConnectionInv
  <2>7. QED
    BY <2>1, <2>2, <2>3, <2>4, <2>5, <2>6 DEF PoolInv
<1>2. PoolTypeOK /\ PoolInv /\ [Next]_vars => (PoolTypeOK /\ PoolInv)'
  BY TypeStep, MainInvStep, SlotInvStep, ServeInvStep, OwnerInvStep, ConnectionInvStep DEF PoolInv
<1>3. QED
  BY <1>1, <1>2, PTL DEF Spec

(* Every descriptor of a client has exactly one owner, who will close it,  *)
(* and a descriptor that is closed has none: kqueue, the batch of events,  *)
(* the main thread and the workers never share one.                        *)
THEOREM EveryDescriptorHasOneOwner == Spec => []OneOwner
<1>1. PoolTypeOK /\ PoolInv => OneOwner
  <2> SUFFICES ASSUME PoolTypeOK, MainInv, OwnerInv, NEW f \in Fds
               PROVE  Cardinality(Owners(f)) = IF fds[f] \in Clients THEN 1 ELSE 0
    BY DEF PoolInv, OneOwner
  <2> USE DEF InKqueue, InBatch, InMain, InWorker
  <2>1. \A x \in Owners(f) : \/ InKqueue(f) /\ x = <<"kqueue", f>>
                             \/ InMain(f) /\ x = <<"main", f>>
                             \/ \E e \in events : e.fd = f /\ x = <<"event", e>>
                             \/ \E w \in Workers : pc[w] \in Connected /\ fd[w] = f /\ x = <<"worker", w>>
    BY DEF Owners
  <2>2. \A x, y \in Owners(f) : x = y
    BY <2>1 DEF MainInv, OwnerInv
  <2>3. Owners(f) # {} <=> fds[f] \in Clients
    <3>1. Owners(f) # {} => fds[f] \in Clients
      BY <2>1 DEF OwnerInv
    <3>2. InKqueue(f) \/ InMain(f) => Owners(f) # {}
      BY DEF Owners
    <3>3. InBatch(f) => Owners(f) # {}
      BY DEF Owners
    <3>4. InWorker(f) => Owners(f) # {}
      BY DEF Owners
    <3>5. QED
      BY <3>1, <3>2, <3>3, <3>4 DEF OwnerInv
  <2>4. CASE fds[f] \in Clients
    <3>1. PICK x \in Owners(f) : TRUE
      BY <2>3, <2>4
    <3>2. Owners(f) = {x}
      BY <2>2, <3>1
    <3>3. QED
      BY <2>4, <3>2, FS_Singleton
  <2>5. CASE fds[f] \notin Clients
    <3>1. Owners(f) = {}
      BY <2>3, <2>5
    <3>2. QED
      BY <2>5, <3>1, FS_EmptySet
  <2>6. QED
    BY <2>4, <2>5
<1>2. QED
  BY <1>1, PoolInvariant, PTL

(* A worker serves the client it was started for, although its number may  *)
(* be reused as soon as it is closed, and no two serve the same client.    *)
THEOREM WorkersServeTheirClients == Spec => []NoStrangerServed
<1>1. PoolTypeOK /\ PoolInv => NoStrangerServed
  BY DEF PoolInv, ServeInv, OwnerInv, ConnectionInv, NoStrangerServed
<1>2. QED
  BY <1>1, PoolInvariant, PTL

(* A thread is created only in a slot whose last thread is gone.           *)
THEOREM SlotsAreNotShared == Spec => OneThreadPerSlot
<1> DEFINE Gone == \A w \in Workers : pc'[w] = "recv" /\ pc[w] # "recv" => pc[w] \in {"none", "exited"}
<1>1. PoolTypeOK /\ PoolInv /\ [Next]_vars => [Gone]_vars
  <2> SUFFICES ASSUME PoolTypeOK, SlotInv, Next,
                      NEW w \in Workers, pc'[w] = "recv", pc[w] # "recv"
               PROVE  pc[w] \in {"none", "exited"}
    BY DEF PoolInv
  <2>1. CASE StartWorker
    <3>1. pc' = [pc EXCEPT ![main_i] = "recv"] /\ pc[main_i] \in {"none", "exited"}
      BY <2>1 DEF StartWorker, MainAt, SlotInv
    <3>2. QED
      BY <3>1 DEF PoolTypeOK
  <2>2. CASE UNCHANGED pc
    BY <2>2
  <2>3. ASSUME NEW v \in Workers, Worker(v)
        PROVE  FALSE
    <3>1. \E place \in {"parse", "size", "error", "open", "header", "body", "closefile", "close", "flag",
                        "leave", "exited"} : pc' = [pc EXCEPT ![v] = place] \/ pc' = pc
      BY <2>3 DEF Worker, ReceiveRequest, ParseRequest, ParseFaults, VerifyRequest, SendError, GetFileSize,
         OpenFile, SendHeader, SendFile, CloseFile, CloseConnection, WorkerCleanup, ExitThread, Step, Die
    <3>2. QED
      BY <3>1 DEF PoolTypeOK
  <2>4. ASSUME Main
        PROVE  StartWorker \/ UNCHANGED pc
    BY <2>4 DEF Main, WaitForEvents, NoMoreEvents, Disconnected, AcceptClient, AcceptFails, RunWorker,
       FindFreeWorker, EndScan, JoinWorker, MainFails, Die
  <2>5. ASSUME NEW c \in Clients,
               ConnectToServer(c) \/ SendRequest(c) \/ DeliverRest(c) \/ Client(c) \/ Abort(c)
        PROVE  UNCHANGED pc
    BY <2>5 DEF ConnectToServer, SendRequest, DeliverRest, Client, ReceiveStatus, NoStatus, ReceiveFile,
       EndOfFile, Abort, ServerUnchanged
  <2>6. QED
    BY <2>1, <2>2, <2>3, <2>4, <2>5 DEF Next, Server, RemoveFile, Ended, vars, serverVars
<1>2. QED
  BY <1>1, PoolInvariant, PTL DEF Spec, OneThreadPerSlot

-----------------------------------------------------------------------------
(* What clients are answered.                                              *)

Statuses == {"status"} \X Nat \X Nat
ChunkSet == {"chunk"} \X Names \X Nat

(* A stream is empty, or an error, or a part of a file with its header.    *)
Errors == {400, 403, 404}
Answer(c, s) ==
    \/ s = <<>>
    \/ \E k \in Errors : s = <<<<"status", k, 0>>>>
    \/ \E n \in Names : /\ Kind[n] = "regular"
                        /\ \E m \in 0 .. Size[n] : s = <<Header(n)>> \o Chunks(n, m)

Words == STRING \cup {NULL, "HTTP/1.0 and newline"}
AnswerTypeOK ==
    /\ out \in [Clients -> Seq(Statuses \cup ChunkSet)]
    /\ received \in [Clients -> Seq(ChunkSet)]
    /\ status_code \in [Clients -> Nat] /\ content_length \in [Clients -> Nat]
    /\ tokens \in [Workers -> Seq(Words)] /\ strtok_last \in {<<>>} \cup (Workers \X Clients \X Nat)
    /\ words \in [Workers -> Nat] /\ code \in [Workers -> Nat] /\ file_size \in [Workers -> Nat]
    /\ inbox \in [Clients -> Nat] /\ closed \subseteq Clients /\ disk \in [Names -> Kinds]

(* What the place of a client says of its variables.                       *)
ClientInv == \A c \in Clients :
    /\ cpc[c] \in {"start", "send", "header"} => status_code[c] = 0 /\ received[c] = <<>>
    /\ status_code[c] = 0 => received[c] = <<>>
    /\ cpc[c] \in {"body", "saved"} => status_code[c] = 200
    /\ cpc[c] = "saved" => Complete(c)

(* A connection that was closed does not come back.                        *)
ClosedInv ==
    /\ \A f \in Fds : fds[f] \notin closed
    /\ \A i \in DOMAIN queue : queue[i] \notin closed
    /\ \A c \in Clients : cpc[c] = "start" => c \notin closed

(* A worker that has not answered yet serves a client with an empty stream;*)
(* so has a client that is not served yet.                                 *)
Served(c) == \E w \in Workers : pc[w] \in Connected /\ client[w] = c
Unanswered == {"recv", "parse", "error", "size", "open", "header"}
StreamInv ==
    /\ \A c \in Clients : Answer(c, Stream(c))
    /\ \A c \in Clients : c \notin closed /\ ~Served(c) => Stream(c) = <<>>
    /\ \A w \in Workers : pc[w] \in Unanswered => Stream(client[w]) = <<>>
    /\ \A w \in Workers : pc[w] = "body" => Stream(client[w]) = <<Header(tokens[w][2])>>

(* A worker past the verification serves a file of the disk, and sends it  *)
(* only when it could be opened.                                           *)
Serving == {"size", "open", "header", "body"}
Chosen(w) ==
    /\ tokens[w][2] \in Names
    /\ Kind[tokens[w][2]] \in {"regular", "locked"}
    /\ pc[w] \in {"header", "body"} => Kind[tokens[w][2]] = "regular"
    /\ pc[w] # "size" => file_size[w] = Size[tokens[w][2]]
TokensOK(w) ==
    /\ pc[w] = "recv" => tokens[w] = <<>>
    /\ pc[w] = "error" => code[w] \in Errors
    /\ pc[w] \in Serving => Chosen(w)

DiskInv == \A n \in Names : disk[n] = Kind[n] \/ (n \in Volatile /\ disk[n] = "missing")
RequestInv == DiskInv /\ \A w \in Workers : TokensOK(w)

(* The message that is taken from one part of a stream goes to the next.   *)
LEMMA TakeOne ==
    ASSUME NEW S, NEW t \in Seq(S), NEW r \in Seq(S), NEW o \in Seq(S), o # <<>>,
           NEW r2, r2 = Append(r, Head(o)), NEW o2, o2 = Tail(o)
    PROVE  (t \o r2) \o o2 = (t \o r) \o o
<1>1. Tail(o) \in Seq(S) /\ Head(o) \in S /\ Len(Tail(o)) = Len(o) - 1
      /\ \A i \in 1 .. Len(Tail(o)) : Tail(o)[i] = o[i + 1]
  BY HeadTailProperties
<1>2. <<Head(o)>> \in Seq(S) /\ Append(r, Head(o)) = r \o <<Head(o)>>
  BY <1>1
<1>3. <<Head(o)>> \o Tail(o) = o
  <2> DEFINE h == <<Head(o)>>
  <2>1. h \o Tail(o) \in Seq(S) /\ Len(h \o Tail(o)) = 1 + (Len(o) - 1)
    BY <1>1, <1>2, ConcatProperties
  <2>2. Len(h \o Tail(o)) = Len(o) /\ Len(o) \in Nat /\ Len(o) >= 1
    BY <2>1, EmptySeq
  <2>3. ASSUME NEW i \in 1 .. Len(o)
        PROVE  (h \o Tail(o))[i] = o[i]
    <3>1. (h \o Tail(o))[i] = IF i <= 1 THEN h[i] ELSE Tail(o)[i - 1]
      BY <1>1, <1>2, <2>1, <2>2, ConcatProperties
    <3>2. i = 1 \/ (i - 1 \in 1 .. Len(Tail(o)) /\ ~(i <= 1))
      BY <1>1, <2>2
    <3>3. CASE i = 1
      BY <3>1, <3>3
    <3>4. CASE i - 1 \in 1 .. Len(Tail(o)) /\ ~(i <= 1)
      BY <1>1, <3>1, <3>4
    <3>5. QED
      BY <3>2, <3>3, <3>4
  <2> HIDE DEF h
  <2>4. h \o Tail(o) = o
    BY <2>1, <2>2, <2>3, SeqEqual
  <2>5. QED
    BY <2>4 DEF h
<1>4. t \o (r \o <<Head(o)>>) = (t \o r) \o <<Head(o)>>
  BY ONLY t \in Seq(S), r \in Seq(S), <1>2, ConcatAssociative
<1>5. ((t \o r) \o <<Head(o)>>) \o Tail(o) = (t \o r) \o (<<Head(o)>> \o Tail(o))
  <2>1. t \o r \in Seq(S)
    BY ConcatProperties
  <2>2. QED
    BY ONLY <1>1, <1>2, <2>1, ConcatAssociative
<1>6. (t \o Append(r, Head(o))) \o Tail(o) = (t \o r) \o o
  BY <1>2, <1>3, <1>4, <1>5
<1>7. QED
  BY <1>6

(* What is first in an answer, and what follows.                           *)
LEMMA AnswerShape ==
    ASSUME NEW c \in Clients, NEW s \in Seq(Statuses \cup ChunkSet), s # <<>>, Answer(c, s)
    PROVE  \/ \E k \in Errors : Len(s) = 1 /\ s[1] = <<"status", k, 0>>
           \/ \E n \in Names : /\ Kind[n] = "regular"
                               /\ \E m \in 0 .. Size[n] :
                                     /\ Len(s) = m + 1 /\ s[1] = Header(n)
                                     /\ \A i \in 1 .. m : s[i + 1] = <<"chunk", n, i>>
<1>1. CASE \E k \in Errors : s = <<<<"status", k, 0>>>>
  BY <1>1
<1>2. ASSUME NEW n \in Names, Kind[n] = "regular",
             NEW m \in 0 .. Size[n], s = <<Header(n)>> \o Chunks(n, m)
      PROVE  Len(s) = m + 1 /\ s[1] = Header(n) /\ \A i \in 1 .. m : s[i + 1] = <<"chunk", n, i>>
  <2>0. m \in Nat /\ Size[n] \in Nat
    BY KindAssumption
  <2> DEFINE h == <<Header(n)>>
             b == Chunks(n, m)
             S == Statuses \cup ChunkSet
  <2>1. h \in Seq(S) /\ Len(h) = 1 /\ h[1] = Header(n)
    BY <2>0 DEF Header, Statuses
  <2>2. b \in Seq(S) /\ Len(b) = m /\ \A i \in 1 .. m : b[i] = <<"chunk", n, i>>
    <3>1. \A i \in 1 .. m : <<"chunk", n, i>> \in S
      BY <2>0 DEF ChunkSet
    <3>2. QED
      BY <2>0, <3>1 DEF Chunks
  <2> HIDE DEF h, b, S
  <2>3. /\ Len(h \o b) = Len(h) + Len(b)
        /\ \A i \in 1 .. Len(h) + Len(b) : (h \o b)[i] = IF i <= Len(h) THEN h[i] ELSE b[i - Len(h)]
    BY ONLY <2>1, <2>2, ConcatProperties
  <2>4. s = h \o b
    BY <1>2 DEF h, b
  <2>5. ASSUME NEW i \in 1 .. m
        PROVE  s[i + 1] = <<"chunk", n, i>>
    <3>1. i + 1 \in 1 .. 1 + m /\ ~(i + 1 <= 1) /\ (i + 1) - 1 = i
      BY <2>0
    <3>2. QED
      BY <2>1, <2>2, <2>3, <2>4, <3>1
  <2>6. s[1] = Header(n)
    <3>1. 1 \in 1 .. 1 + m
      BY <2>0
    <3>2. QED
      BY <2>1, <2>2, <2>3, <2>4, <3>1
  <2>7. QED
    BY <2>0, <2>1, <2>2, <2>3, <2>4, <2>5, <2>6
<1>3. QED
  BY <1>1, <1>2 DEF Answer

(* A client takes the status line.                                         *)
LEMMA StatusStep ==
    ASSUME AnswerTypeOK, ClientInv, StreamInv, PoolTypeOK, NEW c \in Clients, ReceiveStatus(c)
    PROVE  AnswerTypeOK' /\ ClientInv' /\ \A d \in Clients : Stream(d)' = Stream(d)
<1> DEFINE line == Head(out[c])
           S == Statuses \cup ChunkSet
<1>1. status_code[c] = 0 /\ received[c] = <<>> /\ out[c] # <<>>
  BY DEF ReceiveStatus, ClientInv
<1>2. out[c] \in Seq(S)
  BY DEF AnswerTypeOK
<1>3. line \in S /\ Tail(out[c]) \in Seq(S)
  BY <1>1, <1>2
<1> HIDE DEF S
<1>4. Stream(c) = out[c]
  <2>1. <<>> \o <<>> = <<>> /\ <<>> \o out[c] = out[c]
    BY <1>2
  <2>2. QED
    BY <1>1, <2>1 DEF Stream, Told
<1>5. \E k \in {200, 400, 403, 404}, l \in Nat : out[c][1] = <<"status", k, l>>
  <2>1. Answer(c, out[c])
    BY <1>4 DEF StreamInv
  <2>2. \A k \in Errors : k \in {400, 403, 404}
    BY DEF Errors
  <2>3. \A n \in Names : Size[n] \in Nat /\ Header(n) = <<"status", 200, Size[n]>>
    BY KindAssumption DEF Header
  <2>4. \/ \E k \in Errors : out[c][1] = <<"status", k, 0>>
        \/ \E n \in Names : out[c][1] = Header(n)
    BY <1>1, <1>2, <2>1, AnswerShape DEF S
  <2>5. CASE \E k \in Errors : out[c][1] = <<"status", k, 0>>
    <3>1. PICK k \in Errors : out[c][1] = <<"status", k, 0>>
      BY <2>5
    <3>2. k \in {200, 400, 403, 404} /\ 0 \in Nat
      BY <2>2
    <3>3. QED
      BY <3>1, <3>2
  <2>6. CASE \E n \in Names : out[c][1] = Header(n)
    BY <2>3, <2>6
  <2>7. QED
    BY <2>4, <2>5, <2>6
<1>6. line = out[c][1]
  BY <1>1, <1>2
<1> HIDE DEF line
<1>7. PICK k \in {200, 400, 403, 404}, l \in Nat : line = <<"status", k, l>>
  BY <1>5, <1>6
<1>8. /\ status_code' = [status_code EXCEPT ![c] = k] /\ content_length' = [content_length EXCEPT ![c] = l]
      /\ out' = [out EXCEPT ![c] = Tail(@)]
      /\ UNCHANGED <<inbox, closed, received, tokens, words, code, file_size, disk, strtok_last>>
      /\ cpc' = [cpc EXCEPT ![c] = IF k = 200 THEN "body" ELSE "failed"]
  <2>1. /\ status_code' = [status_code EXCEPT ![c] = line[2]]
        /\ content_length' = [content_length EXCEPT ![c] = line[3]]
        /\ cpc' = [cpc EXCEPT ![c] = IF line[2] = 200 THEN "body" ELSE "failed"]
    BY DEF ReceiveStatus, Finish, line
  <2>2. /\ out' = [out EXCEPT ![c] = Tail(@)]
        /\ UNCHANGED <<inbox, closed, received, tokens, words, code, file_size, disk, strtok_last>>
    BY DEF ReceiveStatus, ServerUnchanged, kernelVars, ownVars
  <2>3. line[2] = k /\ line[3] = l
    BY <1>7
  <2>4. QED
    BY <2>1, <2>2, <2>3
<1>9. AnswerTypeOK'
  BY <1>3, <1>8 DEF AnswerTypeOK, S
<1>10. ClientInv'
  BY <1>1, <1>8 DEF ClientInv, AnswerTypeOK, PoolTypeOK, Complete
<1>11. Stream(c)' = Stream(c)
  <2>1. /\ Told(c)' = <<line>> /\ received'[c] = <<>> /\ out'[c] = Tail(out[c])
    BY <1>1, <1>7, <1>8 DEF Told, AnswerTypeOK
  <2>2. <<>> \in Seq(S) /\ Append(<<>>, line) = <<line>> /\ <<>> \o <<>> = <<>> /\ <<>> \o out[c] = out[c]
        /\ <<line>> \o <<>> = <<line>>
    BY <1>2, <1>3
  <2>3. (<<>> \o Append(<<>>, Head(out[c]))) \o Tail(out[c]) = (<<>> \o <<>>) \o out[c]
    BY <1>1, <1>2, <2>2, TakeOne
  <2>4. <<>> \o <<line>> = <<line>>
    BY <1>3
  <2>5. QED
    BY <1>4, <2>1, <2>2, <2>3, <2>4 DEF Stream, line
<1>12. ASSUME NEW d \in Clients, d # c
       PROVE  Stream(d)' = Stream(d)
  BY <1>8, <1>12 DEF Stream, Told, AnswerTypeOK
<1>13. QED
  BY <1>9, <1>10, <1>11, <1>12

(* What follows the first part of a sequence.                              *)
LEMMA NextPart ==
    ASSUME NEW S, NEW a \in Seq(S), NEW o \in Seq(S), o # <<>>
    PROVE  a \o o \in Seq(S) /\ Len(a \o o) >= Len(a) + 1 /\ (a \o o)[Len(a) + 1] = Head(o)
<1>1. Len(a) \in Nat /\ Len(o) \in Nat /\ Len(o) >= 1 /\ Head(o) = o[1]
  BY EmptySeq
<1>2. /\ a \o o \in Seq(S) /\ Len(a \o o) = Len(a) + Len(o)
      /\ \A i \in 1 .. Len(a) + Len(o) : (a \o o)[i] = IF i <= Len(a) THEN a[i] ELSE o[i - Len(a)]
  BY ConcatProperties
<1>3. Len(a) + 1 \in 1 .. Len(a) + Len(o) /\ ~(Len(a) + 1 <= Len(a)) /\ (Len(a) + 1) - Len(a) = 1
  BY <1>1
<1>4. QED
  BY <1>1, <1>2, <1>3

(* A client takes a part of the file.                                      *)
LEMMA FileStep ==
    ASSUME AnswerTypeOK, ClientInv, StreamInv, PoolTypeOK, NEW c \in Clients, ReceiveFile(c)
    PROVE  AnswerTypeOK' /\ ClientInv' /\ \A d \in Clients : Stream(d)' = Stream(d)
<1> DEFINE S == Statuses \cup ChunkSet
           told == <<<<"status", status_code[c], content_length[c]>>>>
<1>1. status_code[c] = 200 /\ out[c] # <<>>
  BY DEF ReceiveFile, ClientInv
<1>2. out[c] \in Seq(S) /\ received[c] \in Seq(ChunkSet) /\ received[c] \in Seq(S)
  BY DEF AnswerTypeOK
<1>3. told \in Seq(S) /\ Len(told) = 1
  BY DEF AnswerTypeOK, Statuses
<1>4. Stream(c) = (told \o received[c]) \o out[c]
  BY <1>1 DEF Stream, Told
<1> HIDE DEF S, told
<1>5. Head(out[c]) \in ChunkSet
  <2> DEFINE a == told \o received[c]
             s == Stream(c)
             n == Len(a)
  <2>1. a \in Seq(S) /\ Len(a) = Len(told) + Len(received[c]) /\ Len(received[c]) \in Nat
    BY ONLY <1>2, <1>3, ConcatProperties, LenProperties
  <2>2. n \in Nat /\ n >= 1
    BY ONLY <1>3, <2>1
  <2>3. s = a \o out[c]
    BY <1>4
  <2> HIDE DEF a, s
  <2>4. s \in Seq(S) /\ Len(s) >= n + 1 /\ s[n + 1] = Head(out[c])
    BY ONLY <1>1, <1>2, <2>1, <2>3, NextPart
  <2> HIDE DEF n
  <2>5. s # <<>> /\ Len(s) # 1 /\ Len(s) \in Nat
    BY ONLY <2>2, <2>4, EmptySeq, LenProperties
  <2>6. Answer(c, s)
    BY DEF StreamInv, s
  <2>7. \E f \in Names : \E m \in 0 .. Size[f] : Len(s) = m + 1 /\ \A i \in 1 .. m : s[i + 1] = <<"chunk", f, i>>
    BY <2>4, <2>5, <2>6, AnswerShape DEF S
  <2>8. PICK f \in Names, m \in Int : Len(s) = m + 1 /\ \A i \in 1 .. m : s[i + 1] = <<"chunk", f, i>>
    <3>1. \A f \in Names : 0 .. Size[f] \subseteq Int
      BY KindAssumption
    <3>2. QED
      BY <2>7, <3>1
  <2>9. n \in 1 .. m
    BY <2>2, <2>4, <2>8
  <2>10. s[n + 1] = <<"chunk", f, n>>
    BY <2>8, <2>9
  <2>11. <<"chunk", f, n>> \in ChunkSet
    BY ONLY <2>2, f \in Names DEF ChunkSet
  <2>12. QED
    BY ONLY <2>4, <2>10, <2>11
<1>6. /\ received' = [received EXCEPT ![c] = Append(@, Head(out[c]))]
      /\ out' = [out EXCEPT ![c] = Tail(@)]
      /\ UNCHANGED <<inbox, closed, cpc, status_code, content_length,
                  tokens, words, code, file_size, disk, strtok_last>>
  BY DEF ReceiveFile, ServerUnchanged, kernelVars, ownVars
<1>7. Append(received[c], Head(out[c])) \in Seq(ChunkSet) /\ Tail(out[c]) \in Seq(S)
  BY <1>1, <1>2, <1>5
<1>8. AnswerTypeOK'
  BY <1>6, <1>7 DEF AnswerTypeOK, S
<1>9. ClientInv'
  <2>1. cpc[c] = "body"
    BY DEF ReceiveFile
  <2>2. QED
    BY <1>1, <1>6, <2>1 DEF ClientInv, AnswerTypeOK, PoolTypeOK, Complete
<1>10. Stream(c)' = Stream(c)
  <2>1. Told(c)' = told /\ received'[c] = Append(received[c], Head(out[c])) /\ out'[c] = Tail(out[c])
    BY <1>1, <1>6 DEF Told, AnswerTypeOK, told
  <2>2. (told \o Append(received[c], Head(out[c]))) \o Tail(out[c]) = (told \o received[c]) \o out[c]
    <3>1. ASSUME NEW t \in Seq(S), NEW r \in Seq(S), NEW o \in Seq(S), o # <<>>
          PROVE  (t \o Append(r, Head(o))) \o Tail(o) = (t \o r) \o o
      BY <3>1, TakeOne
    <3>2. out[c] # <<>> /\ told \in Seq(S) /\ received[c] \in Seq(S) /\ out[c] \in Seq(S)
      BY <1>1, <1>2, <1>3
    <3>3. QED
      BY ONLY <3>1, <3>2
  <2>3. QED
    BY <1>4, <2>1, <2>2 DEF Stream
<1>11. ASSUME NEW d \in Clients, d # c
       PROVE  Stream(d)' = Stream(d)
  BY <1>6, <1>11 DEF Stream, Told, AnswerTypeOK
<1>12. QED
  BY <1>8, <1>9, <1>10, <1>11

(* Streams depend on what was sent and on what the clients have parsed.    *)
LEMMA StreamsStay ==
    ASSUME UNCHANGED <<status_code, content_length, received, out>>
    PROVE  \A d \in Clients : Stream(d)' = Stream(d)
BY DEF Stream, Told

(* No step of a client changes what it has been sent.                      *)
LEMMA ClientStep ==
    ASSUME AnswerTypeOK, ClientInv, StreamInv, PoolTypeOK, NEW c \in Clients,
           ConnectToServer(c) \/ SendRequest(c) \/ DeliverRest(c) \/ Client(c) \/ Abort(c)
    PROVE  AnswerTypeOK' /\ ClientInv' /\ \A d \in Clients : Stream(d)' = Stream(d)
<1> DEFINE Quiet == /\ UNCHANGED <<status_code, content_length, received, out>>
                    /\ UNCHANGED <<closed, tokens, words, code, file_size, disk, strtok_last>>
                    /\ inbox' \in [Clients -> Nat]
<1> USE DEF ServerUnchanged, kernelVars, ownVars, Finish
<1>1. ASSUME Quiet
      PROVE  AnswerTypeOK' /\ \A d \in Clients : Stream(d)' = Stream(d)
  <2>1. AnswerTypeOK'
    BY <1>1 DEF AnswerTypeOK
  <2>2. QED
    BY <1>1, <2>1, StreamsStay
<1>2. ASSUME UNCHANGED <<status_code, content_length, received>>,
             \E place \in ClientPlaces : /\ cpc' = [cpc EXCEPT ![c] = place]
                                         /\ place \in {"body", "start"} => place = cpc[c]
                                         /\ place \in {"send", "header"} => cpc[c] \in {"start", "send"}
                                         /\ place = "saved" => cpc[c] = "body" /\ Complete(c)
      PROVE  ClientInv'
  <2>1. PICK place \in ClientPlaces : /\ cpc' = [cpc EXCEPT ![c] = place]
                                      /\ place \in {"body", "start"} => place = cpc[c]
                                      /\ place \in {"send", "header"} => cpc[c] \in {"start", "send"}
                                      /\ place = "saved" => cpc[c] = "body" /\ Complete(c)
    BY <1>2
  <2>2. ASSUME NEW d \in Clients
        PROVE  /\ cpc'[d] \in {"start", "send", "header"} => status_code[d] = 0 /\ received[d] = <<>>
               /\ cpc'[d] \in {"body", "saved"} => status_code[d] = 200
               /\ cpc'[d] = "saved" => Complete(d)
    BY <2>1 DEF ClientInv, PoolTypeOK
  <2>3. \A d \in Clients : status_code[d] = 0 => received[d] = <<>>
    BY DEF ClientInv
  <2>4. QED
    BY <1>2, <2>2, <2>3 DEF ClientInv, Complete
<1>3. CASE ConnectToServer(c)
  <2>1. Quiet
    BY <1>3 DEF ConnectToServer, AnswerTypeOK
  <2>2. \E place \in {"send", "failed"} : cpc' = [cpc EXCEPT ![c] = place]
    BY <1>3 DEF ConnectToServer
  <2>3. cpc[c] = "start"
    BY <1>3 DEF ConnectToServer
  <2>4. QED
    BY <1>1, <1>2, <2>1, <2>2, <2>3 DEF ClientPlaces
<1>4. CASE SendRequest(c)
  <2>1. received' = received
    BY <1>4 DEF SendRequest, ClientInv, AnswerTypeOK
  <2>2. inbox' \in [Clients -> Nat]
    <3>1. Len(Request[c]) \in Nat /\ 2 \in Nat
      BY RequestAssumption
    <3>2. QED
      BY <1>4, <3>1 DEF SendRequest, AnswerTypeOK
  <2>3. Quiet /\ cpc' = [cpc EXCEPT ![c] = "header"] /\ cpc[c] = "send"
    BY <1>4, <2>1, <2>2 DEF SendRequest
  <2>4. QED
    BY <1>1, <1>2, <2>3 DEF ClientPlaces
<1>5. CASE DeliverRest(c)
  <2>1. Quiet /\ cpc' = cpc
    BY <1>5 DEF DeliverRest, clientVars, AnswerTypeOK
  <2>2. ClientInv'
    BY <2>1 DEF ClientInv, Complete
  <2>3. QED
    BY <1>1, <2>1, <2>2
<1>6. CASE NoStatus(c)
  <2>1. Quiet /\ cpc' = [cpc EXCEPT ![c] = "crashed"]
    BY <1>6 DEF NoStatus, AnswerTypeOK
  <2>2. QED
    BY <1>1, <1>2, <2>1 DEF ClientPlaces
<1>7. CASE EndOfFile(c)
  <2>1. Quiet /\ cpc[c] = "body"
    BY <1>7 DEF EndOfFile, AnswerTypeOK
  <2>2. \E place \in {"saved", "failed"} : cpc' = [cpc EXCEPT ![c] = place] /\ (place = "saved" => Complete(c))
    BY <1>7 DEF EndOfFile
  <2>3. QED
    BY <1>1, <1>2, <2>1, <2>2 DEF ClientPlaces
<1>8. CASE Abort(c)
  <2>1. inbox' \in [Clients -> Nat]
    <3>1. inbox' = inbox \/ inbox' = [inbox EXCEPT ![c] = 0]
      BY <1>8 DEF Abort
    <3>2. inbox \in [Clients -> Nat] /\ [inbox EXCEPT ![c] = 0] \in [Clients -> Nat]
      BY DEF AnswerTypeOK
    <3>3. QED
      BY <3>1, <3>2
  <2>2. /\ UNCHANGED <<status_code, content_length, received, out, closed, tokens, words, code, file_size, disk, strtok_last>>
        /\ cpc' = [cpc EXCEPT ![c] = "aborted"]
    BY <1>8 DEF Abort
  <2>3. QED
    BY <1>1, <1>2, <2>1, <2>2 DEF ClientPlaces
<1>9. QED
  BY <1>3, <1>4, <1>5, <1>6, <1>7, <1>8, StatusStep, FileStep DEF Client

-----------------------------------------------------------------------------
(* The steps of the server.                                                *)

AnswerInv == AnswerTypeOK /\ ClientInv /\ ClosedInv /\ StreamInv /\ RequestInv

(* What the invariant speaks of.                                           *)
answerVars == <<clientVars, out, closed, tokens, words, code, file_size, inbox, disk, strtok_last,
                queue, fds, pc, client, file_fd>>

(* Only three steps of the main thread concern it.                         *)
LEMMA MainSteps ==
    ASSUME Main, UNCHANGED clientVars
    PROVE  \/ UNCHANGED answerVars
           \/ StartWorker
           \/ \E e \in events : Disconnected(e) \/ AcceptClient(e)
<1> USE DEF answerVars, netVars, kernelVars, mainVars, slotVars, ownVars
<1>1. CASE WaitForEvents
  BY <1>1 DEF WaitForEvents
<1>2. CASE NoMoreEvents \/ FindFreeWorker \/ EndScan \/ JoinWorker
  BY <1>2 DEF NoMoreEvents, FindFreeWorker, EndScan, JoinWorker
<1>3. CASE MainFails \/ \E e \in events : AcceptFails(e)
  BY <1>3 DEF MainFails, AcceptFails, Die
<1>4. ASSUME NEW e \in events, RunWorker(e)
      PROVE  UNCHANGED answerVars
  BY <1>4 DEF RunWorker
<1>5. QED
  BY <1>1, <1>2, <1>3, <1>4 DEF Main

(* Who is connected, and to whom.                                          *)
LEMMA OneClientEach ==
    ASSUME PoolTypeOK, PoolInv
    PROVE  /\ \A w \in Workers : pc[w] \in Connected =>
                 /\ client[w] \in Clients /\ fd[w] \in Fds /\ fds[fd[w]] = client[w]
           /\ \A v, w \in Workers : pc[v] \in Connected /\ pc[w] \in Connected /\ client[v] = client[w] => v = w
BY DEF PoolInv, ServeInv, OwnerInv, ConnectionInv

(* No step brings a closed connection back.                                *)
LEMMA ClosedStep ==
    ASSUME PoolTypeOK, PoolInv, closed \subseteq Clients, ClosedInv, [Next]_vars
    PROVE  ClosedInv'
<1> USE DEF netVars, kernelVars, ServerUnchanged
<1>0. Free \notin Clients /\ AFile \notin Clients /\ sfd \notin Fds
  BY ClientsAssumption, BoundsAssumption DEF Fds, sfd
<1>1. CASE UNCHANGED <<closed, fds, queue, cpc>>
  BY <1>1 DEF ClosedInv
<1>2. ASSUME NEW f \in Fds, fds' = [fds EXCEPT ![f] = Free], closed' = closed \cup ({fds[f]} \cap Clients),
             UNCHANGED <<queue, cpc>>
      PROVE  ClosedInv'
  <2>1. \A g \in Fds : fds'[g] = IF g = f THEN Free ELSE fds[g]
    BY <1>2 DEF PoolTypeOK
  <2>2. \A g \in Fds : fds'[g] \notin closed'
    BY <1>0, <1>2, <2>1 DEF ClosedInv, PoolInv, ConnectionInv
  <2>3. \A i \in DOMAIN queue : queue[i] \notin closed'
    BY <1>2 DEF ClosedInv, PoolInv, ConnectionInv
  <2>4. \A c \in Clients : cpc[c] = "start" => c \notin closed'
    BY <1>2 DEF ClosedInv, PoolInv, ConnectionInv
  <2>5. QED
    BY <1>2, <2>2, <2>3, <2>4 DEF ClosedInv
<1>3. ASSUME Main, UNCHANGED clientVars
      PROVE  ClosedInv'
  <2>1. CASE UNCHANGED answerVars \/ StartWorker
    BY <1>1, <1>3, <2>1 DEF answerVars, clientVars, StartWorker
  <2>2. ASSUME NEW e \in events, Disconnected(e)
        PROVE  ClosedInv'
    <3>1. e.fd \in Fds
      BY <1>0, <2>2 DEF Disconnected, PoolTypeOK, PoolInv, MainInv
    <3>2. QED
      BY <1>2, <1>3, <2>2, <3>1 DEF Disconnected, clientVars
  <2>3. ASSUME NEW e \in events, AcceptClient(e)
        PROVE  ClosedInv'
    <3>1. Head(queue) \notin closed /\ \A i \in DOMAIN Tail(queue) : Tail(queue)[i] \notin closed
      BY <2>3 DEF AcceptClient, ClosedInv, PoolTypeOK
    <3>2. LowestFree \in Fds
      BY <2>3, LowestFreeIsFree DEF AcceptClient
    <3>3. \A g \in Fds : fds'[g] \notin closed
      BY <2>3, <3>1, <3>2 DEF AcceptClient, ClosedInv, PoolTypeOK
    <3>4. QED
      BY <1>3, <2>3, <3>1, <3>3 DEF AcceptClient, ClosedInv, clientVars
  <2>4. QED
    BY <1>3, <2>1, <2>2, <2>3, MainSteps
<1>4. ASSUME NEW w \in Workers, Worker(w), UNCHANGED clientVars
      PROVE  ClosedInv'
  <2>1. CASE OpenFile(w)
    <3>1. \A g \in Fds : fds'[g] = fds[g] \/ fds'[g] = AFile
      <4>1. fds' = fds \/ (LowestFree \in Fds /\ fds' = [fds EXCEPT ![LowestFree] = AFile])
        BY <2>1, LowestFreeIsFree DEF OpenFile
      <4>2. QED
        BY <4>1 DEF PoolTypeOK
    <3>2. QED
      BY <1>0, <1>4, <2>1, <3>1 DEF OpenFile, ClosedInv, clientVars
  <2>2. CASE CloseFile(w)
    <3>1. file_fd[w] \in Fds /\ fds[file_fd[w]] = AFile
      BY <2>2 DEF CloseFile, At, PoolInv, ServeInv, Sending
    <3>2. {fds[file_fd[w]]} \cap Clients = {}
      BY <1>0, <3>1
    <3>3. QED
      BY <1>2, <1>4, <2>2, <3>1, <3>2 DEF CloseFile, clientVars
  <2>3. CASE CloseConnection(w)
    <3>1. fd[w] \in Fds
      BY <2>3, OneClientEach DEF CloseConnection, At, Connected
    <3>2. QED
      BY <1>2, <1>4, <2>3, <3>1 DEF CloseConnection, clientVars
  <2>4. CASE ReceiveRequest(w) \/ ParseRequest(w) \/ ParseFaults(w) \/ VerifyRequest(w)
    BY <1>1, <1>4, <2>4 DEF ReceiveRequest, ParseRequest, ParseFaults, VerifyRequest, Die, clientVars
  <2>5. CASE SendError(w) \/ GetFileSize(w) \/ SendHeader(w) \/ SendFile(w) \/ WorkerCleanup(w) \/ ExitThread(w)
    BY <1>1, <1>4, <2>5 DEF SendError, GetFileSize, SendHeader, SendFile, WorkerCleanup, ExitThread, clientVars
  <2>6. QED
    BY <1>4, <2>1, <2>2, <2>3, <2>4, <2>5 DEF Worker
<1>5. ASSUME NEW c \in Clients, ConnectToServer(c)
      PROVE  ClosedInv'
  <2>1. c \notin closed
    BY <1>5 DEF ConnectToServer, ClosedInv
  <2>2. \A i \in DOMAIN queue' : queue'[i] \notin closed
    <3>1. queue' = queue \/ queue' = Append(queue, c)
      BY <1>5 DEF ConnectToServer
    <3>2. queue \in Seq(Clients)
      BY DEF PoolTypeOK
    <3>3. \A i \in DOMAIN Append(queue, c) : Append(queue, c)[i] = c \/ \E j \in DOMAIN queue : Append(queue, c)[i] = queue[j]
      BY <3>2
    <3>4. QED
      BY <2>1, <3>1, <3>3 DEF ClosedInv
  <2>3. \A d \in Clients : cpc'[d] = "start" => cpc[d] = "start"
    BY <1>5 DEF ConnectToServer, Finish, PoolTypeOK
  <2>4. QED
    BY <1>5, <2>2, <2>3 DEF ConnectToServer, ClosedInv
<1>6. ASSUME NEW c \in Clients, SendRequest(c) \/ DeliverRest(c) \/ Client(c) \/ Abort(c)
      PROVE  ClosedInv'
  <2>1. UNCHANGED <<closed, fds>>
    BY <1>6 DEF SendRequest, DeliverRest, Client, ReceiveStatus, NoStatus, ReceiveFile, EndOfFile, Abort
  <2>2. CASE cpc' = cpc /\ queue' = queue
    BY <1>1, <2>1, <2>2
  <2>3. CASE ClientMoves(c)
    <3>1. \A d \in Clients : cpc'[d] = "start" => cpc[d] = "start"
      BY <2>3 DEF ClientMoves, PoolTypeOK
    <3>2. \A i \in DOMAIN queue' : queue'[i] \notin closed
      <4>1. CASE queue' = queue
        BY <4>1 DEF ClosedInv
      <4>2. CASE \E i \in DOMAIN queue : queue' = RemoveAt(queue, i)
        <5>1. PICK i \in DOMAIN queue : queue' = RemoveAt(queue, i)
          BY <4>2
        <5>2. queue \in Seq(Clients)
          BY DEF PoolTypeOK
        <5>3. /\ RemoveAt(queue, i) \in Seq(Clients) /\ Len(RemoveAt(queue, i)) = Len(queue) - 1
              /\ \A k \in 1 .. Len(queue) - 1 : RemoveAt(queue, i)[k] = IF k < i THEN queue[k] ELSE queue[k + 1]
          BY <5>1, <5>2, RemoveAtProperties
        <5>4. ASSUME NEW k \in 1 .. Len(queue) - 1
              PROVE  \E j \in DOMAIN queue : RemoveAt(queue, i)[k] = queue[j]
          BY <5>2, <5>3
        <5>5. DOMAIN queue' = 1 .. Len(queue) - 1
          BY <5>1, <5>3
        <5>6. QED
          BY <5>1, <5>4, <5>5 DEF ClosedInv
      <4>3. QED
        BY <2>3, <4>1, <4>2 DEF ClientMoves
    <3>3. QED
      BY <2>1, <3>1, <3>2 DEF ClosedInv
  <2>4. ClientMoves(c) \/ UNCHANGED <<cpc, queue>>
    BY <1>6, ClientStepMoves DEF poolVars
  <2>5. QED
    BY <2>2, <2>3, <2>4
<1>7. QED
  <2>1. CASE UNCHANGED vars
    BY <1>1, <2>1 DEF vars, serverVars, clientVars
  <2>2. CASE \E n \in Names : RemoveFile(n)
    BY <1>1, <2>2 DEF RemoveFile, clientVars
  <2>3. QED
    BY <1>3, <1>4, <1>5, <1>6, <2>1, <2>2 DEF Next, Server, Ended

(* A worker sends a part of the answer to its client.                      *)
LEMMA Sent ==
    ASSUME AnswerTypeOK, UNCHANGED clientVars, NEW c \in Clients, NEW s \in Seq(Statuses \cup ChunkSet),
           out' = [out EXCEPT ![c] = @ \o s]
    PROVE  /\ out' \in [Clients -> Seq(Statuses \cup ChunkSet)]
           /\ Stream(c) \in Seq(Statuses \cup ChunkSet)
           /\ Stream(c)' = Stream(c) \o s
           /\ \A d \in Clients : d # c => Stream(d)' = Stream(d)
<1> DEFINE S == Statuses \cup ChunkSet
           a == Told(c) \o received[c]
<1>1. out[c] \in Seq(S) /\ received[c] \in Seq(S) /\ s \in Seq(S)
  BY DEF AnswerTypeOK
<1>2. Told(c) \in Seq(S) /\ Told(c)' = Told(c)
  <2>1. <<"status", status_code[c], content_length[c]>> \in S
    BY DEF AnswerTypeOK, Statuses
  <2>2. Told(c) = <<>> \/ Told(c) = <<<<"status", status_code[c], content_length[c]>>>>
    BY DEF Told
  <2> HIDE DEF S
  <2>3. Told(c) \in Seq(S)
    <3>1. <<>> \in Seq(S) /\ \A x \in S : <<x>> \in Seq(S)
      OBVIOUS
    <3>2. QED
      BY ONLY <2>1, <2>2, <3>1
  <2>4. QED
    BY <2>3 DEF Told, clientVars
<1> HIDE DEF S
<1>3. a \in Seq(S)
  BY <1>1, <1>2, ConcatProperties
<1>4. Stream(c) = a \o out[c] /\ received' = received
  BY DEF Stream, clientVars
<1>5. out'[c] = out[c] \o s
  BY DEF AnswerTypeOK
<1>6. Stream(c)' = a \o (out[c] \o s)
  BY <1>2, <1>4, <1>5 DEF Stream
<1> HIDE DEF a
<1>7. (a \o out[c]) \o s = a \o (out[c] \o s)
  <2>1. ASSUME NEW x \in Seq(S), NEW y \in Seq(S), NEW z \in Seq(S)
        PROVE  (x \o y) \o z = x \o (y \o z)
    BY ConcatAssociative
  <2>2. QED
    BY ONLY <1>1, <1>3, <2>1
<1>8. a \o out[c] \in Seq(S) /\ out[c] \o s \in Seq(S)
  BY <1>1, <1>3, ConcatProperties
<1>9. out' \in [Clients -> Seq(S)]
  BY <1>8 DEF AnswerTypeOK, S
<1>10. \A d \in Clients : d # c => Stream(d)' = Stream(d)
  BY DEF Stream, Told, clientVars, AnswerTypeOK
<1>11. QED
  BY <1>4, <1>6, <1>7, <1>8, <1>9, <1>10 DEF S

(* A worker goes on, and sends nothing.                                    *)
LEMMA Progress ==
    ASSUME PoolTypeOK, PoolInv, StreamInv, NEW w \in Workers, pc[w] \in Connected,
           UNCHANGED <<clientVars, out, client>>, closed \subseteq closed',
           \A v \in Workers : pc[v] = "body" => tokens'[v] = tokens[v],
           NEW place, pc' = [pc EXCEPT ![w] = place], place # "body",
           place \in Unanswered => pc[w] \in Unanswered,
           place \in Connected \/ client[w] \in closed'
    PROVE  StreamInv'
<1>1. \A d \in Clients : Stream(d)' = Stream(d)
  BY StreamsStay DEF clientVars
<1>2. \A v \in Workers : pc'[v] = IF v = w THEN place ELSE pc[v]
  BY DEF PoolTypeOK
<1>3. \A v \in Workers : pc[v] \in Connected => client[v] \in Clients
  BY OneClientEach
<1>4. "body" \in Connected /\ Unanswered \subseteq Connected
  BY DEF Connected, Unanswered
<1>5. \A d \in Clients : Answer(d, Stream(d)')
  BY <1>1 DEF StreamInv
<1>6. ASSUME NEW d \in Clients, d \notin closed', ~Served(d)'
      PROVE  Stream(d)' = <<>>
  <2>1. ~Served(d)
    <3>1. \A v \in Workers : ~(pc'[v] \in Connected /\ client[v] = d)
      BY <1>6 DEF Served
    <3>2. QED
      BY <1>2, <1>6, <3>1 DEF Served
  <2>2. QED
    BY <1>1, <1>6, <2>1 DEF StreamInv
<1>7. ASSUME NEW v \in Workers, pc'[v] \in Unanswered
      PROVE  Stream(client[v])' = <<>>
  <2>1. pc[v] \in Unanswered /\ client[v] \in Clients
    BY <1>2, <1>3, <1>4, <1>7
  <2>2. QED
    BY <1>1, <2>1 DEF StreamInv
<1>8. ASSUME NEW v \in Workers, pc'[v] = "body"
      PROVE  Stream(client[v])' = <<Header(tokens'[v][2])>>
  <2>1. pc[v] = "body" /\ client[v] \in Clients /\ tokens'[v] = tokens[v]
    BY <1>2, <1>3, <1>4, <1>8
  <2>2. QED
    BY <1>1, <2>1 DEF StreamInv
<1>9. QED
  <2>1. client' = client
    OBVIOUS
  <2>2. \A v \in Workers : pc'[v] \in Unanswered => Stream(client[v])' = <<>>
    BY <1>7
  <2>3. \A v \in Workers : pc'[v] = "body" => Stream(client[v])' = <<Header(tokens'[v][2])>>
    BY <1>8
  <2>4. \A d \in Clients : d \notin closed' /\ ~Served(d)' => Stream(d)' = <<>>
    BY <1>6
  <2>5. QED
    BY <1>5, <2>2, <2>3, <2>4 DEF StreamInv

(* A worker sends s.                                                       *)
LEMMA Sends ==
    ASSUME PoolTypeOK, PoolInv, AnswerTypeOK, StreamInv, NEW w \in Workers, pc[w] \in Connected,
           UNCHANGED <<clientVars, client, closed, tokens>>,
           NEW place \in {"close", "body", "closefile"}, pc' = [pc EXCEPT ![w] = place],
           NEW s \in Seq(Statuses \cup ChunkSet), out' = [out EXCEPT ![client[w]] = @ \o s],
           Answer(client[w], Stream(client[w]) \o s),
           place = "body" => Stream(client[w]) \o s = <<Header(tokens[w][2])>>
    PROVE  out' \in [Clients -> Seq(Statuses \cup ChunkSet)] /\ StreamInv'
<1> DEFINE c == client[w]
<1>0. c \in Clients /\ \A v \in Workers : pc[v] \in Connected => client[v] \in Clients /\ (client[v] = c => v = w)
  BY OneClientEach
<1>1. /\ out' \in [Clients -> Seq(Statuses \cup ChunkSet)]
      /\ Stream(c)' = Stream(c) \o s
      /\ \A d \in Clients : d # c => Stream(d)' = Stream(d)
  BY <1>0, Sent
<1>2. \A v \in Workers : pc'[v] = IF v = w THEN place ELSE pc[v]
  BY DEF PoolTypeOK
<1>4. "body" \in Connected /\ Unanswered \subseteq Connected /\ place \in Connected /\ place \notin Unanswered
  BY DEF Connected, Unanswered
<1>5. \A d \in Clients : Answer(d, Stream(d)')
  BY <1>1 DEF StreamInv
<1>6. ASSUME NEW d \in Clients, d \notin closed', ~Served(d)'
      PROVE  Stream(d)' = <<>>
  <2>1. \A v \in Workers : ~(pc'[v] \in Connected /\ client[v] = d)
    BY <1>6 DEF Served
  <2>2. d # c /\ ~Served(d)
    BY <1>2, <1>4, <2>1 DEF Served
  <2>3. QED
    BY <1>1, <1>6, <2>2 DEF StreamInv
<1>7. ASSUME NEW v \in Workers, pc'[v] \in Unanswered
      PROVE  Stream(client[v])' = <<>>
  <2>1. pc[v] \in Unanswered /\ client[v] \in Clients /\ client[v] # c
    BY <1>0, <1>2, <1>4, <1>7
  <2>2. QED
    BY <1>1, <2>1 DEF StreamInv
<1>8. ASSUME NEW v \in Workers, pc'[v] = "body"
      PROVE  Stream(client[v])' = <<Header(tokens'[v][2])>>
  <2>1. CASE v = w
    BY <1>1, <1>2, <1>8, <2>1
  <2>2. CASE v # w
    <3>1. pc[v] = "body" /\ client[v] \in Clients /\ client[v] # c
      BY <1>0, <1>2, <1>4, <1>8, <2>2
    <3>2. QED
      BY <1>1, <3>1 DEF StreamInv
  <2>3. QED
    BY <2>1, <2>2
<1>9. QED
  <2>1. client' = client /\ tokens' = tokens
    OBVIOUS
  <2>2. \A v \in Workers : pc'[v] \in Unanswered => Stream(client[v])' = <<>>
    BY <1>7
  <2>3. \A v \in Workers : pc'[v] = "body" => Stream(client[v])' = <<Header(tokens'[v][2])>>
    BY <1>8
  <2>4. \A d \in Clients : d \notin closed' /\ ~Served(d)' => Stream(d)' = <<>>
    BY <1>6
  <2>5. QED
    BY <1>1, <1>5, <2>2, <2>3, <2>4 DEF StreamInv

-----------------------------------------------------------------------------
(* What the workers know of the requests.                                  *)

(* The facts about one worker stay while another one moves.                *)
LEMMA OthersTokens ==
    ASSUME NEW v \in Workers, NEW w \in Workers, v # w, TokensOK(v),
           pc'[v] = pc[v], client'[v] = client[v], tokens'[v] = tokens[v], code'[v] = code[v],
           file_size'[v] = file_size[v]
    PROVE  TokensOK(v)'
BY DEF TokensOK, Chosen

(* A file on the disk is what it was, or was removed.                      *)
LEMMA FilesOfTheDisk ==
    ASSUME DiskInv, NEW n \in Names
    PROVE  /\ FileStatus(n) \in {200, 400, 403, 404}
           /\ FileStatus(n) = 200 => Kind[n] \in {"regular", "locked"}
           /\ disk[n] # "missing" => disk[n] = Kind[n]
<1>1. Kind[n] \in {"regular", "private", "locked", "directory", "missing"}
  BY KindAssumption DEF Kinds
<1>2. disk[n] = Kind[n] \/ (n \in Volatile /\ disk[n] = "missing")
  BY DEF DiskInv
<1>3. QED
  BY <1>1, <1>2 DEF FileStatus

(* The verification.                                                       *)
LEMMA Verified ==
    ASSUME DiskInv, NEW w \in Workers,
           NEW result, result = IF ValidRequest(tokens[w]) THEN FileStatus(tokens[w][2]) ELSE 400
    PROVE  /\ result # 200 => result \in Errors
           /\ result = 200 => tokens[w][2] \in Names /\ Kind[tokens[w][2]] \in {"regular", "locked"}
<1>1. CASE ValidRequest(tokens[w])
  <2>1. tokens[w][2] \in Names /\ result = FileStatus(tokens[w][2])
    BY <1>1 DEF ValidRequest
  <2>2. QED
    BY <2>1, FilesOfTheDisk DEF Errors
<1>2. CASE ~ValidRequest(tokens[w])
  BY <1>2 DEF Errors
<1>3. QED
  BY <1>1, <1>2

-----------------------------------------------------------------------------
(* The steps of a worker.                                                  *)

(* A worker that is at a place where it has a connection.                  *)
LEMMA AtWork ==
    ASSUME PoolTypeOK, PoolInv, AnswerInv, NEW w \in Workers, pc[w] \in Connected
    PROVE  /\ client[w] \in Clients /\ TokensOK(w)
           /\ tokens[w] \in Seq(Words) /\ words[w] \in Nat /\ code[w] \in Nat /\ file_size[w] \in Nat
           /\ AnswerTypeOK /\ StreamInv /\ DiskInv
           /\ pc[w] \in Unanswered => Stream(client[w]) = <<>>
           /\ pc[w] = "body" => Stream(client[w]) = <<Header(tokens[w][2])>>
BY OneClientEach DEF AnswerInv, AnswerTypeOK, RequestInv, StreamInv

(* Everything is kept but what the worker has on its own stack.            *)
LEMMA Quietly ==
    ASSUME PoolTypeOK, PoolInv, AnswerInv, UNCHANGED clientVars, NEW w \in Workers, pc[w] \in Connected,
           UNCHANGED <<out, closed, inbox, client, words, strtok_last, disk>>,
           \A v \in Workers : v # w => tokens'[v] = tokens[v] /\ code'[v] = code[v] /\ file_size'[v] = file_size[v],
           tokens' \in [Workers -> Seq(Words)], code' \in [Workers -> Nat], file_size' \in [Workers -> Nat],
           pc[w] = "body" => tokens'[w] = tokens[w],
           NEW place \in Connected, pc' = [pc EXCEPT ![w] = place], place # "body",
           place \in Unanswered => pc[w] \in Unanswered,
           TokensOK(w)'
    PROVE  AnswerTypeOK' /\ StreamInv' /\ \A v \in Workers : TokensOK(v)'
<1>1. AnswerTypeOK'
  BY DEF AnswerInv, AnswerTypeOK, clientVars
<1>2. StreamInv'
  <2>1. \A v \in Workers : pc[v] = "body" => tokens'[v] = tokens[v]
    OBVIOUS
  <2>2. StreamInv /\ closed \subseteq closed'
    BY DEF AnswerInv
  <2>3. QED
    BY <2>1, <2>2, Progress
<1>3. ASSUME NEW v \in Workers, v # w
      PROVE  TokensOK(v)'
  <2>1. TokensOK(v) /\ pc'[v] = pc[v]
    BY <1>3 DEF AnswerInv, RequestInv, PoolTypeOK
  <2>2. QED
    BY <1>3, <2>1, OthersTokens
<1>4. QED
  BY <1>1, <1>2, <1>3

(* The request is read.                                                    *)
LEMMA ReceiveAnswers ==
    ASSUME PoolTypeOK, PoolInv, AnswerInv, NEW w \in Workers, ReceiveRequest(w), UNCHANGED clientVars
    PROVE  AnswerTypeOK' /\ StreamInv' /\ \A v \in Workers : TokensOK(v)'
<1> USE DEF netVars, kernelVars, ownVars
<1>1. pc[w] = "recv" /\ pc[w] \in Connected
  BY DEF ReceiveRequest, At, Connected
<1>2. client[w] \in Clients /\ tokens[w] = <<>> /\ AnswerTypeOK /\ StreamInv
  BY <1>1, AtWork DEF TokensOK
<1>3. PICK place \in {"parse", "close"} : /\ pc' = [pc EXCEPT ![w] = place]
                                          /\ place = "parse" => inbox[client[w]] > 0
  BY DEF ReceiveRequest, Step
<1>4. words' = [words EXCEPT ![w] = inbox[client[w]]] /\ inbox' = [inbox EXCEPT ![client[w]] = 0]
  BY DEF ReceiveRequest
<1>5. AnswerTypeOK'
  <2>1. words' \in [Workers -> Nat] /\ inbox' \in [Clients -> Nat]
    <3>1. inbox[client[w]] \in Nat /\ 0 \in Nat
      BY <1>2 DEF AnswerTypeOK
    <3>2. QED
      BY <1>2, <1>4, <3>1 DEF AnswerTypeOK
  <2>2. UNCHANGED <<out, closed, disk, tokens, code, file_size, strtok_last, received, status_code, content_length>>
    BY DEF ReceiveRequest, clientVars
  <2>3. QED
    BY <1>2, <2>1, <2>2 DEF AnswerTypeOK
<1>6. StreamInv'
  <2>1. place \in Connected /\ "parse" \in Unanswered /\ pc[w] \in Unanswered /\ place # "body"
    BY <1>1, <1>3 DEF Connected, Unanswered
  <2>2. closed \subseteq closed' /\ \A v \in Workers : pc[v] = "body" => tokens'[v] = tokens[v]
    BY DEF ReceiveRequest
  <2>3. UNCHANGED <<clientVars, out, client>>
    BY DEF ReceiveRequest
  <2>4. QED
    BY <1>1, <1>2, <1>3, <2>1, <2>2, <2>3, Progress
<1>7. TokensOK(w)'
  <2>1. tokens'[w] = <<>> /\ client'[w] = client[w] /\ words'[w] = inbox[client[w]] /\ pc'[w] = place
    BY <1>2, <1>3, <1>4 DEF ReceiveRequest, AnswerTypeOK, PoolTypeOK
  <2>2. QED
    BY <1>3, <2>1 DEF TokensOK, Serving
<1>8. ASSUME NEW v \in Workers, v # w
      PROVE  TokensOK(v)'
  <2>1. TokensOK(v) /\ pc'[v] = pc[v]
    BY <1>3, <1>8 DEF AnswerInv, RequestInv, PoolTypeOK
  <2>2. QED
    BY <1>8, <2>1, OthersTokens DEF ReceiveRequest
<1>9. QED
  BY <1>5, <1>6, <1>7, <1>8

(* What one call of strtok returns, and where it leaves off.               *)
LEMMA NextWord ==
    ASSUME PoolTypeOK, PoolInv, AnswerInv, NEW w \in Workers, ParseRequest(w), UNCHANGED clientVars
    PROVE  /\ tokens' \in [Workers -> Seq(Words)]
           /\ strtok_last' \in {<<>>} \cup (Workers \X Clients \X Nat)
           /\ \A v \in Workers : v # w => tokens'[v] = tokens[v]
<1> USE DEF netVars, kernelVars, ownVars
<1> DEFINE c == client[w]
           n == Len(tokens[w])
           last == IF n + 1 = 1 THEN <<w, c, 1>> ELSE strtok_last
           more == last # <<>> /\ last[3] \in 1 .. Received(last)
           word == IF more THEN Word(last[2], last[3], n + 1 = 3) ELSE NULL
<1>1. pc[w] = "parse" /\ pc[w] \in Connected
  BY DEF ParseRequest, At, Connected
<1>2. c \in Clients /\ tokens[w] \in Seq(Words) /\ words[w] \in Nat /\ AnswerTypeOK
  BY <1>1, AtWork DEF TokensOK
<1>3. n \in 0 .. 2
  <2>1. n < 3
    BY DEF ParseRequest
  <2>2. n \in Nat
    BY <1>2
  <2> HIDE DEF n
  <2>3. QED
    BY <2>1, <2>2
<1>4. /\ tokens' = [tokens EXCEPT ![w] = Append(@, word)]
      /\ strtok_last' = IF more THEN <<last[1], last[2], last[3] + 1>> ELSE <<>>
      /\ UNCHANGED <<pc, client, words>>
  BY DEF ParseRequest
<1>5. last = <<>> \/ \E v \in Workers, d \in Clients, k \in Nat : last = <<v, d, k>>
  <2>1. <<w, c, 1>> = <<w, c, 1>> /\ 1 \in Nat
    OBVIOUS
  <2>2. strtok_last = <<>> \/ \E v \in Workers, d \in Clients, k \in Nat : strtok_last = <<v, d, k>>
    BY <1>2 DEF AnswerTypeOK
  <2>3. CASE n + 1 = 1
    <3>1. last = <<w, c, 1>>
      BY <2>3
    <3>2. QED
      BY <1>2, <2>1, <3>1
  <2>4. CASE n + 1 # 1
    <3>1. last = strtok_last
      BY <2>4
    <3>2. QED
      BY <2>2, <3>1
  <2>5. QED
    BY <2>3, <2>4
<1> HIDE DEF last
<1>6. ASSUME more
      PROVE  word \in Words /\ \E v \in Workers, d \in Clients, k \in Nat : last = <<v, d, k>> /\ k + 1 \in Nat
  <2>1. PICK v \in Workers, d \in Clients, k \in Nat : last = <<v, d, k>>
    BY <1>5, <1>6
  <2>2. last[1] = v /\ last[2] = d /\ last[3] = k
    BY <2>1
  <2>3. k \in 1 .. Received(last) /\ Received(last) <= Len(Request[d])
    <3>1. Received(last) = IF words[v] < Len(Request[d]) THEN words[v] ELSE Len(Request[d])
      BY <2>2 DEF Received
    <3>2. words[v] \in Nat /\ Len(Request[d]) \in 1 .. 3
      BY <1>2, RequestAssumption DEF AnswerTypeOK
    <3>3. QED
      BY <1>6, <2>2, <3>1, <3>2
  <2>4. Request[d] \in Seq(STRING) /\ Request[d][k] \in STRING
    <3>1. Request[d] \in Seq(STRING)
      BY RequestAssumption
    <3>2. words[v] \in Nat
      BY <1>2 DEF AnswerTypeOK
    <3>3. Received(last) \in Int
      BY <2>2, <3>1, <3>2 DEF Received
    <3>4. k \in 1 .. Len(Request[d])
      BY <2>3, <3>1, <3>3
    <3>5. QED
      BY <3>1, <3>4
  <2>5. Word(d, k, n + 1 = 3) \in Words
    BY <2>4 DEF Word, Words
  <2>6. word = Word(d, k, n + 1 = 3)
    BY <1>6, <2>2
  <2>7. k + 1 \in Nat
    OBVIOUS
  <2>8. QED
    BY <2>1, <2>5, <2>6, <2>7
<1>7. word \in Words
  <2>1. CASE more
    BY <1>6, <2>1
  <2>2. CASE ~more
    <3>1. word = NULL
      BY <2>2
    <3>2. NULL \in Words
      BY DEF Words
    <3>3. QED
      BY <3>1, <3>2
  <2>3. QED
    BY <2>1, <2>2
<1>8. strtok_last' \in {<<>>} \cup (Workers \X Clients \X Nat)
  <2>1. CASE more
    <3>1. PICK v \in Workers, d \in Clients, k \in Nat : last = <<v, d, k>> /\ k + 1 \in Nat
      BY <1>6, <2>1
    <3>2. strtok_last' = <<v, d, k + 1>>
      BY <1>4, <2>1, <3>1
    <3>3. QED
      BY <3>1, <3>2
  <2>2. CASE ~more
    BY <1>4, <2>2
  <2>3. QED
    BY <2>1, <2>2
<1> HIDE DEF word
<1>9. tokens' \in [Workers -> Seq(Words)] /\ \A v \in Workers : v # w => tokens'[v] = tokens[v]
  <2>1. Append(tokens[w], word) \in Seq(Words)
    <3>1. ASSUME NEW x \in Seq(Words), NEW y \in Words
          PROVE  Append(x, y) \in Seq(Words)
      BY AppendProperties
    <3>2. QED
      BY <1>2, <1>7, <3>1
  <2>2. tokens \in [Workers -> Seq(Words)]
    BY <1>2 DEF AnswerTypeOK
  <2>3. QED
    BY <1>4, <2>1, <2>2
<1>10. QED
  BY <1>8, <1>9

(* A word of the request.                                                  *)
LEMMA ParseAnswers ==
    ASSUME PoolTypeOK, PoolInv, AnswerInv, NEW w \in Workers, ParseRequest(w), UNCHANGED clientVars
    PROVE  AnswerTypeOK' /\ StreamInv' /\ \A v \in Workers : TokensOK(v)'
<1> USE DEF netVars, kernelVars, ownVars
<1>1. pc[w] = "parse" /\ pc[w] \in Connected /\ "parse" \in Unanswered
  BY DEF ParseRequest, At, Connected, Unanswered
<1>2. AnswerTypeOK /\ StreamInv
  BY <1>1, AtWork
<1>3. UNCHANGED <<out, closed, inbox, disk, words, code, file_size, client, pc, received, status_code, content_length>>
  BY DEF ParseRequest, clientVars
<1>4. /\ tokens' \in [Workers -> Seq(Words)]
      /\ strtok_last' \in {<<>>} \cup (Workers \X Clients \X Nat)
      /\ \A v \in Workers : v # w => tokens'[v] = tokens[v]
  BY NextWord
<1>5. AnswerTypeOK'
  BY <1>2, <1>3, <1>4 DEF AnswerTypeOK
<1>6. StreamInv'
  <2>1. pc' = [pc EXCEPT ![w] = "parse"]
    BY <1>1, <1>3 DEF PoolTypeOK
  <2>2. \A v \in Workers : pc[v] = "body" => tokens'[v] = tokens[v]
    BY <1>1, <1>4
  <2>3. closed \subseteq closed' /\ UNCHANGED <<clientVars, out, client>>
    BY <1>3
  <2>4. QED
    BY <1>1, <1>2, <2>1, <2>2, <2>3, Progress
<1>7. TokensOK(w)'
  BY <1>1, <1>3, <1>4 DEF TokensOK, Serving
<1>8. ASSUME NEW v \in Workers, v # w
      PROVE  TokensOK(v)'
  <2>1. TokensOK(v)
    BY DEF AnswerInv, RequestInv
  <2>2. QED
    BY <1>3, <1>4, <1>8, <2>1, OthersTokens
<1>9. QED
  BY <1>5, <1>6, <1>7, <1>8

(* The verification of the request and of the file.                        *)
LEMMA VerifyAnswers ==
    ASSUME PoolTypeOK, PoolInv, AnswerInv, NEW w \in Workers, VerifyRequest(w), UNCHANGED clientVars
    PROVE  AnswerTypeOK' /\ StreamInv' /\ \A v \in Workers : TokensOK(v)'
<1> USE DEF netVars, kernelVars, ownVars
<1>1. pc[w] = "parse" /\ pc[w] \in Connected /\ pc[w] \in Unanswered /\ Len(tokens[w]) = 3
  BY DEF VerifyRequest, At, Connected, Unanswered
<1>2. client[w] \in Clients /\ AnswerTypeOK /\ DiskInv
  BY <1>1, AtWork
<1>3. PICK result : result = IF ValidRequest(tokens[w]) THEN FileStatus(tokens[w][2]) ELSE 400
  OBVIOUS
<1>4. /\ result # 200 => result \in Errors
      /\ result = 200 => tokens[w][2] \in Names /\ Kind[tokens[w][2]] \in {"regular", "locked"}
  BY <1>2, <1>3, Verified
<1>5. PICK place \in {"size", "error"} : /\ pc' = [pc EXCEPT ![w] = place]
                                         /\ place = "size" <=> result = 200
  <2>1. pc' = [pc EXCEPT ![w] = IF result = 200 THEN "size" ELSE "error"]
    BY <1>3 DEF VerifyRequest, Step
  <2>2. CASE result = 200
    <3>1. pc' = [pc EXCEPT ![w] = "size"] /\ "size" \in {"size", "error"}
      BY <2>1, <2>2
    <3>2. QED
      BY <2>2, <3>1
  <2>3. CASE result # 200
    <3>1. pc' = [pc EXCEPT ![w] = "error"] /\ "error" \in {"size", "error"} /\ "error" # "size"
      BY <2>1, <2>3
    <3>2. QED
      BY <2>3, <3>1
  <2>4. QED
    BY <2>2, <2>3
<1>6. code' = [code EXCEPT ![w] = result]
  BY <1>3 DEF VerifyRequest
<1>7. UNCHANGED <<out, closed, inbox, client, words, strtok_last, disk, tokens, file_size>>
  BY DEF VerifyRequest
<1>8. result \in Nat
  <2>1. result = 200 \/ result \in {400, 403, 404}
    BY <1>4 DEF Errors
  <2>2. QED
    BY <2>1
<1>9. pc'[w] = place /\ code'[w] = result /\ code' \in [Workers -> Nat]
      /\ \A v \in Workers : v # w => code'[v] = code[v]
  BY <1>2, <1>5, <1>6, <1>8 DEF PoolTypeOK, AnswerTypeOK
<1>10. TokensOK(w)'
  <2>1. place = "error" => code'[w] \in Errors
    BY <1>4, <1>5, <1>7, <1>9
  <2>2. place = "size" => Chosen(w)'
    BY <1>4, <1>5, <1>7, <1>9 DEF Chosen
  <2>3. QED
    BY <1>5, <1>9, <2>1, <2>2 DEF TokensOK, Serving
<1>11. place \in Connected /\ place # "body"
  BY <1>5 DEF Connected
<1>12. tokens' \in [Workers -> Seq(Words)] /\ file_size' \in [Workers -> Nat]
  BY <1>2, <1>7 DEF AnswerTypeOK
<1>13. QED
  BY <1>1, <1>5, <1>7, <1>9, <1>10, <1>11, <1>12, Quietly

(* The size of the file.                                                   *)
LEMMA SizeAnswers ==
    ASSUME PoolTypeOK, PoolInv, AnswerInv, NEW w \in Workers, GetFileSize(w), UNCHANGED clientVars
    PROVE  AnswerTypeOK' /\ StreamInv' /\ \A v \in Workers : TokensOK(v)'
<1> USE DEF netVars, kernelVars, ownVars
<1> DEFINE n == tokens[w][2]
<1>1. pc[w] = "size" /\ pc[w] \in Connected /\ pc[w] \in Unanswered
  BY DEF GetFileSize, At, Connected, Unanswered
<1>2. client[w] \in Clients /\ AnswerTypeOK /\ DiskInv /\ Chosen(w)
  BY <1>1, AtWork DEF TokensOK, Serving
<1>3. n \in Names /\ Kind[n] \in {"regular", "locked"}
  BY <1>2 DEF Chosen
<1>4. UNCHANGED <<out, closed, inbox, client, words, strtok_last, disk, tokens>>
  BY DEF GetFileSize
<1>5. tokens' \in [Workers -> Seq(Words)]
  BY <1>2, <1>4 DEF AnswerTypeOK
<1>6. CASE disk[n] = "missing"
  <2>1. /\ code' = [code EXCEPT ![w] = 400] /\ pc' = [pc EXCEPT ![w] = "error"] /\ UNCHANGED file_size
    BY <1>6 DEF GetFileSize, Step
  <2>2. 400 \in Errors
    BY DEF Errors
  <2>3. pc'[w] = "error" /\ code'[w] = 400 /\ code' \in [Workers -> Nat] /\ file_size' \in [Workers -> Nat]
        /\ \A v \in Workers : v # w => code'[v] = code[v]
    BY <1>2, <2>1 DEF PoolTypeOK, AnswerTypeOK
  <2>4. TokensOK(w)'
    BY <1>4, <2>2, <2>3 DEF TokensOK, Serving
  <2>5. "error" \in Connected
    BY DEF Connected
  <2>6. QED
    BY <1>1, <1>4, <1>5, <2>1, <2>3, <2>4, <2>5, Quietly
<1>7. CASE disk[n] # "missing"
  <2>1. /\ file_size' = [file_size EXCEPT ![w] = Size[n]] /\ pc' = [pc EXCEPT ![w] = "open"] /\ UNCHANGED code
    BY <1>7 DEF GetFileSize, Step
  <2>2. Size[n] \in Nat
    BY <1>3, KindAssumption
  <2>3. pc'[w] = "open" /\ file_size'[w] = Size[n] /\ code' \in [Workers -> Nat] /\ file_size' \in [Workers -> Nat]
        /\ \A v \in Workers : v # w => file_size'[v] = file_size[v]
    BY <1>2, <2>1, <2>2 DEF PoolTypeOK, AnswerTypeOK
  <2>4. TokensOK(w)'
    BY <1>3, <1>4, <2>3 DEF TokensOK, Serving, Chosen
  <2>5. "open" \in Connected
    BY DEF Connected
  <2>6. QED
    BY <1>1, <1>4, <1>5, <2>1, <2>3, <2>4, <2>5, Quietly
<1>8. QED
  BY <1>6, <1>7

(* The opening of the file.                                                *)
LEMMA OpenAnswers ==
    ASSUME PoolTypeOK, PoolInv, AnswerInv, NEW w \in Workers, OpenFile(w), UNCHANGED clientVars
    PROVE  AnswerTypeOK' /\ StreamInv' /\ \A v \in Workers : TokensOK(v)'
<1> USE DEF netVars, kernelVars, ownVars
<1> DEFINE n == tokens[w][2]
<1>1. pc[w] = "open" /\ pc[w] \in Connected /\ pc[w] \in Unanswered
  BY DEF OpenFile, At, Connected, Unanswered
<1>2. client[w] \in Clients /\ AnswerTypeOK /\ DiskInv /\ Chosen(w)
  BY <1>1, AtWork DEF TokensOK, Serving
<1>3. n \in Names /\ Kind[n] \in {"regular", "locked"} /\ file_size[w] = Size[n]
  BY <1>1, <1>2 DEF Chosen
<1>4. UNCHANGED <<out, closed, inbox, client, words, strtok_last, disk, tokens, file_size>>
  BY DEF OpenFile
<1>5. tokens' \in [Workers -> Seq(Words)] /\ file_size' \in [Workers -> Nat]
  BY <1>2, <1>4 DEF AnswerTypeOK
<1>6. CASE disk[n] \in {"missing", "locked"} \/ FreeFds = {}
  <2>1. code' = [code EXCEPT ![w] = 400] /\ pc' = [pc EXCEPT ![w] = "error"]
    BY <1>6 DEF OpenFile, Step
  <2>2. 400 \in Errors
    BY DEF Errors
  <2>3. pc'[w] = "error" /\ code'[w] = 400 /\ code' \in [Workers -> Nat]
        /\ \A v \in Workers : v # w => code'[v] = code[v]
    BY <1>2, <2>1 DEF PoolTypeOK, AnswerTypeOK
  <2>4. TokensOK(w)'
    BY <1>4, <2>2, <2>3 DEF TokensOK, Serving
  <2>5. "error" \in Connected
    BY DEF Connected
  <2>6. QED
    BY <1>1, <1>4, <1>5, <2>1, <2>3, <2>4, <2>5, Quietly
<1>7. CASE ~(disk[n] \in {"missing", "locked"} \/ FreeFds = {})
  <2>1. pc' = [pc EXCEPT ![w] = "header"] /\ UNCHANGED code
    BY <1>7 DEF OpenFile, Step
  <2>2. Kind[n] = "regular"
    BY <1>2, <1>3, <1>7, FilesOfTheDisk
  <2>3. pc'[w] = "header" /\ code' \in [Workers -> Nat]
    BY <1>2, <2>1 DEF PoolTypeOK, AnswerTypeOK
  <2>4. TokensOK(w)'
    BY <1>3, <1>4, <2>2, <2>3 DEF TokensOK, Serving, Chosen
  <2>5. "header" \in Connected /\ "header" # "body"
    BY DEF Connected
  <2>6. QED
    BY <1>1, <1>4, <1>5, <2>1, <2>3, <2>4, <2>5, Quietly
<1>8. QED
  BY <1>6, <1>7

(* An error is sent, or nothing to a client that has gone.                 *)
LEMMA ErrorAnswers ==
    ASSUME PoolTypeOK, PoolInv, AnswerInv, NEW w \in Workers, SendError(w), UNCHANGED clientVars
    PROVE  AnswerTypeOK' /\ StreamInv' /\ \A v \in Workers : TokensOK(v)'
<1> USE DEF netVars, kernelVars, ownVars
<1>1. pc[w] = "error" /\ pc[w] \in Connected /\ pc[w] \in Unanswered
  BY DEF SendError, At, Connected, Unanswered
<1>2. client[w] \in Clients /\ AnswerTypeOK /\ StreamInv /\ code[w] \in Errors
      /\ code[w] \in Nat /\ Stream(client[w]) = <<>>
  BY <1>1, AtWork DEF TokensOK
<1>3. UNCHANGED <<closed, inbox, client, words, strtok_last, disk, tokens, file_size, code>>
      /\ pc' = [pc EXCEPT ![w] = "close"]
  BY DEF SendError, Step
<1>4. \A v \in Workers : TokensOK(v)'
  <2>1. \A v \in Workers : TokensOK(v)
    BY DEF AnswerInv, RequestInv
  <2>2. ASSUME NEW v \in Workers, v # w
        PROVE  TokensOK(v)'
    BY <1>3, <2>1, <2>2, OthersTokens DEF PoolTypeOK
  <2>3. TokensOK(w)'
    BY <1>3 DEF TokensOK, Serving, PoolTypeOK
  <2>4. QED
    BY <2>2, <2>3
<1>5. "close" \in Connected /\ "close" # "body" /\ "close" \notin Unanswered
  BY DEF Connected, Unanswered
<1>6. CASE UNCHANGED out
  <2>1. AnswerTypeOK'
    BY <1>2, <1>3, <1>6 DEF AnswerTypeOK, clientVars
  <2>2. \A v \in Workers : pc[v] = "body" => tokens'[v] = tokens[v]
    BY <1>3
  <2>3. StreamInv'
    BY <1>1, <1>2, <1>3, <1>5, <1>6, <2>2, Progress
  <2>4. QED
    BY <1>4, <2>1, <2>3
<1>7. CASE out' = [out EXCEPT ![client[w]] = Append(@, <<"status", code[w], 0>>)]
  <2> DEFINE line == <<"status", code[w], 0>>
             S == Statuses \cup ChunkSet
  <2>1. line \in S
    BY <1>2 DEF Statuses
  <2>2. out[client[w]] \in Seq(S)
    BY <1>2 DEF AnswerTypeOK
  <2>3. <<line>> = <<<<"status", code[w], 0>>>>
    OBVIOUS
  <2> HIDE DEF line, S
  <2>4. <<line>> \in Seq(S) /\ Append(out[client[w]], line) = out[client[w]] \o <<line>> /\ <<>> \o <<line>> = <<line>>
    BY <2>1, <2>2
  <2>5. out' = [out EXCEPT ![client[w]] = @ \o <<line>>]
    BY <1>7, <2>4 DEF line
  <2>6. Answer(client[w], Stream(client[w]) \o <<line>>)
    <3>1. Stream(client[w]) \o <<line>> = <<<<"status", code[w], 0>>>>
      BY <1>2, <2>3, <2>4
    <3>2. QED
      BY <1>2, <3>1 DEF Answer
  <2>7. out' \in [Clients -> Seq(Statuses \cup ChunkSet)] /\ StreamInv'
    BY <1>1, <1>2, <1>3, <2>4, <2>5, <2>6, Sends DEF S
  <2>8. AnswerTypeOK'
    BY <1>2, <1>3, <2>7 DEF AnswerTypeOK, clientVars
  <2>9. QED
    BY <1>4, <2>7, <2>8
<1>8. QED
  BY <1>6, <1>7 DEF SendError

(* The header of the file, or nothing to a client that has gone.           *)
LEMMA HeaderAnswers ==
    ASSUME PoolTypeOK, PoolInv, AnswerInv, NEW w \in Workers, SendHeader(w), UNCHANGED clientVars
    PROVE  AnswerTypeOK' /\ StreamInv' /\ \A v \in Workers : TokensOK(v)'
<1> USE DEF netVars, kernelVars, ownVars
<1> DEFINE n == tokens[w][2]
<1>1. pc[w] = "header" /\ pc[w] \in Connected /\ pc[w] \in Unanswered
  BY DEF SendHeader, At, Connected, Unanswered
<1>2. client[w] \in Clients /\ AnswerTypeOK /\ StreamInv /\ Chosen(w) /\ Stream(client[w]) = <<>>
  BY <1>1, AtWork DEF TokensOK, Serving
<1>3. n \in Names /\ Kind[n] = "regular" /\ file_size[w] = Size[n] /\ Size[n] \in Nat
  BY <1>1, <1>2, KindAssumption DEF Chosen
<1>4. UNCHANGED <<closed, inbox, client, words, strtok_last, disk, tokens, file_size, code>>
  BY DEF SendHeader
<1>5. PICK place \in {"body", "closefile"} :
          /\ pc' = [pc EXCEPT ![w] = place]
          /\ \/ UNCHANGED out /\ place = "closefile"
             \/ out' = [out EXCEPT ![client[w]] = Append(@, <<"status", 200, file_size[w]>>)] /\ place = "body"
  BY DEF SendHeader, Step
<1>6. \A v \in Workers : TokensOK(v)'
  <2>1. \A v \in Workers : TokensOK(v)
    BY DEF AnswerInv, RequestInv
  <2>2. ASSUME NEW v \in Workers, v # w
        PROVE  TokensOK(v)'
    BY <1>4, <1>5, <2>1, <2>2, OthersTokens DEF PoolTypeOK
  <2>3. TokensOK(w)'
    <3>1. pc'[w] = place
      BY <1>5 DEF PoolTypeOK
    <3>2. Chosen(w)'
      BY <1>3, <1>4 DEF Chosen
    <3>3. QED
      BY <1>5, <3>1, <3>2 DEF TokensOK
  <2>4. QED
    BY <2>2, <2>3
<1>7. CASE UNCHANGED out /\ place = "closefile"
  <2>1. AnswerTypeOK'
    BY <1>2, <1>4, <1>7 DEF AnswerTypeOK, clientVars
  <2>2. \A v \in Workers : pc[v] = "body" => tokens'[v] = tokens[v]
    BY <1>4
  <2>3. place \in Connected /\ place # "body" /\ place \notin Unanswered
    BY <1>7 DEF Connected, Unanswered
  <2>4. StreamInv'
    BY <1>1, <1>2, <1>4, <1>5, <1>7, <2>2, <2>3, Progress
  <2>5. QED
    BY <1>6, <2>1, <2>4
<1>8. CASE out' = [out EXCEPT ![client[w]] = Append(@, <<"status", 200, file_size[w]>>)] /\ place = "body"
  <2> DEFINE line == Header(n)
             S == Statuses \cup ChunkSet
  <2>1. line \in S /\ line = <<"status", 200, file_size[w]>>
    BY <1>3 DEF Statuses, Header
  <2>2. out[client[w]] \in Seq(S)
    BY <1>2 DEF AnswerTypeOK
  <2>3. Chunks(n, 0) = <<>>
    BY DEF Chunks
  <2> HIDE DEF line, S
  <2>4. <<line>> \in Seq(S) /\ Append(out[client[w]], line) = out[client[w]] \o <<line>>
        /\ <<>> \o <<line>> = <<line>> /\ <<line>> \o <<>> = <<line>>
    <3>0. line \in S
      BY ONLY <2>1
    <3>1. ASSUME NEW x \in S
          PROVE  <<x>> \in Seq(S) /\ <<>> \o <<x>> = <<x>> /\ <<x>> \o <<>> = <<x>>
      OBVIOUS
    <3>2. ASSUME NEW x \in S, NEW o \in Seq(S)
          PROVE  Append(o, x) = o \o <<x>>
      OBVIOUS
    <3>3. <<line>> \in Seq(S) /\ <<>> \o <<line>> = <<line>> /\ <<line>> \o <<>> = <<line>>
      BY ONLY <3>0, <3>1
    <3>4. Append(out[client[w]], line) = out[client[w]] \o <<line>>
      BY ONLY <2>2, <3>0, <3>2
    <3>5. QED
      BY ONLY <3>3, <3>4
  <2>5. out' = [out EXCEPT ![client[w]] = @ \o <<line>>]
    BY <1>8, <2>1, <2>4
  <2>6. Stream(client[w]) \o <<line>> = <<Header(n)>>
    BY <1>2, <2>4 DEF line
  <2>7. Answer(client[w], Stream(client[w]) \o <<line>>)
    <3>0. 0 \in 0 .. Size[n]
      BY <1>3
    <3>1. <<Header(n)>> \o Chunks(n, 0) = <<Header(n)>> /\ 0 \in 0 .. Size[n]
      BY <2>3, <2>4, <3>0 DEF line
    <3>2. \E m \in 0 .. Size[n] : <<Header(n)>> = <<Header(n)>> \o Chunks(n, m)
      BY <3>1
    <3>3. QED
      BY <1>3, <2>6, <3>2 DEF Answer
  <2>8. out' \in [Clients -> Seq(Statuses \cup ChunkSet)] /\ StreamInv'
    <3>1. place \in {"close", "body", "closefile"} /\ UNCHANGED <<clientVars, client, closed, tokens>>
      BY <1>4, <1>8
    <3>2. QED
      BY <1>1, <1>2, <1>5, <2>4, <2>5, <2>6, <2>7, <3>1, Sends DEF S
  <2>9. AnswerTypeOK'
    BY <1>2, <1>4, <2>8 DEF AnswerTypeOK, clientVars
  <2>10. QED
    BY <1>6, <2>8, <2>9
<1>9. QED
  BY <1>5, <1>7, <1>8

(* A part of the file.                                                     *)
LEMMA FileAnswers ==
    ASSUME PoolTypeOK, PoolInv, AnswerInv, NEW w \in Workers, SendFile(w), UNCHANGED clientVars
    PROVE  AnswerTypeOK' /\ StreamInv' /\ \A v \in Workers : TokensOK(v)'
<1> USE DEF netVars, kernelVars, ownVars
<1> DEFINE n == tokens[w][2]
           c == client[w]
<1>1. pc[w] = "body" /\ pc[w] \in Connected
  BY DEF SendFile, At, Connected
<1>2. c \in Clients /\ AnswerTypeOK /\ StreamInv /\ Chosen(w) /\ Stream(c) = <<Header(n)>>
  BY <1>1, AtWork DEF TokensOK, Serving
<1>3. n \in Names /\ Kind[n] = "regular" /\ file_size[w] = Size[n] /\ Size[n] \in Nat
  BY <1>1, <1>2, KindAssumption DEF Chosen
<1>4. UNCHANGED <<closed, inbox, client, words, strtok_last, disk, tokens, file_size, code>>
      /\ pc' = [pc EXCEPT ![w] = "closefile"]
  BY DEF SendFile, Step
<1>5. PICK m \in 0 .. Size[n] : out' = [out EXCEPT ![c] = @ \o Chunks(n, m)]
  <2>1. out[c] \in Seq(Statuses \cup ChunkSet)
    BY <1>2 DEF AnswerTypeOK
  <2>2. Len(out[c]) \in Nat
    BY <2>1
  <2>3. PICK room : room = SendBuffer - Len(out[c])
    OBVIOUS
  <2>4. room \in Int
    BY <2>2, <2>3, BoundsAssumption
  <2>5. PICK least : least = IF c \in gone THEN 0
                             ELSE IF room < file_size[w] THEN (IF room < 0 THEN 0 ELSE room) ELSE file_size[w]
    OBVIOUS
  <2>6. least \in Nat
    BY <1>3, <2>4, <2>5
  <2>7. \E m \in least .. file_size[w] : out' = [out EXCEPT ![c] = @ \o [k \in 1 .. m |-> <<"chunk", n, k>>]]
    BY <2>3, <2>5 DEF SendFile
  <2>8. least .. file_size[w] \subseteq 0 .. Size[n]
    BY <1>3, <2>6
  <2>9. QED
    BY <2>7, <2>8 DEF Chunks
<1>6. \A v \in Workers : TokensOK(v)'
  <2>1. \A v \in Workers : TokensOK(v)
    BY DEF AnswerInv, RequestInv
  <2>2. ASSUME NEW v \in Workers, v # w
        PROVE  TokensOK(v)'
    BY <1>4, <2>1, <2>2, OthersTokens DEF PoolTypeOK
  <2>3. TokensOK(w)'
    BY <1>4 DEF TokensOK, Serving, PoolTypeOK
  <2>4. QED
    BY <2>2, <2>3
<1>7. Chunks(n, m) \in Seq(Statuses \cup ChunkSet)
  <2>1. \A i \in 1 .. m : <<"chunk", n, i>> \in Statuses \cup ChunkSet
    BY <1>3 DEF ChunkSet
  <2>2. m \in Nat
    BY <1>3
  <2>3. QED
    BY <2>1, <2>2 DEF Chunks
<1>8. Answer(c, Stream(c) \o Chunks(n, m))
  <2>1. \E k \in 0 .. Size[n] : Stream(c) \o Chunks(n, m) = <<Header(n)>> \o Chunks(n, k)
    BY <1>2
  <2>2. QED
    BY <1>3, <2>1 DEF Answer
<1>9. out' \in [Clients -> Seq(Statuses \cup ChunkSet)] /\ StreamInv'
  BY <1>1, <1>2, <1>4, <1>5, <1>7, <1>8, Sends
<1>10. AnswerTypeOK'
  BY <1>2, <1>4, <1>9 DEF AnswerTypeOK, clientVars
<1>11. QED
  BY <1>6, <1>9, <1>10

(* Nothing that concerns an answer happens.                                *)
LEMMA NoAnswer ==
    ASSUME PoolTypeOK, PoolInv, StreamInv, \A d \in Clients : Stream(d)' = Stream(d),
           UNCHANGED <<client, tokens>>, closed \subseteq closed',
           \A v \in Workers : /\ pc'[v] \in Connected <=> pc[v] \in Connected
                              /\ pc[v] \in Connected => pc'[v] = pc[v]
    PROVE  StreamInv'
<1>1. \A v \in Workers : pc[v] \in Connected => client[v] \in Clients
  BY OneClientEach
<1>2. "body" \in Connected /\ Unanswered \subseteq Connected
  BY DEF Connected, Unanswered
<1>3. \A d \in Clients : Answer(d, Stream(d)')
  BY DEF StreamInv
<1>4. \A d \in Clients : d \notin closed' /\ ~Served(d)' => Stream(d)' = <<>>
  <2>1. \A d \in Clients : Served(d)' <=> Served(d)
    BY DEF Served
  <2>2. QED
    BY <2>1 DEF StreamInv
<1>5. \A v \in Workers : pc'[v] \in Unanswered => Stream(client[v])' = <<>>
  BY <1>1, <1>2 DEF StreamInv
<1>6. \A v \in Workers : pc'[v] = "body" => Stream(client[v])' = <<Header(tokens[v][2])>>
  BY <1>1, <1>2 DEF StreamInv
<1>7. client' = client /\ tokens' = tokens
  OBVIOUS
<1>8. QED
  BY <1>3, <1>4, <1>5, <1>6, <1>7 DEF StreamInv

(* After the answer: the file and the connection are closed, and the thread*)
(* ends.                                                                   *)
LEMMA EndAnswers ==
    ASSUME PoolTypeOK, PoolInv, AnswerInv, UNCHANGED clientVars, NEW w \in Workers,
           CloseFile(w) \/ CloseConnection(w) \/ WorkerCleanup(w) \/ ExitThread(w)
    PROVE  AnswerTypeOK' /\ StreamInv' /\ \A v \in Workers : TokensOK(v)'
<1> USE DEF netVars, kernelVars, ownVars
<1>1. AnswerTypeOK /\ StreamInv /\ \A v \in Workers : TokensOK(v)
  BY DEF AnswerInv, RequestInv
<1>2. UNCHANGED <<out, inbox, client, words, tokens, code, file_size, disk, strtok_last>>
  BY DEF CloseFile, CloseConnection, WorkerCleanup, ExitThread
<1>3. PICK place \in {"close", "flag", "leave", "exited"} : pc' = [pc EXCEPT ![w] = place]
  BY DEF CloseFile, CloseConnection, WorkerCleanup, ExitThread, Step
<1>4. closed' \subseteq Clients /\ closed \subseteq closed'
  BY <1>1 DEF CloseFile, CloseConnection, WorkerCleanup, ExitThread, AnswerTypeOK
<1>5. AnswerTypeOK'
  BY <1>1, <1>2, <1>4 DEF AnswerTypeOK, clientVars
<1>6. \A v \in Workers : TokensOK(v)'
  <2>1. ASSUME NEW v \in Workers, v # w
        PROVE  TokensOK(v)'
    BY <1>1, <1>2, <1>3, <2>1, OthersTokens DEF PoolTypeOK
  <2>2. TokensOK(w)'
    <3>1. pc'[w] = place
      BY <1>3 DEF PoolTypeOK
    <3>2. QED
      BY <1>3, <3>1 DEF TokensOK, Serving
  <2>3. QED
    BY <2>1, <2>2
<1>7. StreamInv'
  <2>1. CASE CloseFile(w)
    <3>1. pc[w] \in Connected /\ pc' = [pc EXCEPT ![w] = "close"]
      BY <2>1 DEF CloseFile, At, Step, Connected
    <3>2. "close" \in Connected /\ "close" # "body" /\ "close" \notin Unanswered
      BY DEF Connected, Unanswered
    <3>3. \A v \in Workers : pc[v] = "body" => tokens'[v] = tokens[v]
      BY <1>2
    <3>4. QED
      BY <1>1, <1>2, <1>4, <3>1, <3>2, <3>3, Progress
  <2>2. CASE CloseConnection(w)
    <3>1. pc[w] \in Connected /\ pc' = [pc EXCEPT ![w] = "flag"]
      BY <2>2 DEF CloseConnection, At, Step, Connected
    <3>2. "flag" # "body" /\ "flag" \notin Unanswered
      BY DEF Unanswered
    <3>3. client[w] \in closed'
      <4>1. client[w] \in Clients /\ fds[fd[w]] = client[w]
        BY <3>1, OneClientEach
      <4>2. QED
        BY <2>2, <4>1 DEF CloseConnection
    <3>4. \A v \in Workers : pc[v] = "body" => tokens'[v] = tokens[v]
      BY <1>2
    <3>5. QED
      BY <1>1, <1>2, <1>4, <3>1, <3>2, <3>3, <3>4, Progress
  <2>3. CASE WorkerCleanup(w) \/ ExitThread(w)
    <3>1. pc[w] \notin Connected /\ (pc' = [pc EXCEPT ![w] = "leave"] \/ pc' = [pc EXCEPT ![w] = "exited"])
      BY <2>3 DEF WorkerCleanup, ExitThread, At, Step, Connected
    <3>2. \A v \in Workers : /\ pc'[v] \in Connected <=> pc[v] \in Connected
                             /\ pc[v] \in Connected => pc'[v] = pc[v]
      BY <3>1 DEF PoolTypeOK, Connected
    <3>3. closed' = closed
      BY <2>3 DEF WorkerCleanup, ExitThread
    <3>4. \A d \in Clients : Stream(d)' = Stream(d)
      BY <1>2, StreamsStay DEF clientVars
    <3>5. QED
      BY <1>1, <1>2, <3>2, <3>3, <3>4, NoAnswer
  <2>4. QED
    BY <2>1, <2>2, <2>3
<1>8. QED
  BY <1>5, <1>6, <1>7

(* Every step of a worker.                                                 *)
LEMMA WorkerAnswers ==
    ASSUME PoolTypeOK, PoolInv, AnswerInv, UNCHANGED clientVars, NEW w \in Workers, Worker(w)
    PROVE  AnswerTypeOK' /\ StreamInv' /\ \A v \in Workers : TokensOK(v)'
<1>1. CASE ParseFaults(w)
  <2>1. UNCHANGED answerVars
    BY <1>1 DEF ParseFaults, Die, answerVars, netVars, kernelVars, ownVars
  <2>2. AnswerTypeOK /\ StreamInv /\ \A v \in Workers : TokensOK(v)
    BY DEF AnswerInv, RequestInv
  <2>3. AnswerTypeOK'
    BY <2>1, <2>2 DEF answerVars, AnswerTypeOK, clientVars
  <2>4. \A v \in Workers : TokensOK(v)'
    BY <2>1, <2>2 DEF answerVars, TokensOK, Chosen
  <2>5. \A d \in Clients : Stream(d)' = Stream(d)
    BY <2>1, StreamsStay DEF answerVars, clientVars
  <2>6. StreamInv'
    BY <2>1, <2>2, <2>5, NoAnswer DEF answerVars
  <2>7. QED
    BY <2>3, <2>4, <2>6
<1>2. QED
  BY <1>1, ReceiveAnswers, ParseAnswers, VerifyAnswers, ErrorAnswers, SizeAnswers, OpenAnswers,
     HeaderAnswers, FileAnswers, EndAnswers DEF Worker

-----------------------------------------------------------------------------
(* The other steps.                                                        *)

(* A worker is started for a client that has not been answered.            *)
LEMMA StartAnswers ==
    ASSUME PoolTypeOK, PoolInv, AnswerInv, UNCHANGED clientVars, StartWorker
    PROVE  AnswerTypeOK' /\ StreamInv' /\ \A v \in Workers : TokensOK(v)'
<1> DEFINE i == main_i
           c == fds[main_fd]
<1>0. main_pc = "start"
  BY DEF StartWorker, MainAt
<1>1. i \in Workers /\ pc[i] \notin Connected /\ main_fd \in Fds
  BY <1>0 DEF PoolInv, SlotInv, MainInv, Connected
<1>2. c \in Clients /\ c \notin closed
  <2>1. c \in Clients
    BY <1>1 DEF PoolInv, OwnerInv, InMain
  <2>2. QED
    BY <1>1, <2>1 DEF AnswerInv, ClosedInv
<1>3. ~Served(c)
  <2>1. SUFFICES ASSUME NEW w \in Workers, pc[w] \in Connected, client[w] = c
                 PROVE  FALSE
    BY DEF Served
  <2>2. fd[w] \in Fds /\ fds[fd[w]] = c
    BY <2>1, OneClientEach
  <2>3. fd[w] = main_fd
    BY <1>1, <1>2, <2>2 DEF PoolInv, ConnectionInv
  <2>4. QED
    BY <1>1, <2>1, <2>3 DEF PoolInv, OwnerInv, InMain, InWorker
<1>4. AnswerTypeOK /\ StreamInv /\ \A v \in Workers : TokensOK(v)
  BY DEF AnswerInv, RequestInv
<1>5. Stream(c) = <<>>
  BY <1>2, <1>3, <1>4 DEF StreamInv
<1>6. /\ pc' = [pc EXCEPT ![i] = "recv"] /\ client' = [client EXCEPT ![i] = c]
      /\ tokens' = [tokens EXCEPT ![i] = <<>>] /\ code' = [code EXCEPT ![i] = 200]
      /\ file_size' = [file_size EXCEPT ![i] = 0]
      /\ UNCHANGED <<out, inbox, closed, disk, words, strtok_last>>
  BY DEF StartWorker, netVars, kernelVars
<1> HIDE DEF i, c
<1>7. \A v \in Workers :
          /\ v # i => /\ pc'[v] = pc[v] /\ client'[v] = client[v] /\ tokens'[v] = tokens[v]
                      /\ code'[v] = code[v] /\ file_size'[v] = file_size[v]
          /\ v = i => pc'[v] = "recv" /\ client'[v] = c /\ tokens'[v] = <<>>
  BY <1>1, <1>4, <1>6 DEF PoolTypeOK, AnswerTypeOK
<1>8. AnswerTypeOK'
  <2>1. tokens' \in [Workers -> Seq(Words)]
    <3>1. <<>> \in Seq(Words)
      OBVIOUS
    <3>2. QED
      BY <1>4, <1>6, <3>1 DEF AnswerTypeOK
  <2>2. code' \in [Workers -> Nat] /\ file_size' \in [Workers -> Nat]
    BY <1>4, <1>6 DEF AnswerTypeOK
  <2>3. QED
    BY <1>4, <1>6, <2>1, <2>2 DEF AnswerTypeOK, clientVars
<1>9. ASSUME NEW v \in Workers
       PROVE  TokensOK(v)'
  <2>1. CASE v = i
    BY <1>7, <2>1 DEF TokensOK, Serving
  <2>2. CASE v # i
    BY <1>1, <1>4, <1>7, <2>2, OthersTokens
  <2>3. QED
    BY <2>1, <2>2
<1>10. StreamInv'
  <2>1. \A d \in Clients : Stream(d)' = Stream(d)
    BY <1>6, StreamsStay DEF clientVars
  <2>2. \A v \in Workers : pc[v] \in Connected => client[v] \in Clients
    BY OneClientEach
  <2>3. "body" \in Connected /\ Unanswered \subseteq Connected
    BY DEF Connected, Unanswered
  <2>4. \A d \in Clients : Answer(d, Stream(d)')
    BY <1>4, <2>1 DEF StreamInv
  <2>5. ASSUME NEW d \in Clients, d \notin closed', ~Served(d)'
        PROVE  Stream(d)' = <<>>
    <3>1. \A v \in Workers : ~(pc'[v] \in Connected /\ client'[v] = d)
      BY <2>5 DEF Served
    <3>2. ~Served(d)
      BY <1>1, <1>7, <3>1 DEF Served, i
    <3>3. QED
      BY <1>4, <1>6, <2>1, <2>5, <3>2 DEF StreamInv
  <2>6. \A v \in Workers : pc'[v] \in Unanswered =>
            \E d \in Clients : client'[v] = d /\ Stream(d) = <<>>
    BY <1>2, <1>4, <1>5, <1>7, <2>2, <2>3 DEF StreamInv
  <2>7. \A v \in Workers : pc'[v] = "body" =>
            \E d \in Clients : client'[v] = d /\ Stream(d) = <<Header(tokens'[v][2])>>
    BY <1>4, <1>7, <2>2, <2>3 DEF StreamInv
  <2>8. \A v \in Workers : pc'[v] \in Unanswered => Stream(client[v])' = <<>>
    BY <2>1, <2>6
  <2>9. \A v \in Workers : pc'[v] = "body" => Stream(client[v])' = <<Header(tokens'[v][2])>>
    BY <2>1, <2>7
  <2>10. \A d \in Clients : d \notin closed' /\ ~Served(d)' => Stream(d)' = <<>>
    BY <2>5
  <2>11. QED
    BY <2>4, <2>8, <2>9, <2>10 DEF StreamInv
<1>11. QED
  BY <1>8, <1>9, <1>10

(* The streams when nothing has been sent.                                 *)
LEMMA InitAnswers ==
    ASSUME Init
    PROVE  AnswerInv
<1> USE DEF Init, ServerInit
<1>1. \A c \in Clients : Stream(c) = <<>>
  <2>1. <<>> \o <<>> = <<>>
    OBVIOUS
  <2>2. ASSUME NEW c \in Clients
        PROVE  Told(c) = <<>> /\ received[c] = <<>> /\ out[c] = <<>>
    BY DEF Told
  <2>3. QED
    BY <2>1, <2>2 DEF Stream
<1>2. \A w \in Workers : pc[w] = "none" /\ "none" \notin Connected /\ "none" \notin Unanswered
  BY DEF Connected, Unanswered
<1>3. AnswerTypeOK
  <2>1. <<>> \in Seq(Statuses \cup ChunkSet) /\ <<>> \in Seq(ChunkSet) /\ <<>> \in Seq(Words) /\ 200 \in Nat /\ 0 \in Nat
    OBVIOUS
  <2>2. disk \in [Names -> Kinds]
    BY KindAssumption
  <2>3. QED
    BY <2>1, <2>2 DEF AnswerTypeOK
<1>4. ClientInv
  BY DEF ClientInv
<1>5. ClosedInv
  BY DEF ClosedInv
<1>6. StreamInv
  BY <1>1, <1>2 DEF StreamInv, Answer
<1>7. RequestInv
  <2>1. DiskInv
    BY DEF DiskInv
  <2>2. \A w \in Workers : TokensOK(w)
    BY <1>2 DEF TokensOK, Serving
  <2>3. QED
    BY <2>1, <2>2 DEF RequestInv
<1>8. QED
  BY <1>3, <1>4, <1>5, <1>6, <1>7 DEF AnswerInv

(* A step that no worker and no file is concerned by.                      *)
LEMMA WorkersRest ==
    ASSUME PoolTypeOK, PoolInv, AnswerInv, \A d \in Clients : Stream(d)' = Stream(d),
           UNCHANGED <<pc, client, tokens, words, code, file_size, strtok_last>>, closed \subseteq closed'
    PROVE  StreamInv' /\ \A v \in Workers : TokensOK(v)'
<1>1. StreamInv'
  BY NoAnswer DEF AnswerInv
<1>2. \A v \in Workers : TokensOK(v)'
  BY DEF AnswerInv, RequestInv, TokensOK, Chosen
<1>3. QED
  BY <1>1, <1>2

(* Every step preserves the invariant.                                     *)
LEMMA AnswerStep ==
    ASSUME PoolTypeOK, PoolInv, AnswerInv, [Next]_vars
    PROVE  AnswerInv'
<1> USE DEF netVars, kernelVars, mainVars, slotVars, ownVars
<1>0. AnswerTypeOK /\ ClientInv /\ ClosedInv /\ StreamInv /\ RequestInv /\ DiskInv
  BY DEF AnswerInv, RequestInv
<1>1. ClosedInv'
  BY <1>0, ClosedStep DEF AnswerTypeOK
<1> DEFINE Rest == AnswerTypeOK' /\ ClientInv' /\ StreamInv' /\ DiskInv' /\ \A w \in Workers : TokensOK(w)'
<1>2. ASSUME UNCHANGED answerVars
      PROVE  Rest
  <2>1. AnswerTypeOK' /\ ClientInv' /\ DiskInv'
    BY <1>0, <1>2 DEF answerVars, clientVars, AnswerTypeOK, ClientInv, DiskInv, Complete
  <2>2. \A d \in Clients : Stream(d)' = Stream(d)
    BY <1>2, StreamsStay DEF answerVars, clientVars
  <2>3. QED
    BY <1>2, <2>1, <2>2, WorkersRest DEF answerVars
<1>3. ASSUME Main, UNCHANGED clientVars
      PROVE  Rest
  <2>1. ClientInv'
    BY <1>0, <1>3 DEF ClientInv, clientVars, Complete
  <2>2. CASE StartWorker
    <3>1. DiskInv'
      BY <1>0, <2>2 DEF StartWorker, DiskInv
    <3>2. QED
      BY <1>3, <2>1, <2>2, <3>1, StartAnswers
  <2>3. ASSUME NEW e \in events, Disconnected(e) \/ AcceptClient(e)
        PROVE  Rest
    <3>1. /\ UNCHANGED <<inbox, out, disk, pc, client, tokens, words, code, file_size, strtok_last>>
          /\ closed \subseteq closed' /\ closed' \subseteq Clients
      BY <1>0, <2>3 DEF Disconnected, AcceptClient, AnswerTypeOK
    <3>2. \A d \in Clients : Stream(d)' = Stream(d)
      BY <1>3, <3>1, StreamsStay DEF clientVars
    <3>3. AnswerTypeOK' /\ DiskInv'
      BY <1>0, <1>3, <3>1 DEF AnswerTypeOK, DiskInv, clientVars
    <3>4. QED
      BY <2>1, <3>1, <3>2, <3>3, WorkersRest
  <2>4. QED
    BY <1>2, <1>3, <2>2, <2>3, MainSteps
<1>4. ASSUME NEW w \in Workers, Worker(w), UNCHANGED clientVars
      PROVE  Rest
  <2>1. ClientInv'
    BY <1>0, <1>4 DEF ClientInv, clientVars, Complete
  <2>2. disk' = disk
    BY <1>4 DEF Worker, ReceiveRequest, ParseRequest, ParseFaults, Die, VerifyRequest, SendError, GetFileSize,
                OpenFile, SendHeader, SendFile, CloseFile, CloseConnection, WorkerCleanup, ExitThread
  <2>3. DiskInv'
    BY <1>0, <2>2 DEF DiskInv
  <2>4. QED
    BY <1>4, <2>1, <2>3, WorkerAnswers
<1>5. ASSUME NEW c \in Clients, ConnectToServer(c) \/ SendRequest(c) \/ DeliverRest(c) \/ Client(c) \/ Abort(c)
      PROVE  Rest
  <2>1. AnswerTypeOK' /\ ClientInv' /\ \A d \in Clients : Stream(d)' = Stream(d)
    BY <1>0, <1>5, ClientStep
  <2>2. UNCHANGED <<disk, pc, client, tokens, words, code, file_size, strtok_last, closed>>
    BY <1>5 DEF ConnectToServer, SendRequest, DeliverRest, Client, ReceiveStatus, NoStatus, ReceiveFile,
                EndOfFile, Abort, ServerUnchanged
  <2>3. DiskInv'
    BY <1>0, <2>2 DEF DiskInv
  <2>4. QED
    BY <2>1, <2>2, <2>3, WorkersRest
<1>6. ASSUME NEW n \in Names, RemoveFile(n)
      PROVE  Rest
  <2>1. /\ UNCHANGED <<clientVars, inbox, out, pc, client, tokens, words, code, file_size, strtok_last, closed>>
        /\ disk' = [disk EXCEPT ![n] = "missing"] /\ n \in Volatile
    BY <1>6 DEF RemoveFile
  <2>2. \A d \in Clients : Stream(d)' = Stream(d)
    BY <2>1, StreamsStay DEF clientVars
  <2>3. ClientInv'
    BY <1>0, <2>1 DEF ClientInv, clientVars, Complete
  <2>4. AnswerTypeOK'
    <3>1. disk' \in [Names -> Kinds]
      BY <1>0, <2>1 DEF AnswerTypeOK, Kinds
    <3>2. QED
      BY <1>0, <2>1, <3>1 DEF AnswerTypeOK, clientVars
  <2>5. DiskInv'
    BY <1>0, <2>1 DEF DiskInv, AnswerTypeOK
  <2>6. QED
    BY <2>1, <2>2, <2>3, <2>4, <2>5, WorkersRest
<1>7. ASSUME UNCHANGED vars
      PROVE  Rest
  <2>1. UNCHANGED answerVars
    BY <1>7 DEF vars, serverVars, answerVars, clientVars
  <2>2. QED
    BY <1>2, <2>1
<1> HIDE DEF Rest
<1>8. Rest
  <2>1. \/ Main /\ UNCHANGED clientVars
        \/ \E w \in Workers : Worker(w) /\ UNCHANGED clientVars
        \/ \E c \in Clients : ConnectToServer(c) \/ SendRequest(c) \/ DeliverRest(c) \/ Client(c) \/ Abort(c)
        \/ \E n \in Names : RemoveFile(n)
        \/ UNCHANGED vars
    BY DEF Next, Server, Ended
  <2>2. QED
    BY <1>3, <1>4, <1>5, <1>6, <1>7, <2>1
<1>9. RequestInv'
  BY <1>8 DEF RequestInv, Rest
<1>10. QED
  BY <1>1, <1>8, <1>9 DEF AnswerInv, Rest

(* The invariant.                                                          *)
THEOREM AnswersInvariant == Spec => []AnswerInv
<1>1. Init => AnswerInv
  BY InitAnswers
<1>2. PoolTypeOK /\ PoolInv /\ AnswerInv /\ [Next]_vars => AnswerInv'
  BY AnswerStep
<1>3. QED
  BY <1>1, <1>2, PoolInvariant, PTL DEF Spec

(* What a client has parsed is the first message of its stream.            *)
LEMMA StatusIsFirst ==
    ASSUME AnswerInv, NEW c \in Clients, status_code[c] # 0
    PROVE  \/ status_code[c] \in Errors
           \/ \E n \in Names : /\ Kind[n] = "regular"
                               /\ status_code[c] = 200 /\ content_length[c] = Size[n]
                               /\ Len(received[c]) <= Size[n]
                               /\ \A i \in 1 .. Len(received[c]) : received[c][i] = <<"chunk", n, i>>
<1> DEFINE S == Statuses \cup ChunkSet
           line == <<"status", status_code[c], content_length[c]>>
           a == <<line>>
           r == received[c]
           b == r \o out[c]
           s == Stream(c)
<1>1. line \in S /\ r \in Seq(S) /\ out[c] \in Seq(S)
  BY DEF AnswerInv, AnswerTypeOK, Statuses
<1>2. s = (a \o r) \o out[c]
  BY DEF Stream, Told
<1>3. Answer(c, s)
  BY DEF AnswerInv, StreamInv
<1> HIDE DEF S, line, r, b, s
<1>4. <<line>> \in Seq(S) /\ Len(<<line>>) = 1 /\ <<line>>[1] = line
  <2>1. ASSUME NEW x \in S
        PROVE  <<x>> \in Seq(S) /\ Len(<<x>>) = 1 /\ <<x>>[1] = x
    OBVIOUS
  <2>2. QED
    BY ONLY <1>1, <2>1
<1>5. a \in Seq(S) /\ Len(a) = 1 /\ a[1] = line
  BY <1>4
<1> HIDE DEF a
<1>6. /\ r \o out[c] \in Seq(S) /\ Len(r) \in Nat /\ Len(out[c]) \in Nat
      /\ Len(r \o out[c]) = Len(r) + Len(out[c])
      /\ \A i \in 1 .. Len(r) + Len(out[c]) : (r \o out[c])[i] = IF i <= Len(r) THEN r[i] ELSE out[c][i - Len(r)]
  BY ONLY <1>1, ConcatProperties, LenProperties
<1>7. s = a \o b
  <2>1. ASSUME NEW x \in Seq(S), NEW y \in Seq(S), NEW z \in Seq(S)
        PROVE  (x \o y) \o z = x \o (y \o z)
    BY ConcatAssociative
  <2>2. (a \o r) \o out[c] = a \o (r \o out[c])
    BY ONLY <1>1, <1>5, <2>1
  <2>3. QED
    BY <1>2, <2>2 DEF b
<1>8. b \in Seq(S) /\ Len(b) = Len(r) + Len(out[c]) /\ \A i \in 1 .. Len(r) : b[i] = r[i]
  <2>1. \A i \in 1 .. Len(r) : i \in 1 .. Len(r) + Len(out[c]) /\ i <= Len(r)
    BY ONLY <1>6
  <2>2. QED
    BY <1>6, <2>1 DEF b
<1>9. /\ s \in Seq(S) /\ Len(s) = 1 + Len(b)
      /\ \A i \in 1 .. 1 + Len(b) : s[i] = IF i <= 1 THEN a[i] ELSE b[i - 1]
  <2>1. ASSUME NEW x \in Seq(S), NEW y \in Seq(S)
        PROVE  /\ x \o y \in Seq(S) /\ Len(x \o y) = Len(x) + Len(y)
               /\ \A i \in 1 .. Len(x) + Len(y) : (x \o y)[i] = IF i <= Len(x) THEN x[i] ELSE y[i - Len(x)]
    BY ConcatProperties
  <2>2. /\ a \o b \in Seq(S) /\ Len(a \o b) = Len(a) + Len(b)
        /\ \A i \in 1 .. Len(a) + Len(b) : (a \o b)[i] = IF i <= Len(a) THEN a[i] ELSE b[i - Len(a)]
    BY ONLY <1>5, <1>8, <2>1
  <2>3. Len(a) = 1
    BY <1>5
  <2>4. QED
    BY ONLY <1>7, <2>2, <2>3
<1>10. Len(b) \in Nat
  BY <1>6, <1>8
<1>11. s[1] = line /\ s # <<>>
  <2>1. 1 \in 1 .. 1 + Len(b) /\ 1 <= 1
    BY ONLY <1>10
  <2>2. s[1] = line
    BY <1>5, <1>9, <2>1
  <2>3. Len(s) # 0
    BY ONLY <1>9, <1>10
  <2>4. s # <<>>
    BY <2>3
  <2>5. QED
    BY <2>2, <2>4
<1>12. ASSUME NEW i \in 1 .. Len(r)
       PROVE  s[i + 1] = r[i]
  <2>1. i + 1 \in 1 .. 1 + Len(b) /\ ~(i + 1 <= 1) /\ (i + 1) - 1 = i
    BY ONLY <1>6, <1>8, <1>12
  <2>2. s[i + 1] = b[(i + 1) - 1]
    BY ONLY <1>9, <2>1
  <2>3. QED
    BY <1>8, <2>1, <2>2
<1>13. \/ \E k \in Errors : Len(s) = 1 /\ s[1] = <<"status", k, 0>>
       \/ \E n \in Names : /\ Kind[n] = "regular"
                           /\ \E m \in 0 .. Size[n] :
                                 /\ Len(s) = m + 1 /\ s[1] = Header(n)
                                 /\ \A i \in 1 .. m : s[i + 1] = <<"chunk", n, i>>
  BY <1>3, <1>9, <1>11, AnswerShape DEF S
<1>14. CASE \E k \in Errors : s[1] = <<"status", k, 0>>
  <2>1. PICK k \in Errors : line = <<"status", k, 0>>
    BY <1>11, <1>14
  <2>2. status_code[c] = k
    BY <2>1 DEF line
  <2>3. QED
    BY <2>2
<1>15. CASE \E n \in Names : /\ Kind[n] = "regular"
                             /\ \E m \in 0 .. Size[n] :
                                   /\ Len(s) = m + 1 /\ s[1] = Header(n)
                                   /\ \A i \in 1 .. m : s[i + 1] = <<"chunk", n, i>>
  <2>1. PICK n \in Names : /\ Kind[n] = "regular"
                           /\ \E m \in 0 .. Size[n] :
                                 /\ Len(s) = m + 1 /\ s[1] = Header(n)
                                 /\ \A i \in 1 .. m : s[i + 1] = <<"chunk", n, i>>
    BY <1>15
  <2>2. PICK m \in 0 .. Size[n] :
            Len(s) = m + 1 /\ s[1] = Header(n) /\ \A i \in 1 .. m : s[i + 1] = <<"chunk", n, i>>
    BY <2>1
  <2>3. status_code[c] = 200 /\ content_length[c] = Size[n]
    BY <1>11, <2>2 DEF line, Header
  <2>4. Size[n] \in Nat
    BY <2>1, KindAssumption
  <2>5. Len(r) <= m
    BY ONLY <1>6, <1>8, <1>9, <2>2, <2>4
  <2>6. Len(r) <= Size[n] /\ \A i \in 1 .. Len(r) : i \in 1 .. m
    BY ONLY <1>6, <2>2, <2>4, <2>5
  <2>7. \A i \in 1 .. Len(r) : r[i] = <<"chunk", n, i>>
    BY <1>12, <2>2, <2>6
  <2>8. QED
    BY <2>1, <2>3, <2>6, <2>7 DEF r
<1>16. QED
  BY <1>13, <1>14, <1>15

(* The server answers a connection once, for any numbers of slots, clients *)
(* and descriptors, mixed requests included: all that a client is sent is  *)
(* one error, or the header of one file that others may read and that file *)
(* from its start (SendError, SendFile); and a client that reports success *)
(* has all of that file.                                                   *)
THEOREM AnswersAreWholeAlways == Spec => []AnswersAreWhole
<1>1. ASSUME AnswerInv, NEW c \in Clients, cpc[c] = "saved"
      PROVE  \E n \in Names : Kind[n] = "regular" /\ received[c] = Chunks(n, Size[n])
  <2>1. status_code[c] = 200 /\ Len(received[c]) = content_length[c]
    BY <1>1 DEF AnswerInv, ClientInv, Complete
  <2>2. 200 \notin Errors
    BY DEF Errors
  <2>3. PICK n \in Names : /\ Kind[n] = "regular" /\ content_length[c] = Size[n]
                           /\ \A i \in 1 .. Len(received[c]) : received[c][i] = <<"chunk", n, i>>
    BY <1>1, <2>1, <2>2, StatusIsFirst
  <2>4. received[c] \in Seq(ChunkSet)
    BY <1>1 DEF AnswerInv, AnswerTypeOK
  <2>5. received[c] = [k \in 1 .. Len(received[c]) |-> received[c][k]]
    BY <2>4
  <2>6. Len(received[c]) = Size[n]
    BY <2>1, <2>3
  <2>7. received[c] = [k \in 1 .. Size[n] |-> received[c][k]]
    BY <2>5, <2>6
  <2>8. \A k \in 1 .. Size[n] : received[c][k] = <<"chunk", n, k>>
    BY <2>3, <2>6
  <2>9. [k \in 1 .. Size[n] |-> received[c][k]] = [k \in 1 .. Size[n] |-> <<"chunk", n, k>>]
    BY <2>8
  <2>10. received[c] = Chunks(n, Size[n])
    BY <2>7, <2>9 DEF Chunks
  <2>11. QED
    BY <2>3, <2>10
<1>2. AnswerInv => AnswersAreWhole
  <2>1. AnswerInv => \A c \in Clients : Answer(c, Stream(c))
    BY DEF AnswerInv, StreamInv
  <2>2. QED
    BY <1>1, <2>1 DEF AnswersAreWhole, Answer, Errors
<1>3. QED
  BY <1>2, AnswersInvariant, PTL
=============================================================================
