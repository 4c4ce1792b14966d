---------------------------- MODULE HTTPExchange ----------------------------
(***************************************************************************)
(* The HTTP server of hw13-HTTP-server together with its clients.  A client*)
(* is one RunClient of Client.c: it connects, sends a request, receives the*)
(* status line and then the file until the server closes the connection.   *)
(* A client of Impatient may also be killed at any time, the files of      *)
(* Volatile may be removed, and the request of a client of Slow reaches the*)
(* server in two pieces.                                                   *)
(***************************************************************************)
EXTENDS HTTPServer, SequencesExt

CONSTANTS Impatient, Volatile, Slow

ASSUME EnvironmentAssumption ==
    Impatient \subseteq Clients /\ Slow \subseteq Clients /\ Volatile \subseteq Names

VARIABLES
    cpc,            \* where each client is, and how it ended
    status_code,    \* what the client parsed from the status line, 0 before
    content_length,
    received        \* the chunks in the output file

clientVars == <<cpc, status_code, content_length, received>>
vars == <<serverVars, clientVars>>

Init == /\ ServerInit
        /\ cpc = [c \in Clients |-> "start"]
        /\ status_code = [c \in Clients |-> 0]
        /\ content_length = [c \in Clients |-> 0]
        /\ received = [c \in Clients |-> <<>>]

-----------------------------------------------------------------------------
(* Mistakes that TLC must be able to see.                                  *)

(* Report success without comparing the length.                            *)
MutComplete(c) == TRUE

-----------------------------------------------------------------------------
(* The client.                                                             *)

ServerUnchanged == UNCHANGED <<kernelVars, status, mainVars, slotVars, pc, ownVars, strtok_last>>

(* No more data will come: the server has closed the connection or ended.  *)
EndOfStream(c) == out[c] = <<>> /\ (c \in closed \/ status # "running")

(* The end of RunClient, with close of the socket.                         *)
Finish(c, how) ==
    /\ cpc' = [cpc EXCEPT ![c] = how]
    /\ gone' = gone \cup {c}

ConnectToServer(c) ==
    /\ cpc[c] = "start"
    /\ IF status = "running"
       THEN /\ queue' = Append(queue, c)
            /\ cpc' = [cpc EXCEPT ![c] = "send"]
            /\ UNCHANGED gone
       ELSE /\ Finish(c, "failed")
            /\ UNCHANGED queue
    /\ UNCHANGED <<inbox, out, closed, status_code, content_length, received>>
    /\ ServerUnchanged

(* One send of the whole request, after which the output file is opened,   *)
(* and thereby emptied.                                                    *)
SendRequest(c) ==
    /\ cpc[c] = "send"
    /\ inbox' = [inbox EXCEPT ![c] = IF c \in Slow /\ Len(Request[c]) = 3 THEN 2 ELSE Len(Request[c])]
    /\ cpc' = [cpc EXCEPT ![c] = "header"]
    /\ received' = [received EXCEPT ![c] = <<>>]
    /\ UNCHANGED <<queue, out, gone, closed, status_code, content_length>>
    /\ ServerUnchanged

(* The rest of a request that the network has split.                       *)
DeliverRest(c) ==
    /\ c \in Slow /\ cpc[c] = "header" /\ inbox[c] = 2
    /\ inbox' = [inbox EXCEPT ![c] = 3]
    /\ UNCHANGED <<queue, out, gone, closed, clientVars>>
    /\ ServerUnchanged

ReceiveStatus(c) ==
    /\ cpc[c] = "header" /\ out[c] # <<>>
    /\ LET line == Head(out[c])
       IN  /\ status_code' = [status_code EXCEPT ![c] = line[2]]
           /\ content_length' = [content_length EXCEPT ![c] = line[3]]
           /\ IF line[2] = 200
              THEN cpc' = [cpc EXCEPT ![c] = "body"] /\ UNCHANGED gone
              ELSE Finish(c, "failed")
    /\ out' = [out EXCEPT ![c] = Tail(@)]
    /\ UNCHANGED <<queue, inbox, closed, received>>
    /\ ServerUnchanged

(* The connection ends before the status line: response is NULL when its   *)
(* status_code is printed.                                                 *)
NoStatus(c) ==
    /\ cpc[c] = "header" /\ EndOfStream(c)
    /\ Finish(c, "crashed")
    /\ UNCHANGED <<queue, inbox, out, closed, status_code, content_length, received>>
    /\ ServerUnchanged

ReceiveFile(c) ==
    /\ cpc[c] = "body" /\ out[c] # <<>>
    /\ received' = [received EXCEPT ![c] = Append(@, Head(out[c]))]
    /\ out' = [out EXCEPT ![c] = Tail(@)]
    /\ UNCHANGED <<queue, inbox, gone, closed, cpc, status_code, content_length>>
    /\ ServerUnchanged

Complete(c) == Len(received[c]) = content_length[c]

EndOfFile(c) ==
    /\ cpc[c] = "body" /\ EndOfStream(c)
    /\ Finish(c, IF Complete(c) THEN "saved" ELSE "failed")
    /\ UNCHANGED <<queue, inbox, out, closed, status_code, content_length, received>>
    /\ ServerUnchanged

Client(c) == \/ ReceiveStatus(c) \/ NoStatus(c) \/ ReceiveFile(c) \/ EndOfFile(c)

(* A client is killed.  The kernel of the server may drop its connection   *)
(* when it was not accepted yet, and what it had sent.                     *)
Abort(c) ==
    /\ c \in Impatient /\ cpc[c] \in {"send", "header", "body"}
    /\ cpc' = [cpc EXCEPT ![c] = "aborted"]
    /\ gone' = gone \cup {c}
    /\ \/ UNCHANGED queue
       \/ \E i \in DOMAIN queue : queue[i] = c /\ queue' = RemoveAt(queue, i)
    /\ inbox' \in {inbox, [inbox EXCEPT ![c] = 0]}
    /\ UNCHANGED <<out, closed, status_code, content_length, received>>
    /\ ServerUnchanged

RemoveFile(n) ==
    /\ n \in Volatile /\ disk[n] # "missing"
    /\ disk' = [disk EXCEPT ![n] = "missing"]
    /\ UNCHANGED <<netVars, fds, watched, status, mainVars, slotVars, pc, ownVars, strtok_last, clientVars>>

-----------------------------------------------------------------------------
(* Nothing more to do: every client has ended.                             *)
Ended == /\ \A c \in Clients : c \in gone
         /\ status # "running" \/ (main_pc = "wait" /\ Ready = {})
         /\ UNCHANGED vars

Next == \/ Server /\ UNCHANGED clientVars
        \/ \E c \in Clients : \/ ConnectToServer(c) \/ SendRequest(c) \/ DeliverRest(c)
                              \/ Client(c) \/ Abort(c)
        \/ \E n \in Names : RemoveFile(n)
        \/ Ended

Spec == Init /\ [][Next]_vars

(* Threads are scheduled, and a client that waits for data takes it.  No   *)
(* client has to connect or to send.                                       *)
Fairness ==
    /\ WF_vars(Main /\ UNCHANGED clientVars)
    /\ \A w \in Workers : WF_vars(Worker(w) /\ UNCHANGED clientVars)
    /\ \A c \in Clients : WF_vars(Client(c))

FairSpec == Spec /\ Fairness
-----------------------------------------------------------------------------
(* Properties.                                                             *)

(* Where a worker has an open connection, and where an open file.          *)
Connected == {"recv", "parse", "error", "size", "open", "header", "body", "closefile", "close"}

(* Every descriptor of a client has exactly one owner, who will close it:  *)
(* kqueue, an event of the current batch, the main thread in RunWorker, or *)
(* a worker; and nobody owns a descriptor that is closed.  A second owner  *)
(* would read the request of, or close, a connection that has been given   *)
(* the same number since.                                                  *)
Owners(f) ==
    {<<"kqueue", f>> : x \in {f} \cap watched}
    \cup {<<"event", e>> : e \in {d \in events : d.fd = f}}
    \cup {<<"main", f>> : x \in {f} \cap {main_fd}}
    \cup {<<"worker", w>> : w \in {v \in Workers : pc[v] \in Connected /\ fd[v] = f}}

OneOwner == \A f \in Fds : Cardinality(Owners(f)) = IF fds[f] \in Clients THEN 1 ELSE 0

(* While a worker serves a connection its descriptor stands for the client *)
(* it was started for, and no other worker serves that client.             *)
NoStrangerServed ==
    \A w \in Workers : pc[w] \in Connected =>
        /\ fds[fd[w]] = client[w]
        /\ \A v \in Workers \ {w} : pc[v] \in Connected => client[v] # client[w]

(* A slot is given to a new thread only when the thread it had is gone:    *)
(* worker_finished is set by a thread that still runs.                     *)
OneThreadPerSlot ==
    [][\A w \in Workers : pc'[w] = "recv" /\ pc[w] # "recv" => pc[w] \in {"none", "exited"}]_vars

(* What README.md promises for a request: the file, 404 for a file that    *)
(* does not exist and 403 for one that needs a read permission; 400, from  *)
(* the code, for what is no GET request of a regular file.                 *)
Expected(c) ==
    IF Len(Request[c]) # 3 \/ ~ValidRequest(Request[c]) THEN 400
    ELSE CASE Kind[Request[c][2]] = "missing" -> 404
           [] Kind[Request[c][2]] \in {"private", "locked"} -> 403
           [] Kind[Request[c][2]] = "directory" -> 400
           [] OTHER -> 200

(* README.md: "If file doesn't exist server will return 404 status code."  *)
MissingIs404 ==
    \A c \in Clients : status_code[c] # 0 /\ Expected(c) = 404 => status_code[c] = 404

(* All that a client is ever sent, in order: what it has parsed and saved, *)
(* and what is still on its way.                                           *)
Told(c) == IF status_code[c] = 0 THEN <<>> ELSE <<<<"status", status_code[c], content_length[c]>>>>
Stream(c) == Told(c) \o received[c] \o out[c]

Header(n) == <<"status", 200, Size[n]>>
Chunks(n, m) == [k \in 1 .. m |-> <<"chunk", n, k>>]

(* Whatever requests are mixed, files removed and workers, buffers and     *)
(* descriptors short of, a client is sent one answer: nothing yet, one     *)
(* error, or the header of one file that others may read and a beginning   *)
(* of that same file.  A client that reports success has all of one file.  *)
AnswersAreWhole ==
    \A c \in Clients :
        /\ \/ Stream(c) = <<>>
           \/ \E k \in {400, 403, 404} : Stream(c) = <<<<"status", k, 0>>>>
           \/ \E n \in Names : /\ Kind[n] = "regular"
                             /\ \E m \in 0 .. Size[n] : Stream(c) = <<Header(n)>> \o Chunks(n, m)
        /\ cpc[c] = "saved" =>
              \E n \in Names : Kind[n] = "regular" /\ received[c] = Chunks(n, Size[n])

(* A client that reports success has saved the file it asked for, whole    *)
(* and in order, whatever the server could not send.                       *)
SavedIsWhole ==
    \A c \in Clients : cpc[c] = "saved" =>
        /\ Expected(c) = 200
        /\ received[c] = Chunks(Request[c][2], Size[Request[c][2]])

(* A client that has sent its request and waits is not left waiting: the   *)
(* server answers or closes the connection, also when all workers are busy.*)
NobodyWaitsForever ==
    \A c \in Clients : cpc[c] \in {"header", "body"} ~> cpc[c] \notin {"header", "body"}

(* Every connection that ends is closed by the server, too, so that its    *)
(* descriptor is free again.                                               *)
DescriptorsAreFreed ==
    \A c \in Clients : c \in gone ~> (status # "running" \/ \A f \in Fds : fds[f] # c)
=============================================================================
