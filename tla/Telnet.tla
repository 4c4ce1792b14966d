--------------------------------- MODULE Telnet ---------------------------------
(***************************************************************************)
(* hw12-TelnetIllustrator: a client that waits for the prompt of a server, *)
(* sends one command and prints the answer up to the next prompt, which is *)
(* a dot on a line of its own.  TCP may cut what the server sends anywhere.*)
(***************************************************************************)
EXTENDS Integers, Sequences

CONSTANTS
    AddressLists,       \* what getaddrinfo may return: lists of socket types
    Banners, Answers,   \* what the server may say, prompt included
    MAX_BUFFER_LEN

ASSUME TelnetAssumption == MAX_BUFFER_LEN \in Nat \ {0}

VARIABLES
    info,       \* the list of addresses
    found,      \* found_addr: a place in the list, or NoAddr
    banner, answer,
    wire,       \* sent by the server and not received
    printed,    \* what the client printed of the answer
    step        \* where the client is, or how it ended

telnetVars == <<info, found, banner, answer, wire, printed, step>>
NoAddr == 0
Prompt == <<"nl", "dot">>
ASSUME TelnetTexts == \A text \in Banners \union Answers :
    text \in Seq(STRING) /\ Len(text) > 1 /\ SubSeq(text, Len(text) - 1, Len(text)) = Prompt
Over == {"done", "failed"}
Body(text) == SubSeq(text, 1, Len(text) - 1)    \* a text without its last dot

TelnetInit ==
    /\ info \in AddressLists /\ found = IF info = <<>> THEN NoAddr ELSE 1
    /\ banner \in Banners /\ answer \in Answers
    /\ wire = <<>> /\ printed = <<>> /\ step = "search"

-----------------------------------------------------------------------------
Says == UNCHANGED <<info, banner, answer>>

(* The address after the FIRST one, whichever was looked at.               *)
Search ==
    /\ step = "search" /\ found # NoAddr /\ info[found] # "stream"
    /\ found' = IF Len(info) > 1 THEN 2 ELSE NoAddr
    /\ UNCHANGED <<wire, printed, step>> /\ Says
GetTelehackAddr ==
    /\ step = "search" /\ (IF found = NoAddr THEN TRUE ELSE info[found] = "stream")
    /\ step' = IF found = NoAddr THEN "failed" ELSE "connect"
    /\ UNCHANGED <<found, wire, printed>> /\ Says

Connect ==
    /\ step = "connect" /\ step' = "start" /\ wire' = banner
    /\ UNCHANGED <<found, printed>> /\ Says

MutServerWaits(piece) == Len(piece) > 1 /\ SubSeq(piece, Len(piece) - 1, Len(piece)) = Prompt
ServerWaitsForNewCommand(piece) ==
    LET len == Len(piece) IN
    \/ len = 1 /\ piece[1] = "dot"
    \/ len > 1 /\ SubSeq(piece, len - 1, len) = Prompt

(* recv returns a beginning of what was sent: the network, and the buffer, *)
(* may cut it.                                                             *)
Pieces == {SubSeq(wire, 1, len) : len \in {n \in 1 .. MAX_BUFFER_LEN : n <= Len(wire)}}
Recv(piece) == wire' = SubSeq(wire, Len(piece) + 1, Len(wire))
MutHandleStart(piece) == step' = "command"
HandleStart(piece) ==
    step' = IF ServerWaitsForNewCommand(piece) THEN "command" ELSE "start"
ReadStartMessage ==
    /\ step = "start" /\ \E piece \in Pieces : Recv(piece) /\ HandleStart(piece)
    /\ UNCHANGED <<found, printed>> /\ Says

(* The server reads the command when it waits for one, and answers it.     *)
SendFigletCommand ==
    /\ step = "command" /\ step' = "result" /\ wire' = wire \o answer
    /\ UNCHANGED <<found, printed>> /\ Says

(* A full buffer is terminated one byte behind its end, where nothing else *)
(* of the program is.                                                      *)
HandleResult(piece) ==
    IF ServerWaitsForNewCommand(piece)
    THEN printed' = printed \o Body(piece) /\ step' = "done"
    ELSE printed' = printed \o piece /\ UNCHANGED step
ReadResultResponse ==
    /\ step = "result" /\ \E piece \in Pieces : Recv(piece) /\ HandleResult(piece)
    /\ UNCHANGED found /\ Says

(* getaddrinfo, connect, recv or send fails, or the server goes away.      *)
TelnetFails ==
    /\ step \notin Over /\ step' = "failed"
    /\ UNCHANGED <<found, wire, printed>> /\ Says

Client ==
    \/ Search \/ GetTelehackAddr \/ Connect
    \/ ReadStartMessage \/ SendFigletCommand \/ ReadResultResponse
TelnetNext == Client \/ TelnetFails
TelnetSpec == TelnetInit /\ [][TelnetNext]_telnetVars

(* The client is a process that runs; a recv returns once something was    *)
(* sent, and the server sends its texts to the end.                        *)
TelnetFairness == WF_telnetVars(Client)

-----------------------------------------------------------------------------
(* The client ends, wherever its messages are cut: the last piece of a     *)
(* text is always taken for the prompt.  The exception is the search in    *)
(* GetTelehackAddr (main.c:59), which never gets beyond the second address.*)
TelnetEnds ==
    (Len(info) < 2 \/ "stream" \in {info[1], info[2]}) ~> step \in Over

(* The answer is printed whole and nothing but the answer, however it and  *)
(* the banner are cut, if neither has a dot before its prompt.  With one,  *)
(* a piece that is that dot alone is taken for the prompt.                 *)
AnswerIsPrinted ==
    LET dots(text) == {i \in DOMAIN text : text[i] = "dot"} IN
    step = "done" /\ dots(Body(banner)) = {} /\ dots(Body(answer)) = {}
        => printed = Body(answer)
=============================================================================
