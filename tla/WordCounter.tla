---------------------------- MODULE WordCounter ----------------------------
(***************************************************************************)
(* What the hash map of hw3 promises: for each word, how many occurrences  *)
(* are stored.  There are two maps, of which the second is merged into the *)
(* first; nothing but a call changes the numbers; the process may end when *)
(* a map has no room for a word.  HashMap implements this specification.   *)
(***************************************************************************)
EXTENDS Naturals

CONSTANTS
    Maps,       \* the maps
    Words,      \* the words
    Cnts        \* the numbers of occurrences one Insert may add

VARIABLES
    count,      \* count[h][w]: the occurrences of w in map h
    state       \* "ready", "busy" while a call is executed, "exited"

absVars == <<count, state>>

AbsInit == count = [h \in Maps |-> [w \in Words |-> 0]] /\ state = "ready"

(* A call takes effect at its start, and may take more steps.              *)
Call == state = "ready" /\ state' \in {"ready", "busy"}

Insert(h, w, c) == Call /\ count' = [count EXCEPT ![h][w] = @ + c]

Remove(h, w) == Call /\ count[h][w] > 0 /\ count' = [count EXCEPT ![h][w] = @ - 1]

Merge(fir, sec) ==
    /\ Call /\ fir # sec
    /\ count' = [count EXCEPT ![fir] = [w \in Words |-> @[w] + count[sec][w]]]

Clear(h) == Call /\ count' = [count EXCEPT ![h] = [w \in Words |-> 0]]

(* The end of a call.                                                      *)
Return == state = "busy" /\ state' = "ready" /\ UNCHANGED count

(* The process ends, in whatever state its memory is.                      *)
Exit == state # "exited" /\ state' = "exited"

AbsNext == \/ \E h \in Maps, w \in Words :
                 Remove(h, w) \/ \E c \in Cnts : Insert(h, w, c)
           \/ \E fir, sec \in Maps : Merge(fir, sec)
           \/ \E h \in Maps : Clear(h)
           \/ Return
           \/ Exit

AbsSpec == AbsInit /\ [][AbsNext]_absVars
=============================================================================
