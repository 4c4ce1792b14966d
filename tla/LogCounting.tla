---------------------------- MODULE LogCounting ----------------------------
(***************************************************************************)
(* What the log processor (hw11) promises, without its threads, buffers,   *)
(* locks and files: the lines of the log files are counted one at a time,  *)
(* each at most once; the statistics, when they are published, count every *)
(* line that had to be read exactly once; and the program may stop without *)
(* publishing.  ParallelLogs implements this specification.                *)
(***************************************************************************)
EXTENDS Naturals

CONSTANTS
    Lines,      \* the lines of all the log files
    Required    \* the subset the published statistics must account for

VARIABLES
    counted,    \* the lines counted so far
    outcome,    \* "running", "printed" or "stopped"
    result      \* the published statistics: how often each line is counted

absVars == <<counted, outcome, result>>

Nothing == [l \in Lines |-> 0]

AbsInit == /\ counted = {}
           /\ outcome = "running"
           /\ result = Nothing

(* One more line is parsed and added to the statistics.                    *)
Count(l) == /\ outcome = "running"
            /\ l \notin counted
            /\ counted' = counted \cup {l}
            /\ UNCHANGED <<outcome, result>>

(* The statistics are printed: once per line, no required line missing.    *)
Publish == /\ outcome = "running"
           /\ Required \subseteq counted
           /\ outcome' = "printed"
           /\ result' = [l \in Lines |-> IF l \in counted THEN 1 ELSE 0]
           /\ UNCHANGED counted

(* The program ends without statistics.                                    *)
Stop == /\ outcome = "running"
        /\ outcome' = "stopped"
        /\ UNCHANGED <<counted, result>>

AbsNext == \/ \E l \in Lines : Count(l)
           \/ Publish
           \/ Stop

AbsSpec == AbsInit /\ [][AbsNext]_absVars /\ WF_absVars(Publish \/ Stop)
=============================================================================
