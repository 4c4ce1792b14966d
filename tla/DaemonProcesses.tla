--------------------------- MODULE DaemonProcesses ---------------------------
(* What the modules about hw9-Daemon share.                                *)
EXTENDS Integers, Sequences

CONSTANTS
    Daemons,    \* processes of MyDaemon, each of which starts once
    Faults      \* TRUE: calls may fail and processes may be killed

ASSUME FaultsAssumption == Faults \in BOOLEAN

None == "none"      \* no process
Nul == "nul"        \* bytes of a file that nobody has written

ASSUME DaemonsAssumption == {None, Nul} \cap Daemons = {}
=============================================================================
