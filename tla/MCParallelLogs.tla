--------------------------- MODULE MCParallelLogs ---------------------------
(* Small instances of ParallelLogs for TLC. *)
EXTENDS ParallelLogs

Length33 == <<3, 3>>
BadSize == {<<2, 1>>}
BadReferer == {<<2, 3>>}
=============================================================================
