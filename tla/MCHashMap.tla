------------------------------ MODULE MCHashMap ------------------------------
(* Small instances of HashMap for TLC. *)
EXTENDS HashMap, TLC

CONSTANTS a, b, c

Words3 == {a, b, c}
(* In tables of 2, 4, 8 and 100 buckets a and b collide; c is their neighbour. *)
Hash3 == (a :> 800) @@ (b :> 1600) @@ (c :> 801)

Vocabulary32 == [fir |-> {a, b, c}, sec |-> {a, b}]
=============================================================================
