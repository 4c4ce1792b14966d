------------------------------- MODULE HashMap -------------------------------
(***************************************************************************)
(* The open-addressing hash map of hw3-hashmap, used by hw11 to weigh URLs *)
(* and referers: the total (fir) receives the map of one worker after the  *)
(* other (sec).  A map is probed from the hash of the word in strides of a *)
(* step drawn when the map is created; -1 marks an empty bucket.           *)
(*                                                                         *)
(* Insert, Remove, the start of a merge and one round of the loops of      *)
(* ExpandHashMap and MergeHashMaps are one action each: one thread         *)
(* executes them, and pc says in which loop it is.                         *)
(***************************************************************************)
EXTENDS Integers, FiniteSets

CONSTANTS
    Words,          \* the words
    NoWord,         \* what an unused bucket holds, which nothing reads
    Hash,           \* Hash[w]: what GetHash returns for w
    DefaultSize,    \* kDefaultHashMapSize
    Rands,          \* what rand() may return
    Cnts,           \* the numbers of occurrences one Insert may add
    MaxCnt,         \* bound of the model: the occurrences of a word
    Vocabulary      \* bound of the model: the words inserted in each map

Maps == {"fir", "sec"}

ASSUME NoWordAssumption == NoWord \notin Words
ASSUME HashAssumption == Hash \in [Words -> Nat]
ASSUME SizeAssumption == DefaultSize \in Nat \ {0}
ASSUME RandsAssumption == Rands \subseteq Nat
ASSUME CntsAssumption == Cnts \subseteq Nat
ASSUME VocabularyAssumption == Vocabulary \in [Maps -> SUBSET Words]

NULL == -1
Empty == [word |-> NoWord, cnt |-> -1]

VARIABLES
    hash_map,       \* the two maps: size, used_nodes, step, table
    pc,             \* "ready", "expand", "merge", "exited", or "nested"
    cur,            \* the map ExpandHashMap works on
    back,           \* where the Insert that expands returns to
    old_table,      \* the table it replaces
    expand_i,       \* and the index in it
    merge_i         \* index in the table of sec of the next word to merge

expandVars == <<cur, back, old_table, expand_i>>
vars == <<hash_map, pc, expandVars, merge_i>>

-----------------------------------------------------------------------------
LeastOf(S) == CHOOSE n \in S : \A m \in S : n <= m

(* 0 and 1 have no divisor from 2 up to their root, and pass.              *)
IsPrime(n) == \A d \in 2 .. n : d * d <= n => n % d # 0

(* The first number from r on that passes; there is one below 2 r + 2.     *)
GenerateStep(r) == LeastOf({n \in r .. 2 * r + 2 : IsPrime(n)})

(* That is Bertrand's postulate; without it the loop would not end.        *)
ASSUME StepsAssumption == \A r \in Rands : \E n \in r .. 2 * r + 2 : IsPrime(n)

EmptyTable(size) == [p \in 0 .. size - 1 |-> Empty]

CreateHashMap(step) == [size |-> DefaultSize, used_nodes |-> 0, step |-> step,
                        table |-> EmptyTable(DefaultSize)]

NewMaps == {CreateHashMap(GenerateStep(r)) : r \in Rands}

Cells(m) == 0 .. m.size - 1
Used(m) == {p \in Cells(m) : m.table[p].cnt # -1}

(* The position after k strides from the hash of w.                        *)
Probe(m, w, k) == ((Hash[w] % m.size) + k * m.step) % m.size

Matches(m, w, p) == m.table[p].cnt = -1 \/ m.table[p].word = w

(* The loop of Find ends where it began: it visits each position of the    *)
(* cycle once, and size strides go round it at least once.                 *)
Find(m, w) ==
    LET hits == {k \in Cells(m) : Matches(m, w, Probe(m, w, k))}
    IN  IF hits = {} THEN NULL ELSE Probe(m, w, LeastOf(hits))

(* Insert after Find, without the expansion.                               *)
Put(m, w, c) ==
    LET p == Find(m, w)
    IN  IF m.table[p].cnt = -1
        THEN [m EXCEPT !.table[p] = [word |-> w, cnt |-> c], !.used_nodes = @ + 1]
        ELSE [m EXCEPT !.table[p].cnt = @ + c]

(* Mistakes that TLC must be able to see.  An expansion that comes only    *)
(* when the table is full:                                                 *)
MutOverloaded(m) == m.used_nodes > m.size

Overloaded(m) == m.used_nodes > m.size \div 2

(* The table ExpandHashMap starts to fill.                                 *)
Doubled(m) == [m EXCEPT !.size = 2 * @, !.used_nodes = 0,
                        !.table = EmptyTable(2 * m.size)]

(* GetAllWords lists the buckets for which this holds.                     *)
Listed(bucket) == bucket.cnt > 0

(* The occurrences of w in the table, from index from on.                  *)
CountIn(table, from, w) ==
    LET at == {p \in DOMAIN table : p >= from /\ table[p].word = w /\ Listed(table[p])}
    IN  IF at = {} THEN 0 ELSE table[CHOOSE p \in at : TRUE].cnt

-----------------------------------------------------------------------------
Init == /\ hash_map \in [Maps -> NewMaps]
        /\ pc = "ready"
        /\ cur = "fir" /\ back = "ready"
        /\ old_table = EmptyTable(0) /\ expand_i = 0
        /\ merge_i = 0

Exit == pc' = "exited" /\ UNCHANGED <<hash_map, expandVars>>

(* Insert on behalf of the caller at place from, to which it returns: the  *)
(* process exits if Find returned NULL, and a map more than half full is   *)
(* expanded first.                                                         *)
InsertFrom(h, w, c, from) ==
    LET m == Put(hash_map[h], w, c)
    IN  IF Find(hash_map[h], w) = NULL
        THEN Exit
        ELSE IF Overloaded(m)
        THEN /\ hash_map' = [hash_map EXCEPT ![h] = Doubled(m)]
             /\ pc' = "expand"
             /\ cur' = h /\ back' = from
             /\ old_table' = m.table /\ expand_i' = 0
        ELSE /\ hash_map' = [hash_map EXCEPT ![h] = m]
             /\ pc' = from
             /\ UNCHANGED expandVars

(* MaxCnt and Vocabulary bound the model, not the program.                 *)
Insert(h, w, c) ==
    /\ pc = "ready"
    /\ w \in Vocabulary[h] /\ CountIn(hash_map[h].table, 0, w) + c <= MaxCnt
    /\ InsertFrom(h, w, c, "ready")
    /\ UNCHANGED merge_i

(* More mistakes.  A removal that frees the bucket of the last occurrence: *)
MutRemoveFrees(h, w) ==
    /\ pc = "ready"
    /\ LET p == Find(hash_map[h], w)
           cnt == hash_map[h].table[p].cnt
       IN  /\ p # NULL /\ cnt > 0
           /\ hash_map' = [hash_map EXCEPT
                 ![h].table[p] = IF cnt = 1 THEN Empty ELSE [@ EXCEPT !.cnt = cnt - 1],
                 ![h].used_nodes = IF cnt = 1 THEN @ - 1 ELSE @]
    /\ UNCHANGED <<pc, expandVars, merge_i>>

(* an expansion that moves each word as if it occurred once:               *)
MutExpandStep ==
    /\ pc = "expand" /\ expand_i \in DOMAIN old_table
    /\ hash_map' = IF Listed(old_table[expand_i])
                   THEN [hash_map EXCEPT ![cur] = Put(@, old_table[expand_i].word, 1)]
                   ELSE hash_map
    /\ expand_i' = expand_i + 1
    /\ UNCHANGED <<pc, cur, back, old_table, merge_i>>

(* One occurrence less; the bucket stays in use at 0 occurrences.          *)
Remove(h, w) ==
    /\ pc = "ready"
    /\ LET p == Find(hash_map[h], w)
       IN  /\ p # NULL
           /\ hash_map[h].table[p].cnt > 0
           /\ hash_map' = [hash_map EXCEPT ![h].table[p].cnt = @ - 1]
    /\ UNCHANGED <<pc, expandVars, merge_i>>

(* One round of the loop of ExpandHashMap.  Its Insert would expand again  *)
(* if the new table were more than half full ("nested").                   *)
ExpandStep ==
    /\ pc = "expand" /\ expand_i \in DOMAIN old_table
    /\ LET bucket == old_table[expand_i]
           m == Put(hash_map[cur], bucket.word, bucket.cnt)
       IN  IF ~Listed(bucket)
           THEN UNCHANGED <<hash_map, pc>>
           ELSE IF Find(hash_map[cur], bucket.word) = NULL
           THEN pc' = "exited" /\ UNCHANGED hash_map
           ELSE /\ hash_map' = [hash_map EXCEPT ![cur] = m]
                /\ pc' = IF Overloaded(m) THEN "nested" ELSE pc
    /\ expand_i' = expand_i + 1
    /\ UNCHANGED <<cur, back, old_table, merge_i>>

ExpandEnd ==
    /\ pc = "expand" /\ expand_i \notin DOMAIN old_table
    /\ pc' = back
    /\ old_table' = EmptyTable(0) /\ expand_i' = 0
    /\ UNCHANGED <<hash_map, cur, back, merge_i>>

(* MergeHashMaps(fir, sec).  The words of sec are listed before the first  *)
(* of them is inserted in fir; sec does not change meanwhile.              *)
MergeBegin ==
    /\ pc = "ready"
    /\ \A w \in Words : CountIn(hash_map["fir"].table, 0, w)
                        + CountIn(hash_map["sec"].table, 0, w) <= MaxCnt
    /\ pc' = "merge"
    /\ merge_i' = 0
    /\ UNCHANGED <<hash_map, expandVars>>

MergeStep ==
    /\ pc = "merge" /\ merge_i \in Cells(hash_map["sec"])
    /\ LET bucket == hash_map["sec"].table[merge_i]
       IN  IF Listed(bucket)
           THEN InsertFrom("fir", bucket.word, bucket.cnt, "merge")
           ELSE UNCHANGED <<hash_map, pc, expandVars>>
    /\ merge_i' = merge_i + 1

MergeEnd ==
    /\ pc = "merge" /\ merge_i \notin Cells(hash_map["sec"])
    /\ pc' = "ready"
    /\ merge_i' = 0
    /\ UNCHANGED <<hash_map, expandVars>>

(* DestructHashMap(sec) after the merge, and the map of the next worker.   *)
Replace ==
    /\ pc = "ready"
    /\ \E m \in NewMaps : hash_map' = [hash_map EXCEPT !["sec"] = m]
    /\ UNCHANGED <<pc, expandVars, merge_i>>

Next == \/ \E h \in Maps, w \in Words : Remove(h, w) \/ \E c \in Cnts : Insert(h, w, c)
        \/ ExpandStep \/ ExpandEnd
        \/ MergeBegin \/ MergeStep \/ MergeEnd
        \/ Replace

Spec == Init /\ [][Next]_vars

-----------------------------------------------------------------------------
(* Properties.                                                             *)

(* Find returns the bucket of every word that a table stores, so that no   *)
(* word is stored twice: no removal and no expansion breaks the chain of   *)
(* used buckets from the hash of a word to its bucket.                     *)
StoredIsFound ==
    \A h \in Maps : \A p \in Used(hash_map[h]) :
        Find(hash_map[h], hash_map[h].table[p].word) = p

(* With a step that has no common divisor with the size of the table, the  *)
(* process never exits because Find returned NULL.                         *)
RoomForEveryWord == pc # "exited"

-----------------------------------------------------------------------------
(* The map implements WordCounter: an Insert that expands and a merge take *)
(* effect when they begin.  While a table is expanded the words not yet    *)
(* moved count too, and while sec is merged its words still to come.       *)

Expanding(h) == pc = "expand" /\ cur = h
Merging == pc = "merge" \/ (pc = "expand" /\ back = "merge")

CountOf(h, w) ==
    CountIn(hash_map[h].table, 0, w)
      + (IF Expanding(h) THEN CountIn(old_table, expand_i, w) ELSE 0)
      + (IF Merging /\ h = "fir" THEN CountIn(hash_map["sec"].table, merge_i, w) ELSE 0)

Counter == INSTANCE WordCounter WITH
    count <- [h \in Maps |-> [w \in Words |-> CountOf(h, w)]],
    state <- IF pc \in {"ready", "exited"} THEN pc ELSE "busy"

CounterSpec == Counter!AbsSpec
=============================================================================
