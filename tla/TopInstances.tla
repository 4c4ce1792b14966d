---------------------------- MODULE TopInstances ----------------------------
(***************************************************************************)
(* GetTopInstances of hw11-ParsingLogs/main.c, by which PrintResults shows *)
(* the 'length' most frequent words of a hash map.  The words come in the  *)
(* order of GetAllWords, which is that of the table and thus arbitrary.    *)
(* A word is its place in that list; 0 is the NULL of an empty slot.       *)
(***************************************************************************)
EXTENDS Naturals, Sequences, FiniteSets

CONSTANTS
    Length,     \* the length of top[], TOP_N
    MaxWords,   \* bound of the model: the number of words in the map
    MaxCnt      \* bound of the model: the number of occurrences of a word

ASSUME LengthAssumption == Length \in Nat \ {0}
ASSUME BoundsAssumption == MaxWords \in Nat /\ MaxCnt \in Nat

NULL == 0
Slots == 1 .. Length
Lists == UNION {[1 .. n -> 1 .. MaxCnt] : n \in 0 .. MaxWords}

VARIABLES
    buckets,    \* buckets[n]: cnt of the n-th listed word
    node,       \* the word the loop has reached
    top,        \* top[s]: the word copied to slot s, or NULL
    filled      \* "fill", "print"

topVars == <<buckets, node, top, filled>>

TopInit == /\ buckets \in Lists
           /\ node = 1
           /\ top = [s \in Slots |-> NULL]
           /\ filled = "fill"

Cnt(s) == buckets[top[s]]
EmptySlots == {s \in Slots : top[s] = NULL}

FirstOf(S) == CHOOSE s \in S : \A r \in S : s <= r

(* The wrong slot: the one with the greatest count.                        *)
MutPos == IF EmptySlots # {}
          THEN FirstOf(EmptySlots)
          ELSE FirstOf({s \in Slots : \A r \in Slots : Cnt(r) <= Cnt(s)})

(* The first empty slot, or else the first one with the least count.       *)
Pos == IF EmptySlots # {}
       THEN FirstOf(EmptySlots)
       ELSE FirstOf({s \in Slots : \A r \in Slots : Cnt(s) <= Cnt(r)})

(* One round of the loop: the word takes the slot, whatever its count is.  *)
Fill == /\ filled = "fill" /\ node <= Len(buckets)
        /\ top' = [top EXCEPT ![Pos] = node]
        /\ node' = node + 1
        /\ UNCHANGED <<buckets, filled>>

(* TopInstancesComparator(v, w) <= 0.                                      *)
InOrder(v, w) == IF w = NULL THEN TRUE ELSE v # NULL /\ buckets[v] >= buckets[w]

(* SortTopInstances: qsort leaves equal words in any order.                *)
Sort == /\ filled = "fill" /\ node > Len(buckets)
        /\ \E p \in [Slots -> Slots] :
              /\ \A r, s \in Slots : r # s => p[r] # p[s]
              /\ top' = [s \in Slots |-> top[p[s]]]
              /\ \A r, s \in Slots : r < s => InOrder(top'[r], top'[s])
        /\ filled' = "print"
        /\ UNCHANGED <<buckets, node>>

TopNext == Fill \/ Sort
TopSpec == TopInit /\ [][TopNext]_topVars

-----------------------------------------------------------------------------
(* A count that may stand at rank k of the list: fewer than k words have   *)
(* more occurrences, and at least k have as many.                          *)
HasRank(k, c) ==
    /\ Cardinality({n \in DOMAIN buckets : buckets[n] > c}) < k
    /\ Cardinality({n \in DOMAIN buckets : buckets[n] >= c}) >= k

RightAt(s) == IF s <= Len(buckets) THEN top[s] # NULL /\ HasRank(s, Cnt(s))
                                   ELSE top[s] = NULL

(* All places but the last are right, though a full top gives up its least *)
(* word even for a lesser one; if the words fit, the last is right, too.   *)
UpperPlacesRight ==
    filled = "print" => \A s \in Slots :
        s < Length \/ Len(buckets) <= Length => RightAt(s)
=============================================================================
