--------------------------- MODULE HashMapProofs ---------------------------
(***************************************************************************)
(* Proofs about HashMap, for any words, hashes, sizes and random numbers:  *)
(* the table keeps what it stores where Find looks for it, an expansion    *)
(* never begins another one, and the two maps count words as WordCounter   *)
(* says, expansions and merges included.                                   *)
(***************************************************************************)
EXTENDS HashMap, FiniteSetTheorems, TLAPS

Data == INSTANCE DataLemmas

Buckets == {Empty} \cup [word : Words, cnt : Nat]
Tables == UNION {[0 .. n - 1 -> Buckets] : n \in Nat}
UsedIn(table) == {p \in DOMAIN table : table[p].cnt # NULL}

(* A map, as the calls leave it.                                           *)
MapTypeOK(m) ==
    /\ m = [size |-> m.size, used_nodes |-> m.used_nodes, step |-> m.step, table |-> m.table]
    /\ m.size \in Nat \ {0} /\ m.used_nodes \in Nat /\ m.step \in Nat
    /\ m.table \in [0 .. m.size - 1 -> Buckets]
Found(m) == \A p \in Used(m) : Find(m, m.table[p].word) = p
Counted(m) == m.used_nodes = Cardinality(Used(m))
MapOK(m) == MapTypeOK(m) /\ Found(m) /\ Counted(m)

(* No word is stored twice.                                                *)
Distinct(table) ==
    \A p, q \in UsedIn(table) : table[p].word = table[q].word => p = q

-----------------------------------------------------------------------------
(* Find.                                                                   *)

(* The least number of a set.                                              *)
LEMMA LeastOfIsLeast ==
    ASSUME NEW S, S \subseteq Nat, S # {}
    PROVE  LeastOf(S) \in S /\ \A n \in S : LeastOf(S) <= n
BY Data!LeastNumber DEF LeastOf

(* Strides stay in the table.                                              *)
LEMMA ProbeType ==
    ASSUME NEW m, MapTypeOK(m), NEW w \in Words, NEW k \in Nat
    PROVE  Probe(m, w, k) \in 0 .. m.size - 1
<1>1. m.size \in Nat \ {0} /\ m.step \in Nat /\ Hash[w] \in Nat
  BY HashAssumption DEF MapTypeOK
<1>2. ASSUME NEW n \in Nat \ {0}, NEW x \in Nat
      PROVE  x % n \in 0 .. n - 1
  BY <1>2
<1>3. Hash[w] % m.size \in Nat
  <2>1. Hash[w] % m.size \in 0 .. m.size - 1
    BY <1>1, <1>2
  <2>2. QED
    BY <1>1, <2>1
<1>4. k * m.step \in Nat
  BY <1>1
<1>5. (Hash[w] % m.size) + k * m.step \in Nat
  BY <1>3, <1>4
<1>6. QED
  BY <1>1, <1>2, <1>5 DEF Probe

(* Where the search for w ends: at the first match, if there is one.       *)
First(m, w, k) == /\ k \in Cells(m) /\ Matches(m, w, Probe(m, w, k))
                  /\ \A j \in Cells(m) : j < k => ~Matches(m, w, Probe(m, w, j))

(* Find ends at the first match, and returns NULL where none matches.      *)
LEMMA FindIsFirst ==
    ASSUME NEW m, MapTypeOK(m), NEW w \in Words
    PROVE  /\ \A k \in Cells(m) : First(m, w, k) => Find(m, w) = Probe(m, w, k)
           /\ \/ Find(m, w) = NULL /\ \A k \in Cells(m) : ~Matches(m, w, Probe(m, w, k))
              \/ Find(m, w) \in Cells(m) /\ \E k \in Cells(m) : First(m, w, k) /\ Find(m, w) = Probe(m, w, k)
<1> DEFINE hits == {k \in Cells(m) : Matches(m, w, Probe(m, w, k))}
<1>1. Cells(m) \subseteq Nat /\ Cells(m) = 0 .. m.size - 1
  BY DEF Cells, MapTypeOK
<1>2. Find(m, w) = IF hits = {} THEN NULL ELSE Probe(m, w, LeastOf(hits))
  BY DEF Find
<1>3. hits \subseteq Nat /\ \A k \in Cells(m) : k \in hits <=> Matches(m, w, Probe(m, w, k))
  BY <1>1
<1> HIDE DEF hits
<1>4. ASSUME NEW k \in Cells(m), First(m, w, k)
      PROVE  Find(m, w) = Probe(m, w, k)
  <2>1. k \in hits /\ \A j \in hits : ~(j < k)
    BY <1>3, <1>4 DEF First, hits
  <2>2. LeastOf(hits) \in hits /\ LeastOf(hits) <= k
    BY <1>3, <2>1, LeastOfIsLeast
  <2>3. LeastOf(hits) = k
    <3>1. k \in Nat /\ LeastOf(hits) \in Nat /\ ~(LeastOf(hits) < k)
      BY <1>1, <1>3, <2>1, <2>2
    <3>2. QED
      BY <2>2, <3>1
  <2>4. QED
    BY <1>2, <2>1, <2>3
<1>5. CASE hits = {}
  BY <1>2, <1>3, <1>4, <1>5
<1>6. CASE hits # {}
  <2>1. LeastOf(hits) \in hits /\ \A n \in hits : LeastOf(hits) <= n
    BY <1>3, <1>6, LeastOfIsLeast
  <2>2. LeastOf(hits) \in Cells(m)
    BY <2>1 DEF hits
  <2>3. \A j \in Cells(m) : j < LeastOf(hits) => j \notin hits
    BY <1>1, <2>1, <2>2
  <2>4. First(m, w, LeastOf(hits))
    BY <1>3, <2>1, <2>2, <2>3 DEF First
  <2>5. Find(m, w) = Probe(m, w, LeastOf(hits)) /\ Find(m, w) \in Cells(m)
    BY <1>1, <1>2, <1>6, <2>2, ProbeType
  <2>6. QED
    BY <1>4, <2>2, <2>4, <2>5
<1>7. QED
  BY <1>5, <1>6

(* A bucket is empty or holds a word.                                      *)
LEMMA BucketType ==
    ASSUME NEW m, MapTypeOK(m), NEW p \in Cells(m)
    PROVE  /\ m.table[p] \in Buckets
           /\ m.table[p].cnt = NULL => m.table[p] = Empty
           /\ m.table[p].cnt # NULL => /\ m.table[p].word \in Words /\ m.table[p].cnt \in Nat
                                       /\ m.table[p] = [word |-> m.table[p].word, cnt |-> m.table[p].cnt]
<1>1. m.table[p] \in Buckets
  BY DEF MapTypeOK, Cells
<1>2. NULL \notin Nat /\ Empty.cnt = NULL
  BY DEF NULL, Empty
<1>3. QED
  BY <1>1, <1>2 DEF Buckets

(* As every stored word is found, none is stored twice.                    *)
LEMMA FoundIsDistinct ==
    ASSUME NEW m, MapTypeOK(m), Found(m)
    PROVE  Distinct(m.table) /\ UsedIn(m.table) = Used(m)
<1>1. UsedIn(m.table) = Used(m)
  BY DEF UsedIn, Used, Cells, MapTypeOK, NULL
<1>2. QED
  BY <1>1 DEF Distinct, Found

-----------------------------------------------------------------------------
(* Changing one bucket.                                                    *)

(* The bucket where the search for w ends may get w: the search for every  *)
(* stored word still ends where it did.                                    *)
LEMMA OneBucket ==
    ASSUME NEW m, MapOK(m), NEW w \in Words, NEW p, p = Find(m, w), p # NULL,
           NEW c \in Nat, NEW used \in Nat, used = m.used_nodes + (IF m.table[p].cnt = NULL THEN 1 ELSE 0),
           NEW m2, m2 = [size |-> m.size, used_nodes |-> used, step |-> m.step,
                         table |-> [m.table EXCEPT ![p] = [word |-> w, cnt |-> c]]]
    PROVE  MapOK(m2)
<1>1. MapTypeOK(m) /\ Found(m) /\ Counted(m)
  BY DEF MapOK
<1>2. p \in Cells(m) /\ \E k \in Cells(m) : First(m, w, k) /\ p = Probe(m, w, k)
  BY <1>1, FindIsFirst
<1>3. Cells(m2) = Cells(m) /\ Cells(m) = 0 .. m.size - 1 /\ m.size \in Nat \ {0}
  BY <1>1 DEF Cells, MapTypeOK
<1>4. /\ m2.table \in [0 .. m.size - 1 -> Buckets]
      /\ m2.table[p] = [word |-> w, cnt |-> c] /\ \A q \in Cells(m) : q # p => m2.table[q] = m.table[q]
  <2>1. [word |-> w, cnt |-> c] \in Buckets
    BY DEF Buckets
  <2>2. m.table \in [0 .. m.size - 1 -> Buckets]
    BY <1>1 DEF MapTypeOK
  <2>3. m2.table = [m.table EXCEPT ![p] = [word |-> w, cnt |-> c]]
    OBVIOUS
  <2>4. QED
    BY <1>2, <1>3, <2>1, <2>2, <2>3
<1>5. MapTypeOK(m2)
  BY <1>1, <1>4 DEF MapTypeOK
<1>6. m2.table[p].word = w /\ m2.table[p].cnt = c /\ c # NULL
  BY <1>4 DEF NULL
<1>7. \A v \in Words, k \in Cells(m) : Probe(m2, v, k) = Probe(m, v, k) /\ Probe(m, v, k) \in Cells(m)
  <2>1. m2.size = m.size /\ m2.step = m.step
    OBVIOUS
  <2>2. \A v \in Words, k \in Cells(m) : Probe(m2, v, k) = Probe(m, v, k)
    BY <2>1 DEF Probe
  <2>3. \A v \in Words, k \in Nat : Probe(m, v, k) \in 0 .. m.size - 1
    BY <1>1, ProbeType
  <2>4. Cells(m) \subseteq Nat
    BY <1>3
  <2>5. QED
    BY <1>3, <2>2, <2>3, <2>4
<1>8. ASSUME NEW q \in Used(m), q # p
      PROVE  Find(m2, m.table[q].word) = q
  <2> DEFINE v == m.table[q].word
  <2>1. q \in Cells(m) /\ v \in Words /\ Find(m, v) = q /\ q # NULL
    <3>1. q \in Cells(m) /\ m.table[q].cnt # NULL
      BY DEF Used, NULL
    <3>2. v \in Words
      BY <1>1, <3>1, BucketType
    <3>3. q \in Nat /\ q # NULL
      BY <1>3, <3>1 DEF NULL
    <3>4. QED
      BY <1>1, <3>1, <3>2, <3>3 DEF Found
  <2>2. PICK k \in Cells(m) : First(m, v, k) /\ q = Probe(m, v, k)
    BY <1>1, <2>1, FindIsFirst
  <2> HIDE DEF v
  <2>3. ASSUME NEW j \in Cells(m), j < k
        PROVE  ~Matches(m2, v, Probe(m2, v, j))
    <3>1. ~Matches(m, v, Probe(m, v, j))
      BY <2>2, <2>3 DEF First
    <3>2. CASE Probe(m, v, j) # p
      BY <1>4, <1>7, <2>1, <3>1, <3>2 DEF Matches
    <3>3. CASE Probe(m, v, j) = p
      <4>1. m.table[p].cnt # NULL /\ m.table[p].word # v
        BY <3>1, <3>3 DEF Matches, NULL
      <4>2. m.table[p].word = w
        BY <1>2, <4>1 DEF First, Matches, NULL
      <4>3. QED
        BY <1>6, <1>7, <2>1, <3>3, <4>1, <4>2 DEF Matches, NULL
    <3>4. QED
      BY <3>2, <3>3
  <2>4. Matches(m2, v, Probe(m2, v, k))
    BY <1>4, <1>7, <1>8, <2>1, <2>2 DEF First, Matches
  <2>5. First(m2, v, k)
    BY <1>3, <2>3, <2>4 DEF First
  <2>6. Find(m2, v) = Probe(m2, v, k)
    BY <1>3, <1>5, <2>1, <2>5, FindIsFirst
  <2>7. QED
    BY <1>7, <2>1, <2>2, <2>6 DEF v
<1>9. Find(m2, w) = p
  <2>1. PICK k \in Cells(m) : First(m, w, k) /\ p = Probe(m, w, k)
    BY <1>2
  <2>2. ASSUME NEW j \in Cells(m), j < k
        PROVE  ~Matches(m2, w, Probe(m2, w, j))
    <3>1. ~Matches(m, w, Probe(m, w, j)) /\ Matches(m, w, p)
      BY <2>1, <2>2 DEF First
    <3>2. Probe(m, w, j) # p
      BY <3>1
    <3>3. QED
      BY <1>4, <1>7, <3>1, <3>2 DEF Matches
  <2>3. Matches(m2, w, Probe(m2, w, k))
    BY <1>6, <1>7, <2>1 DEF Matches
  <2>4. First(m2, w, k)
    BY <1>3, <2>2, <2>3 DEF First
  <2>5. QED
    BY <1>3, <1>5, <1>7, <2>1, <2>4, FindIsFirst
<1>10. Used(m2) = Used(m) \cup {p}
  BY <1>2, <1>3, <1>4, <1>6 DEF Used, NULL
<1>11. Found(m2)
  <2>1. ASSUME NEW q \in Used(m2)
        PROVE  Find(m2, m2.table[q].word) = q
    <3>1. CASE q = p
      BY <1>6, <1>9, <3>1
    <3>2. CASE q # p
      <4>1. q \in Used(m) /\ m2.table[q] = m.table[q]
        BY <1>4, <1>10, <3>2 DEF Used
      <4>2. QED
        BY <1>8, <3>2, <4>1
    <3>3. QED
      BY <3>1, <3>2
  <2>2. QED
    BY <2>1 DEF Found
<1>12. Counted(m2)
  <2>1. IsFiniteSet(Used(m))
    <3>1. IsFiniteSet(0 .. m.size - 1)
      <4>1. 0 \in Int /\ m.size - 1 \in Int
        BY <1>3
      <4>2. QED
        BY <4>1, FS_Interval
    <3>2. Used(m) \subseteq 0 .. m.size - 1
      BY <1>3 DEF Used
    <3>3. QED
      BY <3>1, <3>2, FS_Subset
  <2>2. Cardinality(Used(m) \cup {p}) = IF p \in Used(m) THEN Cardinality(Used(m)) ELSE Cardinality(Used(m)) + 1
    BY <2>1, FS_AddElement
  <2>3. p \in Used(m) <=> m.table[p].cnt # NULL
    BY <1>2 DEF Used, NULL
  <2>4. Cardinality(Used(m)) = m.used_nodes /\ m.used_nodes \in Nat
    BY <1>1 DEF Counted, MapTypeOK
  <2>5. m2.used_nodes = used
    OBVIOUS
  <2>6. Cardinality(Used(m2)) = used
    <3>1. Cardinality(Used(m2)) = IF p \in Used(m) THEN m.used_nodes ELSE m.used_nodes + 1
      BY ONLY <1>10, <2>2, <2>4
    <3>2. used = IF p \in Used(m) THEN m.used_nodes ELSE m.used_nodes + 1
      <4>1. used = m.used_nodes + (IF p \in Used(m) THEN 0 ELSE 1)
        BY <2>3
      <4>2. QED
        BY ONLY <2>4, <4>1
    <3>3. QED
      BY ONLY <3>1, <3>2
  <2>7. QED
    BY ONLY <2>5, <2>6 DEF Counted
<1>13. QED
  BY <1>5, <1>11, <1>12 DEF MapOK

(* What a map counts of a word is what its one bucket counts.              *)
LEMMA CountAt ==
    ASSUME NEW n \in Nat, NEW table \in [0 .. n - 1 -> Buckets], Distinct(table),
           NEW w \in Words, NEW i \in Nat
    PROVE  /\ \A p \in 0 .. n - 1 : p >= i /\ table[p].cnt # NULL /\ table[p].word = w
                                    => CountIn(table, i, w) = table[p].cnt
           /\ (\A p \in 0 .. n - 1 : ~(p >= i /\ table[p].cnt # NULL /\ table[p].word = w))
              => CountIn(table, i, w) = 0
           /\ CountIn(table, i, w) \in Nat
<1> DEFINE at == {p \in DOMAIN table : p >= i /\ table[p].word = w /\ Listed(table[p])}
<1>1. DOMAIN table = 0 .. n - 1 /\ \A p \in 0 .. n - 1 : table[p] \in Buckets
  OBVIOUS
<1>2. \A p \in 0 .. n - 1 : /\ Listed(table[p]) => table[p].cnt # NULL /\ table[p].cnt \in Nat
                            /\ table[p].cnt # NULL /\ ~Listed(table[p]) => table[p].cnt = 0
  <2>1. ASSUME NEW b \in Buckets
        PROVE  /\ Listed(b) => b.cnt # NULL /\ b.cnt \in Nat
               /\ b.cnt # NULL /\ ~Listed(b) => b.cnt = 0
    <3>1. CASE b = Empty
      BY <3>1 DEF Empty, Listed, NULL
    <3>2. CASE b \in [word : Words, cnt : Nat]
      <4>1. b.cnt \in Nat
        BY <3>2
      <4>2. QED
        BY <4>1 DEF Listed, NULL
    <3>3. QED
      BY <3>1, <3>2 DEF Buckets
  <2>2. QED
    BY <1>1, <2>1
<1>3. CountIn(table, i, w) = IF at = {} THEN 0 ELSE table[CHOOSE p \in at : TRUE].cnt
  BY DEF CountIn
<1>4. at # {} => (CHOOSE p \in at : TRUE) \in at
  OBVIOUS
<1>5. \A p, q \in 0 .. n - 1 : table[p].cnt # NULL /\ table[q].cnt # NULL /\ table[p].word = table[q].word => p = q
  BY <1>1 DEF Distinct, UsedIn
<1>6. \A p \in at : p \in 0 .. n - 1 /\ p >= i /\ table[p].word = w /\ Listed(table[p])
  BY <1>1
<1>7. \A p \in 0 .. n - 1 : p >= i /\ table[p].word = w /\ Listed(table[p]) => p \in at
  BY <1>1
<1> HIDE DEF at
<1>8. ASSUME NEW p \in 0 .. n - 1, p >= i, table[p].cnt # NULL, table[p].word = w
      PROVE  CountIn(table, i, w) = table[p].cnt
  <2>1. CASE Listed(table[p])
    <3>1. p \in at
      BY <1>7, <1>8, <2>1
    <3>2. (CHOOSE q \in at : TRUE) = p
      BY <1>2, <1>4, <1>5, <1>6, <1>8, <3>1
    <3>3. QED
      BY <1>3, <3>1, <3>2
  <2>2. CASE ~Listed(table[p])
    <3>1. at = {}
      BY <1>2, <1>5, <1>6, <1>8, <2>2
    <3>2. QED
      BY <1>2, <1>3, <1>8, <2>2, <3>1
  <2>3. QED
    BY <2>1, <2>2
<1>9. ASSUME \A p \in 0 .. n - 1 : ~(p >= i /\ table[p].cnt # NULL /\ table[p].word = w)
      PROVE  CountIn(table, i, w) = 0
  <2>1. at = {}
    BY <1>2, <1>6, <1>9
  <2>2. QED
    BY <1>3, <2>1
<1>10. CountIn(table, i, w) \in Nat
  BY <1>2, <1>3, <1>4, <1>6
<1>11. QED
  BY <1>8, <1>9, <1>10

(* A map counts a word with a natural number.                              *)
LEMMA CountType ==
    ASSUME NEW m, MapOK(m), NEW w \in Words
    PROVE  CountIn(m.table, 0, w) \in Nat
<1>1. MapTypeOK(m) /\ Found(m)
  BY DEF MapOK
<1>2. PICK n \in Nat : m.table \in [0 .. n - 1 -> Buckets]
  BY <1>1 DEF MapTypeOK
<1>3. PICK t : t = m.table
  OBVIOUS
<1>4. n \in Nat /\ t \in [0 .. n - 1 -> Buckets] /\ Distinct(t) /\ w \in Words /\ 0 \in Nat
  BY <1>1, <1>2, <1>3, FoundIsDistinct
<1>5. CountIn(t, 0, w) \in Nat
  BY ONLY <1>4, CountAt
<1>6. QED
  BY <1>3, <1>5

(* The same for the whole table: a word that is not stored is not counted. *)
Stores(table, w, p) == table[p].cnt # NULL /\ table[p].word = w

(* Either no bucket stores the word, or the one that does is what counts.  *)
LEMMA CountAll ==
    ASSUME NEW n \in Nat, NEW table \in [0 .. n - 1 -> Buckets], Distinct(table), NEW w \in Words
    PROVE  \/ CountIn(table, 0, w) = 0 /\ \A p \in 0 .. n - 1 : ~Stores(table, w, p)
           \/ \E p \in 0 .. n - 1 : Stores(table, w, p) /\ CountIn(table, 0, w) = table[p].cnt
<1>1. 0 \in Nat /\ \A p \in 0 .. n - 1 : p >= 0
  OBVIOUS
<1>2. CASE \E p \in 0 .. n - 1 : Stores(table, w, p)
  <2>1. PICK p \in 0 .. n - 1 : Stores(table, w, p)
    BY <1>2
  <2>2. CountIn(table, 0, w) = table[p].cnt
    BY <1>1, <2>1, CountAt DEF Stores
  <2>3. QED
    BY <2>1, <2>2
<1>3. CASE \A p \in 0 .. n - 1 : ~Stores(table, w, p)
  <2>1. \A p \in 0 .. n - 1 : ~(p >= 0 /\ table[p].cnt # NULL /\ table[p].word = w)
    BY <1>3 DEF Stores
  <2>2. CountIn(table, 0, w) = 0
    BY <1>1, <2>1, CountAt
  <2>3. QED
    BY <1>3, <2>2
<1>4. QED
  BY <1>2, <1>3

(* One bucket of a word.                                                   *)
LEMMA OneIsStored ==
    ASSUME NEW n \in Nat, NEW table \in [0 .. n - 1 -> Buckets], Distinct(table), NEW w \in Words,
           NEW p \in 0 .. n - 1, Stores(table, w, p)
    PROVE  CountIn(table, 0, w) = table[p].cnt
<1>1. PICK q \in 0 .. n - 1 : Stores(table, w, q) /\ CountIn(table, 0, w) = table[q].cnt
  BY CountAll
<1>2. p = q
  BY <1>1 DEF Distinct, UsedIn, Stores
<1>3. QED
  BY <1>1, <1>2

(* The next bucket is counted, or not.                                     *)
LEMMA CountNext ==
    ASSUME NEW n \in Nat, NEW table \in [0 .. n - 1 -> Buckets], Distinct(table),
           NEW w \in Words, NEW i \in 0 .. n - 1
    PROVE  CountIn(table, i, w) = CountIn(table, i + 1, w)
                                  + (IF Listed(table[i]) /\ table[i].word = w THEN table[i].cnt ELSE 0)
<1>1. i \in Nat /\ i + 1 \in Nat /\ table[i] \in Buckets
  OBVIOUS
<1>2. /\ table[i].cnt # NULL => table[i].cnt \in Nat
      /\ Listed(table[i]) => table[i].cnt # NULL
      /\ table[i].cnt # NULL /\ ~Listed(table[i]) => table[i].cnt = 0
  <2>1. CASE table[i] = Empty
    BY <2>1 DEF Empty, Listed, NULL
  <2>2. CASE table[i] \in [word : Words, cnt : Nat]
    <3>1. table[i].cnt \in Nat
      BY <2>2
    <3>2. QED
      BY <3>1 DEF Listed, NULL
  <2>3. QED
    BY <1>1, <2>1, <2>2 DEF Buckets
<1>3. \A p, q \in 0 .. n - 1 : table[p].cnt # NULL /\ table[q].cnt # NULL /\ table[p].word = table[q].word => p = q
  BY DEF Distinct, UsedIn
<1>4. CountIn(table, i + 1, w) \in Nat
  BY <1>1, CountAt
<1>5. CASE table[i].cnt # NULL /\ table[i].word = w
  <2>1. CountIn(table, i, w) = table[i].cnt
    BY <1>1, <1>5, CountAt
  <2>2. \A p \in 0 .. n - 1 : ~(p >= i + 1 /\ table[p].cnt # NULL /\ table[p].word = w)
    BY <1>3, <1>5
  <2>3. CountIn(table, i + 1, w) = 0
    BY <1>1, <2>2, CountAt
  <2>4. QED
    BY <1>2, <1>5, <2>1, <2>3
<1>6. CASE ~(table[i].cnt # NULL /\ table[i].word = w)
  <2>1. CASE \E p \in 0 .. n - 1 : p >= i /\ table[p].cnt # NULL /\ table[p].word = w
    <3>1. PICK p \in 0 .. n - 1 : p >= i /\ table[p].cnt # NULL /\ table[p].word = w
      BY <2>1
    <3>2. p >= i + 1
      BY <1>6, <3>1
    <3>3. CountIn(table, i, w) = table[p].cnt /\ CountIn(table, i + 1, w) = table[p].cnt
      BY <1>1, <3>1, <3>2, CountAt
    <3>4. QED
      BY <1>2, <1>4, <1>6, <3>3
  <2>2. CASE \A p \in 0 .. n - 1 : ~(p >= i /\ table[p].cnt # NULL /\ table[p].word = w)
    <3>1. \A p \in 0 .. n - 1 : ~(p >= i + 1 /\ table[p].cnt # NULL /\ table[p].word = w)
      BY <2>2
    <3>2. CountIn(table, i, w) = 0 /\ CountIn(table, i + 1, w) = 0
      BY <1>1, <2>2, <3>1, CountAt
    <3>3. QED
      BY <1>2, <1>6, <3>2
  <2>3. QED
    BY <2>1, <2>2
<1>7. QED
  BY <1>5, <1>6

(* Then only the number of occurrences of w changes.                       *)
LEMMA FoundBucketCounts ==
    ASSUME NEW m, MapOK(m), NEW w \in Words, NEW p, p = Find(m, w), p # NULL,
           NEW c \in Nat, NEW m2, MapOK(m2), m2.size = m.size,
           m2.table = [m.table EXCEPT ![p] = [word |-> w, cnt |-> c]]
    PROVE  /\ CountIn(m2.table, 0, w) = c
           /\ CountIn(m.table, 0, w) = IF m.table[p].cnt = NULL THEN 0 ELSE m.table[p].cnt
           /\ \A v \in Words : v # w => CountIn(m2.table, 0, v) = CountIn(m.table, 0, v)
<1>1. /\ MapTypeOK(m) /\ Found(m) /\ MapTypeOK(m2) /\ Found(m2)
      /\ m.size \in Nat /\ m.table \in [0 .. m.size - 1 -> Buckets]
      /\ m2.table \in [0 .. m.size - 1 -> Buckets]
      /\ Cells(m) = 0 .. m.size - 1
  BY DEF MapOK, MapTypeOK, Cells
<1>2. Distinct(m.table) /\ Distinct(m2.table)
  BY <1>1, FoundIsDistinct
<1>3. p \in 0 .. m.size - 1 /\ Matches(m, w, p)
  BY <1>1, FindIsFirst DEF First
<1> DEFINE n == m.size
           t == m.table
           t2 == m2.table
<1>4. /\ n \in Nat /\ t \in [0 .. n - 1 -> Buckets] /\ t2 \in [0 .. n - 1 -> Buckets]
      /\ Distinct(t) /\ Distinct(t2) /\ p \in 0 .. n - 1 /\ w \in Words
  BY <1>1, <1>2, <1>3
<1>5. t2[p] = [word |-> w, cnt |-> c] /\ \A q \in 0 .. n - 1 : q # p => t2[q] = t[q]
  BY <1>4
<1>6. Stores(t2, w, p) /\ t2[p].cnt = c /\ \A v \in Words : v # w => ~Stores(t2, v, p)
  BY <1>5 DEF Stores, NULL
<1>7. /\ t[p].cnt # NULL => Stores(t, w, p)
      /\ t[p].cnt # NULL => \A v \in Words : v # w => ~Stores(t, v, p)
  BY <1>3 DEF Matches, NULL, Stores
<1>8. t[p].cnt = NULL => \A q \in 0 .. n - 1 : ~Stores(t, w, q)
  BY <1>1 DEF Found, Used, NULL, Stores
<1>9. t[p].cnt = NULL => \A v : ~Stores(t, v, p)
  BY DEF Stores
<1> HIDE DEF n, t, t2
<1>10. CountIn(t2, 0, w) = c
  BY ONLY <1>4, <1>6, OneIsStored
<1>11. CountIn(t, 0, w) = IF t[p].cnt = NULL THEN 0 ELSE t[p].cnt
  <2>1. CASE t[p].cnt # NULL
    <3>1. CountIn(t, 0, w) = t[p].cnt
      BY ONLY <1>4, <1>7, <2>1, OneIsStored
    <3>2. QED
      BY <2>1, <3>1
  <2>2. CASE t[p].cnt = NULL
    <3>1. \/ CountIn(t, 0, w) = 0
          \/ \E q \in 0 .. n - 1 : Stores(t, w, q)
      BY ONLY <1>4, CountAll
    <3>2. QED
      BY <1>8, <2>2, <3>1
  <2>3. QED
    BY <2>1, <2>2
<1>12. ASSUME NEW v \in Words, v # w
      PROVE  CountIn(t2, 0, v) = CountIn(t, 0, v)
  <2>1. v \in Words
    OBVIOUS
  <2>2. \A q \in 0 .. n - 1 : (Stores(t, v, q) <=> Stores(t2, v, q)) /\ (Stores(t, v, q) => t2[q] = t[q])
    <3>1. ~Stores(t, v, p) /\ ~Stores(t2, v, p)
      BY <1>6, <1>7, <1>9, <1>12
    <3>2. \A q \in 0 .. n - 1 : q # p => (Stores(t, v, q) <=> Stores(t2, v, q)) /\ t2[q] = t[q]
      BY <1>5 DEF Stores
    <3>3. QED
      BY <3>1, <3>2
  <2>3. \/ CountIn(t, 0, v) = 0 /\ \A q \in 0 .. n - 1 : ~Stores(t, v, q)
        \/ \E q \in 0 .. n - 1 : Stores(t, v, q) /\ CountIn(t, 0, v) = t[q].cnt
    BY ONLY <1>4, <2>1, CountAll
  <2>4. \/ CountIn(t2, 0, v) = 0
        \/ \E q \in 0 .. n - 1 : Stores(t2, v, q)
    BY ONLY <1>4, <2>1, CountAll
  <2>5. CASE CountIn(t, 0, v) = 0 /\ \A q \in 0 .. n - 1 : ~Stores(t, v, q)
    BY <2>2, <2>4, <2>5
  <2>6. CASE \E q \in 0 .. n - 1 : Stores(t, v, q) /\ CountIn(t, 0, v) = t[q].cnt
    <3>1. PICK q \in 0 .. n - 1 : Stores(t, v, q) /\ CountIn(t, 0, v) = t[q].cnt
      BY <2>6
    <3>2. Stores(t2, v, q) /\ t2[q] = t[q] /\ q \in 0 .. n - 1
      BY <2>2, <3>1
    <3>3. CountIn(t2, 0, v) = t2[q].cnt
      BY ONLY <1>4, <2>1, <3>2, OneIsStored
    <3>4. QED
      BY <3>1, <3>2, <3>3
  <2>7. QED
    BY <2>3, <2>5, <2>6
<1>13. QED
  BY <1>10, <1>11, <1>12 DEF t, t2

(* What Insert does to a map before it is expanded.                        *)
LEMMA PutWorks ==
    ASSUME NEW m, MapOK(m), NEW w \in Words, NEW c \in Nat, Find(m, w) # NULL
    PROVE  /\ MapOK(Put(m, w, c)) /\ Put(m, w, c).size = m.size /\ Put(m, w, c).step = m.step
           /\ Put(m, w, c).used_nodes \in m.used_nodes .. m.used_nodes + 1
           /\ \A v \in Words : CountIn(Put(m, w, c).table, 0, v)
                               = CountIn(m.table, 0, v) + (IF v = w THEN c ELSE 0)
<1> DEFINE p == Find(m, w)
           m2 == Put(m, w, c)
<1>1. MapTypeOK(m) /\ m.used_nodes \in Nat /\ m.table \in [0 .. m.size - 1 -> Buckets] /\ m.size \in Nat
      /\ m = [size |-> m.size, used_nodes |-> m.used_nodes, step |-> m.step, table |-> m.table]
  BY DEF MapOK, MapTypeOK
<1>2. p \in Cells(m) /\ Matches(m, w, p) /\ p \in 0 .. m.size - 1
  BY <1>1, FindIsFirst DEF First, Cells
<1>3. \A v \in Words : CountIn(m.table, 0, v) \in Nat
  BY CountType
<1>4. PICK d \in Nat, used \in Nat :
          /\ used = m.used_nodes + (IF m.table[p].cnt = NULL THEN 1 ELSE 0)
          /\ d = IF m.table[p].cnt = NULL THEN c ELSE m.table[p].cnt + c
          /\ m2 = [size |-> m.size, used_nodes |-> used, step |-> m.step,
                   table |-> [m.table EXCEPT ![p] = [word |-> w, cnt |-> d]]]
  <2>1. CASE m.table[p].cnt = NULL
    <3>1. m2 = [m EXCEPT !.table[p] = [word |-> w, cnt |-> c], !.used_nodes = @ + 1]
      BY <2>1 DEF Put, NULL
    <3>2. m2 = [size |-> m.size, used_nodes |-> m.used_nodes + 1, step |-> m.step,
                table |-> [m.table EXCEPT ![p] = [word |-> w, cnt |-> c]]]
      BY <1>1, <3>1
    <3>3. m.used_nodes + 1 \in Nat
      BY <1>1
    <3>4. QED
      BY <2>1, <3>2, <3>3
  <2>2. CASE m.table[p].cnt # NULL
    <3>1. /\ m.table[p].word = w /\ m.table[p].cnt \in Nat
          /\ m.table[p] = [word |-> w, cnt |-> m.table[p].cnt]
      <4>1. m.table[p].word = w
        BY <1>2, <2>2 DEF Matches, NULL
      <4>2. QED
        BY <1>1, <1>2, <2>2, <4>1, BucketType
    <3>2. m2 = [m EXCEPT !.table[p].cnt = @ + c]
      BY <2>2 DEF Put, NULL
    <3>3. m2 = [size |-> m.size, used_nodes |-> m.used_nodes, step |-> m.step,
                table |-> [m.table EXCEPT ![p].cnt = @ + c]]
      BY <1>1, <3>2
    <3>4. [m.table[p] EXCEPT !.cnt = @ + c] = [word |-> w, cnt |-> m.table[p].cnt + c]
      BY <3>1
    <3>5. [m.table EXCEPT ![p].cnt = @ + c] = [m.table EXCEPT ![p] = [word |-> w, cnt |-> m.table[p].cnt + c]]
      BY <1>1, <1>2, <3>4
    <3>6. m.used_nodes = m.used_nodes + 0 /\ m.table[p].cnt + c \in Nat
      BY <1>1, <3>1
    <3>7. QED
      BY <1>1, <2>2, <3>3, <3>5, <3>6
  <2>3. QED
    BY <2>1, <2>2
<1> HIDE DEF p, m2
<1>5. MapOK(m2)
  BY <1>4, OneBucket DEF p
<1>6. m2.size = m.size /\ m2.step = m.step /\ m2.used_nodes = used
      /\ m2.table = [m.table EXCEPT ![p] = [word |-> w, cnt |-> d]]
  BY <1>4
<1>7. used \in m.used_nodes .. m.used_nodes + 1
  BY <1>1, <1>4
<1>8. /\ CountIn(m2.table, 0, w) = d
      /\ CountIn(m.table, 0, w) = IF m.table[p].cnt = NULL THEN 0 ELSE m.table[p].cnt
      /\ \A v \in Words : v # w => CountIn(m2.table, 0, v) = CountIn(m.table, 0, v)
  <2>1. p = Find(m, w) /\ p # NULL
    BY DEF p
  <2>2. QED
    BY <1>5, <1>6, <2>1, FoundBucketCounts
<1>9. \A v \in Words : CountIn(m2.table, 0, v) = CountIn(m.table, 0, v) + (IF v = w THEN c ELSE 0)
  BY <1>3, <1>4, <1>8
<1>10. QED
  BY <1>5, <1>6, <1>7, <1>9 DEF m2

(* What Remove does to a map.                                              *)
Less(m, w) == [m EXCEPT !.table[Find(m, w)].cnt = @ - 1]

(* The table stays right, and only the number of w changes.                *)
LEMMA RemoveWorks ==
    ASSUME NEW m, MapOK(m), NEW w \in Words, Find(m, w) # NULL, m.table[Find(m, w)].cnt > 0
    PROVE  /\ MapOK(Less(m, w)) /\ Less(m, w).size = m.size /\ Less(m, w).step = m.step
           /\ Less(m, w).used_nodes = m.used_nodes
           /\ CountIn(m.table, 0, w) > 0
           /\ \A v \in Words : CountIn(Less(m, w).table, 0, v)
                               = CountIn(m.table, 0, v) - (IF v = w THEN 1 ELSE 0)
<1> DEFINE p == Find(m, w)
           m2 == Less(m, w)
<1>0. p = Find(m, w) /\ p # NULL /\ m.table[p].cnt > 0 /\ m2 = [m EXCEPT !.table[p].cnt = @ - 1]
  BY DEF Less
<1> HIDE DEF p, m2
<1>1. MapTypeOK(m) /\ m.used_nodes \in Nat /\ m.table \in [0 .. m.size - 1 -> Buckets] /\ m.size \in Nat
      /\ m = [size |-> m.size, used_nodes |-> m.used_nodes, step |-> m.step, table |-> m.table]
  BY DEF MapOK, MapTypeOK
<1>2. p \in Cells(m) /\ Matches(m, w, p) /\ p \in 0 .. m.size - 1
  BY <1>0, <1>1, FindIsFirst DEF First, Cells
<1>3. \A v \in Words : CountIn(m.table, 0, v) \in Nat
  BY CountType
<1>4. /\ m.table[p].cnt # NULL /\ m.table[p].cnt \in Nat
      /\ m.table[p] = [word |-> w, cnt |-> m.table[p].cnt]
  <2>1. m.table[p].cnt # NULL
    <3>1. m.table[p].cnt = NULL => ~(m.table[p].cnt > 0)
      BY DEF NULL
    <3>2. QED
      BY <1>0, <3>1
  <2>2. m.table[p].word = w
    BY <1>2, <2>1 DEF Matches, NULL
  <2>3. QED
    BY <1>1, <1>2, <2>1, <2>2, BucketType
<1>5. PICK d \in Nat : d = m.table[p].cnt - 1
  BY <1>0, <1>4
<1>6. m2 = [size |-> m.size, used_nodes |-> m.used_nodes, step |-> m.step,
            table |-> [m.table EXCEPT ![p] = [word |-> w, cnt |-> d]]]
  <2>1. m2 = [size |-> m.size, used_nodes |-> m.used_nodes, step |-> m.step,
              table |-> [m.table EXCEPT ![p].cnt = @ - 1]]
    BY <1>0, <1>1
  <2>2. [m.table[p] EXCEPT !.cnt = @ - 1] = [word |-> w, cnt |-> d]
    BY <1>4, <1>5
  <2>3. [m.table EXCEPT ![p].cnt = @ - 1] = [m.table EXCEPT ![p] = [word |-> w, cnt |-> d]]
    BY <1>1, <1>2, <2>2
  <2>4. QED
    BY <2>1, <2>3
<1>7. MapOK(m2)
  <2>1. m.used_nodes = m.used_nodes + (IF m.table[p].cnt = NULL THEN 1 ELSE 0)
    BY <1>1, <1>4
  <2>2. QED
    BY <1>0, <1>1, <1>6, <2>1, OneBucket
<1>8. m2.size = m.size /\ m2.step = m.step /\ m2.used_nodes = m.used_nodes
      /\ m2.table = [m.table EXCEPT ![p] = [word |-> w, cnt |-> d]]
  BY <1>6
<1>9. /\ CountIn(m2.table, 0, w) = d
      /\ CountIn(m.table, 0, w) = m.table[p].cnt
      /\ \A v \in Words : v # w => CountIn(m2.table, 0, v) = CountIn(m.table, 0, v)
  <2>1. MapOK(m) /\ p = Find(m, w) /\ p # NULL /\ w \in Words /\ d \in Nat
    BY <1>0
  <2>2. /\ CountIn(m2.table, 0, w) = d
        /\ CountIn(m.table, 0, w) = IF m.table[p].cnt = NULL THEN 0 ELSE m.table[p].cnt
        /\ \A v \in Words : v # w => CountIn(m2.table, 0, v) = CountIn(m.table, 0, v)
    BY ONLY <1>7, <1>8, <2>1, FoundBucketCounts
  <2>3. QED
    BY <1>4, <2>2
<1>10. CountIn(m.table, 0, w) > 0 /\ \A v \in Words : CountIn(m2.table, 0, v) = CountIn(m.table, 0, v) - (IF v = w THEN 1 ELSE 0)
  BY <1>0, <1>3, <1>5, <1>9
<1>11. QED
  BY <1>7, <1>8, <1>10 DEF m2

-----------------------------------------------------------------------------
(* New maps.                                                               *)

(* An empty map is one whose table stores nothing.                         *)
LEMMA EmptyMap ==
    ASSUME NEW n \in Nat \ {0}, NEW step \in Nat,
           NEW m, m = [size |-> n, used_nodes |-> 0, step |-> step, table |-> EmptyTable(n)]
    PROVE  MapOK(m) /\ ~Overloaded(m) /\ \A w \in Words : CountIn(m.table, 0, w) = 0
<1>1. m.table \in [0 .. n - 1 -> Buckets] /\ \A p \in 0 .. n - 1 : m.table[p] = Empty
  BY DEF EmptyTable, Buckets
<1>2. MapTypeOK(m)
  BY <1>1 DEF MapTypeOK
<1>3. Used(m) = {}
  BY <1>1 DEF Used, Cells, Empty
<1>4. Found(m)
  BY <1>3 DEF Found
<1>5. Counted(m)
  <2>1. Cardinality(Used(m)) = 0
    BY <1>3, FS_EmptySet
  <2>2. QED
    BY <2>1 DEF Counted
<1>6. ~Overloaded(m)
  BY DEF Overloaded
<1>7. \A w \in Words : CountIn(m.table, 0, w) = 0
  BY <1>1 DEF CountIn, Empty, Listed
<1>8. QED
  BY <1>2, <1>4, <1>5, <1>6, <1>7 DEF MapOK

(* A step is a number: the search for it ends.                             *)
LEMMA StepType == \A r \in Rands : GenerateStep(r) \in Nat
<1> SUFFICES ASSUME NEW r \in Rands
             PROVE  GenerateStep(r) \in Nat
  OBVIOUS
<1>1. r \in Nat
  BY RandsAssumption
<1>2. {n \in r .. 2 * r + 2 : IsPrime(n)} \subseteq Nat
  BY <1>1
<1>3. {n \in r .. 2 * r + 2 : IsPrime(n)} # {}
  BY StepsAssumption
<1>4. QED
  BY <1>2, <1>3, LeastOfIsLeast DEF GenerateStep

(* What CreateHashMap returns is right, half empty, and counts nothing.    *)
LEMMA NewMapWorks ==
    ASSUME NEW m \in NewMaps
    PROVE  /\ MapOK(m) /\ ~Overloaded(m) /\ \A w \in Words : CountIn(m.table, 0, w) = 0
           /\ m.size = DefaultSize /\ \E r \in Rands : m.step = GenerateStep(r)
<1>1. PICK r \in Rands : m = CreateHashMap(GenerateStep(r))
  BY DEF NewMaps
<1>2. PICK s \in Nat : s = GenerateStep(r)
  BY StepType
<1>3. m = [size |-> DefaultSize, used_nodes |-> 0, step |-> s, table |-> EmptyTable(DefaultSize)]
  BY <1>1, <1>2 DEF CreateHashMap
<1>4. m.size = DefaultSize /\ m.step = s
  BY <1>3
<1>5. DefaultSize \in Nat \ {0}
  BY SizeAssumption
<1>6. MapOK(m) /\ ~Overloaded(m) /\ \A w \in Words : CountIn(m.table, 0, w) = 0
  BY <1>3, <1>5, EmptyMap
<1>7. QED
  BY <1>2, <1>4, <1>6

(* The table an expansion starts to fill is right and counts nothing.      *)
LEMMA DoubledWorks ==
    ASSUME NEW m, MapOK(m)
    PROVE  /\ MapOK(Doubled(m)) /\ ~Overloaded(Doubled(m))
           /\ \A w \in Words : CountIn(Doubled(m).table, 0, w) = 0
           /\ Doubled(m).size = 2 * m.size /\ Doubled(m).used_nodes = 0 /\ Doubled(m).step = m.step
<1>1. /\ m.size \in Nat \ {0} /\ m.step \in Nat /\ 2 * m.size \in Nat \ {0}
      /\ m = [size |-> m.size, used_nodes |-> m.used_nodes, step |-> m.step, table |-> m.table]
  BY DEF MapOK, MapTypeOK
<1>2. Doubled(m) = [size |-> 2 * m.size, used_nodes |-> 0, step |-> m.step, table |-> EmptyTable(2 * m.size)]
  <2>1. PICK n, used, step, table : m = [size |-> n, used_nodes |-> used, step |-> step, table |-> table]
    BY <1>1
  <2>2. PICK t : t = EmptyTable(2 * m.size)
    OBVIOUS
  <2>3. Doubled(m) = [[[m EXCEPT !.size = 2 * @] EXCEPT !.used_nodes = 0] EXCEPT !.table = t]
    BY <2>2 DEF Doubled
  <2>4. m.size = n /\ m.step = step
    BY ONLY <2>1
  <2>5. PICK twice : twice = 2 * m.size
    OBVIOUS
  <2>6. [m EXCEPT !.size = 2 * @] = [size |-> twice, used_nodes |-> used, step |-> step, table |-> table]
    BY ONLY <2>1, <2>5
  <2>7. [[[m EXCEPT !.size = 2 * @] EXCEPT !.used_nodes = 0] EXCEPT !.table = t]
        = [size |-> twice, used_nodes |-> 0, step |-> step, table |-> t]
    <3>1. ASSUME NEW r, r = [size |-> twice, used_nodes |-> used, step |-> step, table |-> table]
          PROVE  [r EXCEPT !.used_nodes = 0] = [size |-> twice, used_nodes |-> 0, step |-> step, table |-> table]
      BY ONLY <3>1
    <3>2. ASSUME NEW r, r = [size |-> twice, used_nodes |-> 0, step |-> step, table |-> table]
          PROVE  [r EXCEPT !.table = t] = [size |-> twice, used_nodes |-> 0, step |-> step, table |-> t]
      BY ONLY <3>2
    <3>3. QED
      BY ONLY <2>6, <3>1, <3>2
  <2>8. QED
    BY <2>2, <2>3, <2>4, <2>5, <2>7
<1>3. MapOK(Doubled(m)) /\ ~Overloaded(Doubled(m)) /\ \A w \in Words : CountIn(Doubled(m).table, 0, w) = 0
  BY <1>1, <1>2, EmptyMap
<1>4. QED
  BY <1>2, <1>3

-----------------------------------------------------------------------------
(* The invariant.                                                          *)

(* The buckets in use from index i on.                                     *)
UsedFrom(table, i) == {p \in DOMAIN table : p >= i /\ table[p].cnt # NULL}

(* A table that is emptied into one of twice its size: what was moved and  *)
(* what is still to come fill at most half of the new table.               *)
Moving ==
    \E n \in Nat \ {0} :
        /\ hash_map[cur].size = 2 * n
        /\ old_table \in [0 .. n - 1 -> Buckets] /\ Distinct(old_table)
        /\ expand_i \in 0 .. n
        /\ hash_map[cur].used_nodes + Cardinality(UsedFrom(old_table, expand_i)) <= n \div 2 + 1

HashInv ==
    /\ hash_map = [h \in Maps |-> hash_map[h]]
    /\ \A h \in Maps : MapOK(hash_map[h]) /\ ~Overloaded(hash_map[h])
    /\ pc \in {"ready", "expand", "merge", "exited"}
    /\ cur \in Maps /\ back \in {"ready", "merge"} /\ merge_i \in Nat
    /\ pc = "expand" => (back = "merge" => cur = "fir") /\ Moving

(* One index further.                                                      *)
LEMMA UsedNext ==
    ASSUME NEW n \in Nat, NEW table \in [0 .. n - 1 -> Buckets], NEW i \in Nat
    PROVE  /\ Cardinality(UsedFrom(table, i)) \in Nat
           /\ i \in 0 .. n - 1 =>
                Cardinality(UsedFrom(table, i + 1))
                = Cardinality(UsedFrom(table, i)) - (IF table[i].cnt # NULL THEN 1 ELSE 0)
<1>1. IsFiniteSet(UsedFrom(table, i))
  <2>1. 0 \in Int /\ n - 1 \in Int
    OBVIOUS
  <2>2. IsFiniteSet(0 .. n - 1)
    BY <2>1, FS_Interval
  <2>3. UsedFrom(table, i) \subseteq 0 .. n - 1
    BY DEF UsedFrom
  <2>4. QED
    BY <2>2, <2>3, FS_Subset
<1>2. Cardinality(UsedFrom(table, i)) \in Nat
  BY <1>1, FS_CardinalityType
<1>3. ASSUME i \in 0 .. n - 1
      PROVE  Cardinality(UsedFrom(table, i + 1))
             = Cardinality(UsedFrom(table, i)) - (IF table[i].cnt # NULL THEN 1 ELSE 0)
  <2>1. UsedFrom(table, i + 1) = UsedFrom(table, i) \ {i}
    BY <1>3 DEF UsedFrom
  <2>2. i \in UsedFrom(table, i) <=> table[i].cnt # NULL
    BY <1>3 DEF UsedFrom
  <2>3. Cardinality(UsedFrom(table, i) \ {i})
        = IF i \in UsedFrom(table, i) THEN Cardinality(UsedFrom(table, i)) - 1 ELSE Cardinality(UsedFrom(table, i))
    BY <1>1, FS_RemoveElement
  <2>4. CASE table[i].cnt # NULL
    BY <2>1, <2>2, <2>3, <2>4
  <2>5. CASE table[i].cnt = NULL
    <3>1. Cardinality(UsedFrom(table, i + 1)) = Cardinality(UsedFrom(table, i))
      BY <2>1, <2>2, <2>3, <2>5
    <3>2. QED
      BY <1>2, <2>5, <3>1
  <2>6. QED
    BY <2>4, <2>5
<1>4. QED
  BY <1>2, <1>3

(* Remove takes one occurrence.                                            *)
LEMMA RemoveIsLess ==
    ASSUME NEW h \in Maps, NEW w \in Words, Remove(h, w), HashInv
    PROVE  /\ Find(hash_map[h], w) # NULL /\ hash_map[h].table[Find(hash_map[h], w)].cnt > 0 /\ pc = "ready"
           /\ hash_map' = [hash_map EXCEPT ![h] = Less(hash_map[h], w)] /\ UNCHANGED <<pc, expandVars, merge_i>>
BY DEF Remove, Less, HashInv

(* One map changes.                                                        *)
LEMMA OneMapChanges ==
    ASSUME HashInv, NEW h \in Maps, NEW m, MapOK(m), ~Overloaded(m), hash_map' = [hash_map EXCEPT ![h] = m]
    PROVE  /\ hash_map' = [x \in Maps |-> hash_map'[x]]
           /\ \A x \in Maps : MapOK(hash_map'[x]) /\ ~Overloaded(hash_map'[x])
           /\ hash_map'[h] = m /\ \A x \in Maps : x # h => hash_map'[x] = hash_map[x]
<1>1. hash_map' = [x \in Maps |-> IF x = h THEN m ELSE hash_map[x]]
  BY DEF HashInv
<1>2. hash_map'[h] = m /\ \A x \in Maps : x # h => hash_map'[x] = hash_map[x]
  BY <1>1
<1>3. hash_map' = [x \in Maps |-> hash_map'[x]]
  BY <1>1
<1>4. \A x \in Maps : MapOK(hash_map'[x]) /\ ~Overloaded(hash_map'[x])
  BY <1>2 DEF HashInv
<1>5. QED
  BY <1>2, <1>3, <1>4

(* The numbers of a word, but for the map that is merged.                  *)
Base(h, w) == CountIn(hash_map[h].table, 0, w)
              + (IF Expanding(h) THEN CountIn(old_table, expand_i, w) ELSE 0)

(* An Insert that finds a bucket: the word has c occurrences more, and an  *)
(* expansion has the whole table before it.                                *)
LEMMA InsertWorks ==
    ASSUME HashInv, NEW h \in Maps, NEW w \in Words, NEW c \in Nat, NEW from \in {"ready", "merge"},
           pc = from, from = "merge" => h = "fir", merge_i' \in Nat,
           InsertFrom(h, w, c, from), Find(hash_map[h], w) # NULL
    PROVE  /\ HashInv' /\ pc' \in {from, "expand"} /\ (pc' = "expand" => back' = from)
           /\ \A x \in Maps : x # h => hash_map'[x] = hash_map[x]
           /\ \A x \in Maps, v \in Words : Base(x, v)' = Base(x, v) + (IF x = h /\ v = w THEN c ELSE 0)
           /\ hash_map'[h].step = hash_map[h].step
           /\ hash_map'[h].size \in {hash_map[h].size, 2 * hash_map[h].size}
<1> DEFINE m == Put(hash_map[h], w, c)
<1>1. MapOK(hash_map[h]) /\ ~Overloaded(hash_map[h])
  BY DEF HashInv
<1>2. /\ MapOK(m) /\ m.size = hash_map[h].size /\ m.step = hash_map[h].step
      /\ m.used_nodes \in hash_map[h].used_nodes .. hash_map[h].used_nodes + 1
      /\ \A v \in Words : CountIn(m.table, 0, v) = CountIn(hash_map[h].table, 0, v) + (IF v = w THEN c ELSE 0)
  BY <1>1, PutWorks
<1>3. \A x \in Maps, v \in Words : Base(x, v) = CountIn(hash_map[x].table, 0, v) /\ CountIn(hash_map[x].table, 0, v) \in Nat
  <2>1. \A x \in Maps : ~Expanding(x)
    BY DEF Expanding
  <2>2. ASSUME NEW x \in Maps, NEW v \in Words
        PROVE  CountIn(hash_map[x].table, 0, v) \in Nat
    BY CountType DEF HashInv
  <2>3. \A x \in Maps, v \in Words : Base(x, v) = CountIn(hash_map[x].table, 0, v) + 0
    BY <2>1 DEF Base
  <2>4. QED
    BY <2>2, <2>3
<1>4. m.used_nodes <= m.size \div 2 + 1 /\ m.size \in Nat \ {0} /\ m.used_nodes \in Nat
  BY <1>1, <1>2 DEF MapOK, MapTypeOK, Overloaded
<1>5. CASE Overloaded(m)
  <2>1. /\ hash_map' = [hash_map EXCEPT ![h] = Doubled(m)] /\ pc' = "expand" /\ cur' = h /\ back' = from
        /\ old_table' = m.table /\ expand_i' = 0
    BY <1>5 DEF InsertFrom
  <2>2. /\ MapOK(Doubled(m)) /\ ~Overloaded(Doubled(m))
        /\ \A v \in Words : CountIn(Doubled(m).table, 0, v) = 0
        /\ Doubled(m).size = 2 * m.size /\ Doubled(m).used_nodes = 0 /\ Doubled(m).step = m.step
    BY <1>2, DoubledWorks
  <2> HIDE DEF m
  <2>3. /\ hash_map' = [x \in Maps |-> hash_map'[x]]
        /\ \A x \in Maps : MapOK(hash_map'[x]) /\ ~Overloaded(hash_map'[x])
        /\ hash_map'[h] = Doubled(m) /\ \A x \in Maps : x # h => hash_map'[x] = hash_map[x]
    <3>1. MapOK(Doubled(m)) /\ ~Overloaded(Doubled(m)) /\ hash_map' = [hash_map EXCEPT ![h] = Doubled(m)] /\ HashInv /\ h \in Maps
      BY <2>1, <2>2
    <3>2. QED
      BY ONLY <3>1, OneMapChanges
  <2>4. Moving'
    <3>1. m.table \in [0 .. m.size - 1 -> Buckets] /\ MapTypeOK(m) /\ Found(m) /\ Counted(m)
      BY <1>2 DEF MapOK, MapTypeOK
    <3>2. Distinct(m.table) /\ UsedIn(m.table) = Used(m)
      BY <3>1, FoundIsDistinct
    <3>3. UsedFrom(m.table, 0) = UsedIn(m.table)
      <4>1. DOMAIN m.table = 0 .. m.size - 1 /\ \A p \in 0 .. m.size - 1 : p >= 0
        BY <1>4, <3>1
      <4>2. QED
        BY <4>1 DEF UsedFrom, UsedIn
    <3>4. Cardinality(UsedFrom(m.table, 0)) = m.used_nodes
      BY <3>1, <3>2, <3>3 DEF Counted
    <3>5. hash_map'[cur'].size = 2 * m.size /\ hash_map'[cur'].used_nodes = 0
      BY <2>1, <2>2, <2>3
    <3>6. hash_map'[cur'].used_nodes + Cardinality(UsedFrom(old_table', expand_i')) <= m.size \div 2 + 1
      BY <1>4, <2>1, <3>4, <3>5
    <3>7. PICK n \in Nat \ {0} : n = m.size
      BY <1>4
    <3>8. /\ hash_map'[cur'].size = 2 * n
          /\ old_table' \in [0 .. n - 1 -> Buckets] /\ Distinct(old_table')
          /\ expand_i' \in 0 .. n
          /\ hash_map'[cur'].used_nodes + Cardinality(UsedFrom(old_table', expand_i')) <= n \div 2 + 1
      BY <2>1, <3>1, <3>2, <3>5, <3>6, <3>7
    <3>9. QED
      BY <3>8 DEF Moving
  <2>5. HashInv'
    BY <2>1, <2>3, <2>4 DEF HashInv
  <2>6. ASSUME NEW x \in Maps, NEW v \in Words
        PROVE  Base(x, v)' = Base(x, v) + (IF x = h /\ v = w THEN c ELSE 0)
    <3>1. CASE x = h
      <4>1. Expanding(x)'
        BY <2>1, <3>1 DEF Expanding
      <4>2. Base(x, v)' = 0 + CountIn(m.table, 0, v)
        BY <2>1, <2>2, <2>3, <3>1, <4>1 DEF Base
      <4>3. QED
        BY <1>2, <1>3, <3>1, <4>2
    <3>2. CASE x # h
      <4>1. ~Expanding(x)'
        BY <2>1, <3>2 DEF Expanding
      <4>2. Base(x, v)' = CountIn(hash_map[x].table, 0, v) + 0
        BY <2>3, <3>2, <4>1 DEF Base
      <4>3. QED
        BY <1>3, <3>2, <4>2
    <3>3. QED
      BY <3>1, <3>2
  <2>7. QED
    BY <1>2, <2>1, <2>2, <2>3, <2>5, <2>6
<1>6. CASE ~Overloaded(m)
  <2>1. hash_map' = [hash_map EXCEPT ![h] = m] /\ pc' = from /\ UNCHANGED expandVars
    BY <1>6 DEF InsertFrom
  <2> HIDE DEF m
  <2>2. /\ hash_map' = [x \in Maps |-> hash_map'[x]]
        /\ \A x \in Maps : MapOK(hash_map'[x]) /\ ~Overloaded(hash_map'[x])
        /\ hash_map'[h] = m /\ \A x \in Maps : x # h => hash_map'[x] = hash_map[x]
    BY <1>2, <1>6, <2>1, OneMapChanges
  <2>3. HashInv'
    BY <2>1, <2>2 DEF HashInv, expandVars
  <2>4. ASSUME NEW x \in Maps, NEW v \in Words
        PROVE  Base(x, v)' = Base(x, v) + (IF x = h /\ v = w THEN c ELSE 0)
    <3>1. ~Expanding(x)'
      BY <2>1 DEF Expanding
    <3>2. Base(x, v)' = CountIn(hash_map'[x].table, 0, v) + 0
      BY <3>1 DEF Base
    <3>3. CASE x = h
      BY <1>2, <1>3, <2>2, <3>2, <3>3
    <3>4. CASE x # h
      BY <1>3, <2>2, <3>2, <3>4
    <3>5. QED
      BY <3>3, <3>4
  <2>5. QED
    BY <1>2, <2>1, <2>2, <2>3, <2>4
<1>7. QED
  BY <1>5, <1>6

(* A round of ExpandHashMap: the bucket moves, and the numbers stay.  The  *)
(* new table is not overloaded.                                            *)
LEMMA ExpandWorks ==
    ASSUME HashInv, ExpandStep
    PROVE  /\ HashInv' /\ UNCHANGED <<cur, back, merge_i>>
           /\ \/ pc' = "exited" /\ \E h \in Maps, w \in Words : Find(hash_map[h], w) = NULL
              \/ /\ pc' = "expand"
                 /\ \A x \in Maps : x # cur => hash_map'[x] = hash_map[x]
                 /\ \A x \in Maps, v \in Words : Base(x, v)' = Base(x, v)
                 /\ hash_map'[cur].step = hash_map[cur].step /\ hash_map'[cur].size = hash_map[cur].size
<1> DEFINE bucket == old_table[expand_i]
           w == bucket.word
           m == Put(hash_map[cur], w, bucket.cnt)
<1>1. /\ pc = "expand" /\ expand_i \in DOMAIN old_table /\ expand_i' = expand_i + 1
      /\ UNCHANGED <<cur, back, old_table, merge_i>>
  BY DEF ExpandStep
<1>2. PICK n \in Nat \ {0} :
        /\ hash_map[cur].size = 2 * n
        /\ old_table \in [0 .. n - 1 -> Buckets] /\ Distinct(old_table)
        /\ expand_i \in 0 .. n
        /\ hash_map[cur].used_nodes + Cardinality(UsedFrom(old_table, expand_i)) <= n \div 2 + 1
  BY <1>1 DEF HashInv, Moving
<1>3. expand_i \in 0 .. n - 1 /\ expand_i + 1 \in 0 .. n /\ n \in Nat /\ expand_i \in Nat /\ n \div 2 + 1 <= n
  BY <1>1, <1>2
<1>4. /\ bucket \in Buckets
      /\ Listed(bucket) => bucket.cnt # NULL /\ bucket.cnt \in Nat /\ w \in Words
  <2>1. bucket \in Buckets
    BY <1>2, <1>3
  <2>2. CASE bucket = Empty
    BY <2>1, <2>2 DEF Empty, Listed
  <2>3. CASE bucket \in [word : Words, cnt : Nat]
    <3>1. bucket.cnt \in Nat /\ bucket.word \in Words
      BY <2>3
    <3>2. QED
      BY <2>1, <3>1 DEF NULL
  <2>4. QED
    BY <2>1, <2>2, <2>3 DEF Buckets
<1>5. /\ Cardinality(UsedFrom(old_table, expand_i)) \in Nat
      /\ Cardinality(UsedFrom(old_table, expand_i + 1)) \in Nat
      /\ Cardinality(UsedFrom(old_table, expand_i + 1))
         = Cardinality(UsedFrom(old_table, expand_i)) - (IF bucket.cnt # NULL THEN 1 ELSE 0)
  <2>1. PICK t, i : t = old_table /\ i = expand_i
    OBVIOUS
  <2>2. n \in Nat /\ t \in [0 .. n - 1 -> Buckets] /\ i \in Nat /\ i + 1 \in Nat /\ i \in 0 .. n - 1
    BY <1>2, <1>3, <2>1
  <2>3. Cardinality(UsedFrom(t, i)) \in Nat /\ Cardinality(UsedFrom(t, i + 1)) \in Nat
        /\ Cardinality(UsedFrom(t, i + 1)) = Cardinality(UsedFrom(t, i)) - (IF t[i].cnt # NULL THEN 1 ELSE 0)
    BY ONLY <2>2, UsedNext
  <2>4. QED
    BY <2>1, <2>3
<1>6. ASSUME NEW v \in Words
      PROVE  /\ CountIn(old_table, expand_i + 1, v) \in Nat
             /\ CountIn(old_table, expand_i, v) = CountIn(old_table, expand_i + 1, v)
                                                  + (IF Listed(bucket) /\ w = v THEN bucket.cnt ELSE 0)
  <2>1. PICK t, i : t = old_table /\ i = expand_i
    OBVIOUS
  <2>2. n \in Nat /\ t \in [0 .. n - 1 -> Buckets] /\ i + 1 \in Nat /\ i \in 0 .. n - 1 /\ Distinct(t) /\ v \in Words
    BY <1>2, <1>3, <2>1
  <2>3. CountIn(t, i, v) = CountIn(t, i + 1, v) + (IF Listed(t[i]) /\ t[i].word = v THEN t[i].cnt ELSE 0)
    BY ONLY <2>2, CountNext
  <2>4. CountIn(t, i + 1, v) \in Nat
    BY ONLY <2>2, CountAt
  <2>5. QED
    BY <2>1, <2>3, <2>4
<1>7. /\ cur \in Maps /\ MapOK(hash_map[cur]) /\ ~Overloaded(hash_map[cur])
      /\ hash_map[cur].used_nodes \in Nat /\ (back = "merge" => cur = "fir")
  BY <1>1 DEF HashInv, MapOK, MapTypeOK
<1>8. \A x \in Maps, v \in Words :
        Base(x, v) = CountIn(hash_map[x].table, 0, v) + (IF x = cur THEN CountIn(old_table, expand_i, v) ELSE 0)
  BY <1>1 DEF Base, Expanding
<1>9. ASSUME pc' = "expand"
      PROVE  \A x \in Maps, v \in Words :
               Base(x, v)' = CountIn(hash_map'[x].table, 0, v)
                             + (IF x = cur THEN CountIn(old_table, expand_i + 1, v) ELSE 0)
  BY <1>1, <1>9 DEF Base, Expanding
<1> HIDE DEF bucket, w
<1>10. CASE ~Listed(bucket)
  <2>1. UNCHANGED <<hash_map, pc>>
    BY <1>10 DEF ExpandStep, bucket
  <2>2. Moving'
    <3>1. hash_map'[cur'].used_nodes + Cardinality(UsedFrom(old_table', expand_i')) <= n \div 2 + 1
      BY <1>1, <1>2, <1>5, <1>7, <2>1
    <3>2. QED
      BY <1>1, <1>2, <1>3, <2>1, <3>1 DEF Moving
  <2>3. HashInv'
    BY <1>1, <2>1, <2>2 DEF HashInv
  <2>4. \A x \in Maps, v \in Words : Base(x, v)' = Base(x, v)
    BY <1>1, <1>6, <1>8, <1>9, <1>10, <2>1
  <2>5. QED
    BY <1>1, <2>1, <2>3, <2>4
<1>11. CASE Listed(bucket) /\ Find(hash_map[cur], w) = NULL
  <2>1. UNCHANGED hash_map /\ pc' = "exited"
    BY <1>11 DEF ExpandStep, bucket, w
  <2>2. HashInv'
    BY <1>1, <2>1 DEF HashInv
  <2>3. QED
    BY <1>1, <1>4, <1>7, <1>11, <2>1, <2>2
<1>12. CASE Listed(bucket) /\ Find(hash_map[cur], w) # NULL
  <2>1. hash_map' = [hash_map EXCEPT ![cur] = m] /\ pc' = IF Overloaded(m) THEN "nested" ELSE "expand"
    BY <1>1, <1>12 DEF ExpandStep, bucket, w
  <2>2. /\ MapOK(m) /\ m.size = hash_map[cur].size /\ m.step = hash_map[cur].step
        /\ m.used_nodes \in hash_map[cur].used_nodes .. hash_map[cur].used_nodes + 1
        /\ \A v \in Words : CountIn(m.table, 0, v)
                            = CountIn(hash_map[cur].table, 0, v) + (IF v = w THEN bucket.cnt ELSE 0)
    BY <1>4, <1>7, <1>12, PutWorks
  <2> HIDE DEF m
  <2>3. m.used_nodes + Cardinality(UsedFrom(old_table, expand_i + 1)) <= n \div 2 + 1 /\ m.used_nodes \in Nat
    <3>1. Cardinality(UsedFrom(old_table, expand_i + 1)) = Cardinality(UsedFrom(old_table, expand_i)) - 1
      BY <1>4, <1>5, <1>12
    <3>2. hash_map[cur].used_nodes \in Nat /\ n \div 2 + 1 \in Nat
      BY <1>3, <1>7
    <3>3. hash_map[cur].used_nodes + Cardinality(UsedFrom(old_table, expand_i)) <= n \div 2 + 1
      BY <1>2
    <3>4. Cardinality(UsedFrom(old_table, expand_i)) \in Nat
      BY <1>5
    <3>5. QED
      BY ONLY <2>2, <3>1, <3>2, <3>3, <3>4
  <2>4. ~Overloaded(m)
    <3>1. m.used_nodes <= n
      BY <1>3, <1>5, <2>3
    <3>2. m.size \div 2 = n
      BY <1>2, <2>2
    <3>3. QED
      BY <1>3, <2>3, <3>1, <3>2 DEF Overloaded
  <2>5. /\ hash_map' = [x \in Maps |-> hash_map'[x]]
        /\ \A x \in Maps : MapOK(hash_map'[x]) /\ ~Overloaded(hash_map'[x])
        /\ hash_map'[cur] = m /\ \A x \in Maps : x # cur => hash_map'[x] = hash_map[x]
    BY <1>7, <2>1, <2>2, <2>4, OneMapChanges
  <2>6. pc' = "expand"
    BY <2>1, <2>4
  <2>7. Moving'
    <3>1. hash_map'[cur'].used_nodes + Cardinality(UsedFrom(old_table', expand_i')) <= n \div 2 + 1
      BY <1>1, <2>3, <2>5
    <3>2. hash_map'[cur'].size = 2 * n
      BY <1>1, <1>2, <2>2, <2>5
    <3>3. QED
      BY <1>1, <1>2, <1>3, <3>1, <3>2 DEF Moving
  <2>8. HashInv'
    BY <1>1, <1>7, <2>5, <2>6, <2>7 DEF HashInv
  <2>9. ASSUME NEW x \in Maps, NEW v \in Words
        PROVE  Base(x, v)' = Base(x, v)
    <3>1. CASE x = cur
      <4>1. CountIn(hash_map[cur].table, 0, v) \in Nat
        BY <1>7, CountType
      <4>2. Base(x, v) = CountIn(hash_map[cur].table, 0, v) + CountIn(old_table, expand_i, v)
        BY <1>8, <3>1
      <4>3. Base(x, v)' = CountIn(m.table, 0, v) + CountIn(old_table, expand_i + 1, v)
        BY <1>9, <2>5, <2>6, <3>1
      <4>4. CASE v = w
        BY <1>4, <1>6, <1>12, <2>2, <4>1, <4>2, <4>3, <4>4
      <4>5. CASE v # w
        BY <1>6, <2>2, <4>1, <4>2, <4>3, <4>5
      <4>6. QED
        BY <4>4, <4>5
    <3>2. CASE x # cur
      BY <1>8, <1>9, <2>5, <2>6, <3>2
    <3>3. QED
      BY <3>1, <3>2
  <2>10. QED
    BY <1>1, <2>2, <2>5, <2>6, <2>8, <2>9
<1>13. QED
  BY <1>10, <1>11, <1>12

(* The next bucket of the map that is merged.                              *)
LEMMA MergeBucket ==
    ASSUME HashInv, merge_i \in Cells(hash_map["sec"]),
           NEW bucket, bucket = hash_map["sec"].table[merge_i]
    PROVE  /\ Listed(bucket) => bucket.word \in Words /\ bucket.cnt \in Nat
           /\ \A v \in Words :
                /\ CountIn(hash_map["sec"].table, merge_i + 1, v) \in Nat
                /\ CountIn(hash_map["sec"].table, merge_i, v)
                   = CountIn(hash_map["sec"].table, merge_i + 1, v)
                     + (IF Listed(bucket) /\ bucket.word = v THEN bucket.cnt ELSE 0)
<1>1. MapTypeOK(hash_map["sec"]) /\ Found(hash_map["sec"])
  BY DEF HashInv, MapOK, Maps
<1>2. PICK n \in Nat : hash_map["sec"].table \in [0 .. n - 1 -> Buckets] /\ merge_i \in 0 .. n - 1
  BY <1>1 DEF MapTypeOK, Cells
<1>3. PICK t, i : t = hash_map["sec"].table /\ i = merge_i
  OBVIOUS
<1>4. /\ n \in Nat /\ t \in [0 .. n - 1 -> Buckets] /\ i \in 0 .. n - 1 /\ i + 1 \in Nat
      /\ Distinct(t)
  BY <1>1, <1>2, <1>3, FoundIsDistinct
<1>5. \A v \in Words : /\ CountIn(t, i + 1, v) \in Nat
                       /\ CountIn(t, i, v) = CountIn(t, i + 1, v)
                                             + (IF Listed(t[i]) /\ t[i].word = v THEN t[i].cnt ELSE 0)
  <2> SUFFICES ASSUME NEW v \in Words
               PROVE  /\ CountIn(t, i + 1, v) \in Nat
                      /\ CountIn(t, i, v) = CountIn(t, i + 1, v)
                                            + (IF Listed(t[i]) /\ t[i].word = v THEN t[i].cnt ELSE 0)
    OBVIOUS
  <2>1. v \in Words
    OBVIOUS
  <2>2. CountIn(t, i + 1, v) \in Nat
    BY ONLY <1>4, <2>1, CountAt
  <2>3. CountIn(t, i, v) = CountIn(t, i + 1, v) + (IF Listed(t[i]) /\ t[i].word = v THEN t[i].cnt ELSE 0)
    BY ONLY <1>4, <2>1, CountNext
  <2>4. QED
    BY <2>2, <2>3
<1>6. Listed(bucket) => bucket.word \in Words /\ bucket.cnt \in Nat
  <2>1. bucket \in Buckets
    BY <1>3, <1>4
  <2>2. CASE bucket = Empty
    BY <2>2 DEF Empty, Listed
  <2>3. CASE bucket \in [word : Words, cnt : Nat]
    BY <2>3
  <2>4. QED
    BY <2>1, <2>2, <2>3 DEF Buckets
<1>7. QED
  BY <1>3, <1>5, <1>6

(* The invariant holds in every state: in particular the Insert of an      *)
(* expansion never expands again.                                          *)
LEMMA HashInvInit == Init => HashInv
<1> SUFFICES ASSUME Init
             PROVE  HashInv
  OBVIOUS
<1>1. \A h \in Maps : hash_map[h] \in NewMaps
  BY DEF Init
<1>2. \A h \in Maps : MapOK(hash_map[h]) /\ ~Overloaded(hash_map[h])
  BY <1>1, NewMapWorks
<1>3. QED
  BY <1>2 DEF Init, HashInv, Maps

(* Every step keeps the invariant.                                         *)
LEMMA HashInvNext == HashInv /\ [Next]_vars => HashInv'
<1> SUFFICES ASSUME HashInv, [Next]_vars
             PROVE  HashInv'
  OBVIOUS
<1>1. CASE UNCHANGED vars
  BY <1>1 DEF vars, expandVars, HashInv, Moving
<1>2. ASSUME NEW h \in Maps, NEW w \in Words, NEW c \in Cnts, Insert(h, w, c)
      PROVE  HashInv'
  <2>1. pc = "ready" /\ InsertFrom(h, w, c, "ready") /\ merge_i' = merge_i /\ c \in Nat
    BY <1>2, CntsAssumption DEF Insert
  <2>2. CASE Find(hash_map[h], w) = NULL
    BY <2>1, <2>2 DEF InsertFrom, Exit, expandVars, HashInv
  <2>3. CASE Find(hash_map[h], w) # NULL
    <3>1. merge_i' \in Nat
      BY <2>1 DEF HashInv
    <3>2. QED
      BY <2>1, <2>3, <3>1, InsertWorks
  <2>4. QED
    BY <2>2, <2>3
<1>3. ASSUME NEW h \in Maps, NEW w \in Words, Remove(h, w)
      PROVE  HashInv'
  <2> DEFINE m == Less(hash_map[h], w)
  <2>1. /\ Find(hash_map[h], w) # NULL /\ hash_map[h].table[Find(hash_map[h], w)].cnt > 0 /\ pc = "ready"
        /\ hash_map' = [hash_map EXCEPT ![h] = m] /\ UNCHANGED <<pc, expandVars, merge_i>>
    BY <1>3, RemoveIsLess
  <2>2. MapOK(hash_map[h]) /\ ~Overloaded(hash_map[h])
    BY DEF HashInv
  <2>3. MapOK(m) /\ m.size = hash_map[h].size /\ m.used_nodes = hash_map[h].used_nodes
    BY <2>1, <2>2, RemoveWorks
  <2> HIDE DEF m
  <2>4. ~Overloaded(m)
    BY <2>2, <2>3 DEF Overloaded
  <2>5. /\ hash_map' = [x \in Maps |-> hash_map'[x]]
        /\ \A x \in Maps : MapOK(hash_map'[x]) /\ ~Overloaded(hash_map'[x])
    BY <2>1, <2>3, <2>4, OneMapChanges
  <2>6. QED
    BY <2>1, <2>5 DEF HashInv, expandVars
<1>4. CASE ExpandStep
  BY <1>4, ExpandWorks
<1>5. CASE ExpandEnd
  BY <1>5 DEF ExpandEnd, HashInv
<1>6. CASE MergeBegin
  BY <1>6 DEF MergeBegin, HashInv, expandVars
<1>7. CASE MergeStep
  <2> DEFINE bucket == hash_map["sec"].table[merge_i]
  <2>1. /\ pc = "merge" /\ merge_i \in Cells(hash_map["sec"]) /\ merge_i' = merge_i + 1 /\ merge_i' \in Nat
        /\ IF Listed(bucket) THEN InsertFrom("fir", bucket.word, bucket.cnt, "merge")
           ELSE UNCHANGED <<hash_map, pc, expandVars>>
    BY <1>7 DEF MergeStep, HashInv
  <2>2. Listed(bucket) => bucket.word \in Words /\ bucket.cnt \in Nat
    BY <2>1, MergeBucket
  <2> HIDE DEF bucket
  <2>3. CASE ~Listed(bucket)
    BY <2>1, <2>3 DEF HashInv, expandVars
  <2>4. CASE Listed(bucket) /\ Find(hash_map["fir"], bucket.word) = NULL
    BY <2>1, <2>4 DEF InsertFrom, Exit, expandVars, HashInv
  <2>5. CASE Listed(bucket) /\ Find(hash_map["fir"], bucket.word) # NULL
    <3>1. "fir" \in Maps
      BY DEF Maps
    <3>2. QED
      BY <2>1, <2>2, <2>5, <3>1, InsertWorks
  <2>6. QED
    BY <2>3, <2>4, <2>5
<1>8. CASE MergeEnd
  BY <1>8 DEF MergeEnd, HashInv, expandVars
<1>9. CASE Replace
  <2>1. PICK m \in NewMaps : hash_map' = [hash_map EXCEPT !["sec"] = m]
    BY <1>9 DEF Replace
  <2>2. MapOK(m) /\ ~Overloaded(m) /\ "sec" \in Maps
    BY NewMapWorks DEF Maps
  <2>3. /\ hash_map' = [x \in Maps |-> hash_map'[x]]
        /\ \A x \in Maps : MapOK(hash_map'[x]) /\ ~Overloaded(hash_map'[x])
    BY <2>1, <2>2, OneMapChanges
  <2>4. QED
    BY <1>9, <2>3 DEF Replace, HashInv, expandVars
<1>10. QED
  BY <1>1, <1>2, <1>3, <1>4, <1>5, <1>6, <1>7, <1>8, <1>9 DEF Next

(* So it holds in every state.                                             *)
LEMMA HashInvariant == Spec => []HashInv
BY HashInvInit, HashInvNext, PTL DEF Spec

(* Find returns the bucket of every word that is stored, whatever was      *)
(* inserted, removed, expanded and merged before.                          *)
THEOREM EveryStoredWordIsFound == Spec => []StoredIsFound
<1>1. HashInv => StoredIsFound
  BY DEF HashInv, MapOK, Found, StoredIsFound
<1>2. QED
  BY <1>1, HashInvariant, PTL

(* The new table of an expansion is at most half full when the old one has *)
(* been moved: no expansion begins inside another one.                     *)
THEOREM NoExpansionIsNested == Spec => [](pc # "nested")
<1>1. HashInv => pc # "nested"
  BY DEF HashInv
<1>2. QED
  BY <1>1, HashInvariant, PTL

-----------------------------------------------------------------------------
(* Room.                                                                   *)

(* The strides from any position reach any position of a table.            *)
Reaches(size, step) ==
    \A s, p \in 0 .. size - 1 : \E k \in 0 .. size - 1 : (s + k * step) % size = p

(* The steps that rand() may lead to reach every position of the tables    *)
(* that doubling makes.                                                    *)
StridesReach ==
    \E S \in SUBSET Nat :
        /\ DefaultSize \in S /\ \A n \in S : 2 * n \in S
        /\ \A n \in S, r \in Rands : Reaches(n, GenerateStep(r))

(* A table that is not overloaded has an empty bucket.                     *)
LEMMA EmptyBucket ==
    ASSUME NEW m, MapOK(m), ~Overloaded(m)
    PROVE  \E p \in Cells(m) : m.table[p].cnt = NULL
<1>1. m.size \in Nat \ {0} /\ m.used_nodes \in Nat /\ m.used_nodes = Cardinality(Used(m)) /\ m.used_nodes < m.size
  BY DEF MapOK, MapTypeOK, Counted, Overloaded
<1>2. Cardinality(Cells(m)) = m.size
  <2>1. 0 \in Int /\ m.size - 1 \in Int
    BY <1>1
  <2>2. Cardinality(0 .. m.size - 1) = IF 0 > m.size - 1 THEN 0 ELSE m.size - 1 - 0 + 1
    BY <2>1, FS_Interval
  <2>3. QED
    BY <1>1, <2>2 DEF Cells
<1>3. Used(m) # Cells(m)
  BY <1>1, <1>2
<1>4. QED
  BY <1>3 DEF Used, NULL

(* So that the search for any word ends at a bucket.                       *)
LEMMA FindReturns ==
    ASSUME NEW m, MapOK(m), ~Overloaded(m), Reaches(m.size, m.step), NEW w \in Words
    PROVE  Find(m, w) # NULL
<1>1. MapTypeOK(m) /\ m.size \in Nat \ {0} /\ Cells(m) = 0 .. m.size - 1 /\ Hash[w] \in Nat
  BY HashAssumption DEF MapOK, MapTypeOK, Cells
<1>2. PICK p \in Cells(m) : m.table[p].cnt = NULL
  BY EmptyBucket
<1>3. Hash[w] % m.size \in 0 .. m.size - 1
  BY <1>1
<1>4. PICK k \in Cells(m) : Probe(m, w, k) = p
  BY <1>1, <1>2, <1>3 DEF Reaches, Probe
<1>5. Matches(m, w, Probe(m, w, k))
  BY <1>2, <1>4 DEF Matches, NULL
<1>6. p \in Cells(m) => p # NULL
  BY <1>1 DEF NULL
<1>7. \A x \in Cells(m) : x # NULL
  BY <1>1 DEF NULL
<1>8. QED
  BY <1>1, <1>4, <1>5, <1>7, FindIsFirst

(* Each map has a size of S and a step that rand() led to.                 *)
StridesInv(S) ==
    \A h \in Maps : hash_map[h].size \in S /\ \E r \in Rands : hash_map[h].step = GenerateStep(r)

(* Every step keeps the sizes and the steps among those that reach, so     *)
(* Find never returns NULL and no step ends the process.                   *)
LEMMA StridesNext ==
    ASSUME NEW S \in SUBSET Nat, DefaultSize \in S, \A n \in S : 2 * n \in S,
           \A n \in S, r \in Rands : Reaches(n, GenerateStep(r)),
           HashInv, StridesInv(S), RoomForEveryWord, [Next]_vars
    PROVE  StridesInv(S)' /\ RoomForEveryWord'
<1>1. \A h \in Maps, w \in Words : Find(hash_map[h], w) # NULL
  <2>1. \A h \in Maps : MapOK(hash_map[h]) /\ ~Overloaded(hash_map[h]) /\ Reaches(hash_map[h].size, hash_map[h].step)
    BY DEF HashInv, StridesInv
  <2>2. QED
    BY <2>1, FindReturns
<1>2. ASSUME NEW h \in Maps, \A x \in Maps : x # h => hash_map'[x] = hash_map[x],
             hash_map'[h].size \in {hash_map[h].size, 2 * hash_map[h].size},
             hash_map'[h].step = hash_map[h].step
      PROVE  StridesInv(S)'
  BY <1>2 DEF StridesInv
<1>3. CASE UNCHANGED vars
  BY <1>3 DEF vars, StridesInv, RoomForEveryWord
<1>4. ASSUME NEW h \in Maps, NEW w \in Words, NEW c \in Cnts, Insert(h, w, c)
      PROVE  StridesInv(S)' /\ RoomForEveryWord'
  <2>1. pc = "ready" /\ InsertFrom(h, w, c, "ready") /\ merge_i' = merge_i /\ c \in Nat
    BY <1>4, CntsAssumption DEF Insert
  <2>2. merge_i' \in Nat
    BY <2>1 DEF HashInv
  <2>3. /\ \A x \in Maps : x # h => hash_map'[x] = hash_map[x]
        /\ hash_map'[h].step = hash_map[h].step
        /\ hash_map'[h].size \in {hash_map[h].size, 2 * hash_map[h].size}
        /\ pc' \in {"ready", "expand"}
    BY <1>1, <2>1, <2>2, InsertWorks
  <2>4. QED
    BY <1>2, <2>3 DEF RoomForEveryWord
<1>5. ASSUME NEW h \in Maps, NEW w \in Words, Remove(h, w)
      PROVE  StridesInv(S)' /\ RoomForEveryWord'
  <2> DEFINE m == Less(hash_map[h], w)
  <2>1. /\ Find(hash_map[h], w) # NULL /\ hash_map[h].table[Find(hash_map[h], w)].cnt > 0 /\ pc = "ready"
        /\ hash_map' = [hash_map EXCEPT ![h] = m] /\ UNCHANGED <<pc, expandVars, merge_i>>
    BY <1>5, RemoveIsLess
  <2>2. MapOK(hash_map[h]) /\ hash_map = [x \in Maps |-> hash_map[x]]
    BY DEF HashInv
  <2>3. m.size = hash_map[h].size /\ m.step = hash_map[h].step
    BY <2>1, <2>2, RemoveWorks
  <2> HIDE DEF m
  <2>4. hash_map'[h] = m /\ \A x \in Maps : x # h => hash_map'[x] = hash_map[x]
    BY <2>1, <2>2
  <2>5. QED
    BY <1>2, <2>1, <2>3, <2>4 DEF RoomForEveryWord
<1>6. CASE ExpandStep
  <2>1. /\ pc' = "expand" /\ cur \in Maps
        /\ \A x \in Maps : x # cur => hash_map'[x] = hash_map[x]
        /\ hash_map'[cur].step = hash_map[cur].step /\ hash_map'[cur].size = hash_map[cur].size
    BY <1>1, <1>6, ExpandWorks DEF HashInv
  <2>2. QED
    BY <1>2, <2>1 DEF RoomForEveryWord
<1>7. CASE ExpandEnd \/ MergeBegin \/ MergeEnd
  BY <1>7 DEF ExpandEnd, MergeBegin, MergeEnd, StridesInv, RoomForEveryWord, HashInv
<1>8. CASE MergeStep
  <2> DEFINE bucket == hash_map["sec"].table[merge_i]
  <2>1. /\ pc = "merge" /\ merge_i \in Cells(hash_map["sec"]) /\ merge_i' = merge_i + 1 /\ merge_i' \in Nat
        /\ IF Listed(bucket) THEN InsertFrom("fir", bucket.word, bucket.cnt, "merge")
           ELSE UNCHANGED <<hash_map, pc, expandVars>>
    BY <1>8 DEF MergeStep, HashInv
  <2>2. Listed(bucket) => bucket.word \in Words /\ bucket.cnt \in Nat
    BY <2>1, MergeBucket
  <2>3. "fir" \in Maps
    BY DEF Maps
  <2> HIDE DEF bucket
  <2>4. CASE ~Listed(bucket)
    BY <2>1, <2>4 DEF StridesInv, RoomForEveryWord
  <2>5. CASE Listed(bucket)
    <3>1. /\ \A x \in Maps : x # "fir" => hash_map'[x] = hash_map[x]
          /\ hash_map'["fir"].step = hash_map["fir"].step
          /\ hash_map'["fir"].size \in {hash_map["fir"].size, 2 * hash_map["fir"].size}
          /\ pc' \in {"merge", "expand"}
      BY <1>1, <2>1, <2>2, <2>3, <2>5, InsertWorks
    <3>2. QED
      BY <1>2, <2>3, <3>1 DEF RoomForEveryWord
  <2>6. QED
    BY <2>4, <2>5
<1>9. CASE Replace
  <2>1. PICK m \in NewMaps : hash_map' = [hash_map EXCEPT !["sec"] = m]
    BY <1>9 DEF Replace
  <2>2. m.size = DefaultSize /\ \E r \in Rands : m.step = GenerateStep(r)
    BY NewMapWorks
  <2>3. hash_map'["sec"] = m /\ \A x \in Maps : x # "sec" => hash_map'[x] = hash_map[x]
    BY <2>1 DEF HashInv, Maps
  <2>4. QED
    BY <1>9, <2>2, <2>3 DEF Replace, StridesInv, RoomForEveryWord
<1>10. QED
  BY <1>3, <1>4, <1>5, <1>6, <1>7, <1>8, <1>9 DEF Next

(* The process never exits because Find returned NULL, provided that the   *)
(* strides of every step that rand() may lead to reach every position.     *)
THEOREM RoomWhereStridesReach ==
    ASSUME StridesReach
    PROVE  Spec => []RoomForEveryWord
<1>1. PICK S \in SUBSET Nat : /\ DefaultSize \in S /\ \A n \in S : 2 * n \in S
                              /\ \A n \in S, r \in Rands : Reaches(n, GenerateStep(r))
  BY DEF StridesReach
<1>2. Init => StridesInv(S) /\ RoomForEveryWord
  <2> SUFFICES ASSUME Init
               PROVE  StridesInv(S) /\ RoomForEveryWord
    OBVIOUS
  <2>1. \A h \in Maps : hash_map[h] \in NewMaps
    BY DEF Init
  <2>2. StridesInv(S)
    BY <1>1, <2>1, NewMapWorks DEF StridesInv
  <2>3. QED
    BY <2>2 DEF Init, RoomForEveryWord
<1>3. HashInv /\ StridesInv(S) /\ RoomForEveryWord /\ [Next]_vars => StridesInv(S)' /\ RoomForEveryWord'
  BY <1>1, StridesNext
<1>4. QED
  BY <1>2, <1>3, HashInvariant, PTL DEF Spec

-----------------------------------------------------------------------------
(* The map implements WordCounter.                                         *)

AbsCount == [h \in Maps |-> [w \in Words |-> CountOf(h, w)]]
AbsState == IF pc \in {"ready", "exited"} THEN pc ELSE "busy"

(* What is still to come of the map that is merged.                        *)
ToMerge(w) == CountIn(hash_map["sec"].table, merge_i, w)

(* What WordCounter counts is what is in the map and what is still to come *)
(* from the map that is merged.                                            *)
LEMMA CountOfParts ==
    \A h \in Maps, w \in Words : CountOf(h, w) = Base(h, w) + (IF Merging /\ h = "fir" THEN ToMerge(w) ELSE 0)
BY DEF CountOf, Base, ToMerge

(* Both are numbers.                                                       *)
LEMMA PartsType ==
    ASSUME HashInv
    PROVE  \A h \in Maps, w \in Words : Base(h, w) \in Nat /\ ToMerge(w) \in Nat
<1> SUFFICES ASSUME NEW h \in Maps, NEW w \in Words
             PROVE  Base(h, w) \in Nat /\ ToMerge(w) \in Nat
  OBVIOUS
<1>1. CountIn(hash_map[h].table, 0, w) \in Nat
  BY CountType DEF HashInv
<1>2. Expanding(h) => CountIn(old_table, expand_i, w) \in Nat
  <2> SUFFICES ASSUME Expanding(h)
               PROVE  CountIn(old_table, expand_i, w) \in Nat
    OBVIOUS
  <2>1. PICK n \in Nat : old_table \in [0 .. n - 1 -> Buckets] /\ Distinct(old_table) /\ expand_i \in 0 .. n
    BY DEF HashInv, Moving, Expanding
  <2>2. PICK t, i : t = old_table /\ i = expand_i
    OBVIOUS
  <2>3. n \in Nat /\ t \in [0 .. n - 1 -> Buckets] /\ Distinct(t) /\ i \in Nat /\ w \in Words
    BY <2>1, <2>2
  <2>4. CountIn(t, i, w) \in Nat
    BY ONLY <2>3, CountAt
  <2>5. QED
    BY <2>2, <2>4
<1>3. ToMerge(w) \in Nat
  <2>1. MapTypeOK(hash_map["sec"]) /\ Found(hash_map["sec"])
    BY DEF HashInv, MapOK, Maps
  <2>2. PICK n \in Nat : hash_map["sec"].table \in [0 .. n - 1 -> Buckets]
    BY <2>1 DEF MapTypeOK
  <2>3. PICK t, i : t = hash_map["sec"].table /\ i = merge_i
    OBVIOUS
  <2>4. n \in Nat /\ t \in [0 .. n - 1 -> Buckets] /\ Distinct(t) /\ i \in Nat /\ w \in Words
    BY <2>1, <2>2, <2>3, FoundIsDistinct DEF HashInv
  <2>5. CountIn(t, i, w) \in Nat
    BY ONLY <2>4, CountAt
  <2>6. QED
    BY <2>3, <2>5 DEF ToMerge
<1>4. QED
  BY <1>1, <1>2, <1>3 DEF Base

(* Nothing is counted behind the end of a table.                           *)
LEMMA CountAtEnd ==
    ASSUME NEW n \in Nat, NEW table \in [0 .. n - 1 -> Buckets], NEW i \in Nat, i \notin 0 .. n - 1, NEW w
    PROVE  CountIn(table, i, w) = 0
<1>1. {p \in DOMAIN table : p >= i /\ table[p].word = w /\ Listed(table[p])} = {}
  OBVIOUS
<1>2. QED
  BY <1>1 DEF CountIn

(* The numbers before and after a step decide what AbsCount becomes.       *)
LEMMA SameCount ==
    ASSUME \A x \in Maps, v \in Words : CountOf(x, v)' = CountOf(x, v)
    PROVE  AbsCount' = AbsCount
BY DEF AbsCount

(* Where one number changes, one entry of AbsCount does.                   *)
LEMMA OneCount ==
    ASSUME NEW h \in Maps, NEW w \in Words, NEW n,
           \A x \in Maps, v \in Words : CountOf(x, v)' = IF x = h /\ v = w THEN n ELSE CountOf(x, v)
    PROVE  AbsCount' = [AbsCount EXCEPT ![h][w] = n]
BY DEF AbsCount

(* Where the numbers of one map change, one function of AbsCount does.     *)
LEMMA MapCount ==
    ASSUME NEW h \in Maps, NEW f,
           \A x \in Maps, v \in Words : CountOf(x, v)' = IF x = h THEN f[v] ELSE CountOf(x, v),
           f = [v \in Words |-> f[v]]
    PROVE  AbsCount' = [AbsCount EXCEPT ![h] = f]
BY DEF AbsCount

(* What an Insert adds is what WordCounter adds.                           *)
LEMMA InsertCounted ==
    ASSUME HashInv, NEW h \in Maps, NEW w \in Words, NEW c \in Cnts, Insert(h, w, c)
    PROVE  \/ AbsState = "ready" /\ AbsState' = "exited"
           \/ /\ AbsState = "ready" /\ AbsState' \in {"ready", "busy"}
              /\ AbsCount' = [AbsCount EXCEPT ![h][w] = @ + c]
<1>1. pc = "ready" /\ InsertFrom(h, w, c, "ready") /\ merge_i' = merge_i /\ c \in Nat
  BY CntsAssumption DEF Insert
<1>2. merge_i' \in Nat /\ AbsState = "ready" /\ ~Merging
  BY <1>1 DEF HashInv, AbsState, Merging
<1>3. CASE Find(hash_map[h], w) = NULL
  BY <1>1, <1>2, <1>3 DEF InsertFrom, Exit, AbsState
<1>4. CASE Find(hash_map[h], w) # NULL
  <2>1. /\ pc' \in {"ready", "expand"} /\ (pc' = "expand" => back' = "ready")
        /\ \A x \in Maps, v \in Words : Base(x, v)' = Base(x, v) + (IF x = h /\ v = w THEN c ELSE 0)
    BY <1>1, <1>2, <1>4, InsertWorks
  <2>2. AbsState' \in {"ready", "busy"} /\ ~Merging'
    BY <2>1 DEF AbsState, Merging
  <2>3. \A x \in Maps, v \in Words : Base(x, v) \in Nat
    BY PartsType
  <2>4. \A x \in Maps, v \in Words : CountOf(x, v) = Base(x, v)
    BY <1>2, <2>3, CountOfParts
  <2>5. \A x \in Maps, v \in Words : CountOf(x, v)' = Base(x, v)' + 0
    BY <2>2 DEF CountOf, Base
  <2>6. \A x \in Maps, v \in Words : CountOf(x, v)' = IF x = h /\ v = w THEN CountOf(h, w) + c ELSE CountOf(x, v)
    <3> SUFFICES ASSUME NEW x \in Maps, NEW v \in Words
                 PROVE  CountOf(x, v)' = IF x = h /\ v = w THEN CountOf(h, w) + c ELSE CountOf(x, v)
      OBVIOUS
    <3>1. CountOf(x, v)' = CountOf(x, v) + (IF x = h /\ v = w THEN c ELSE 0) + 0 /\ CountOf(x, v) \in Nat
      BY <2>1, <2>3, <2>4, <2>5
    <3>2. CASE x = h /\ v = w
      BY <1>1, <3>1, <3>2
    <3>3. CASE ~(x = h /\ v = w)
      BY <3>1, <3>3
    <3>4. QED
      BY <3>2, <3>3
  <2>7. AbsCount' = [AbsCount EXCEPT ![h][w] = CountOf(h, w) + c]
    BY <2>6, OneCount
  <2>8. AbsCount[h][w] = CountOf(h, w)
    BY DEF AbsCount
  <2>9. [AbsCount EXCEPT ![h][w] = CountOf(h, w) + c] = [AbsCount EXCEPT ![h][w] = @ + c]
    BY <2>8
  <2>10. QED
    BY <1>2, <2>2, <2>7, <2>9
<1>5. QED
  BY <1>3, <1>4

(* What Remove takes is what WordCounter takes.                            *)
LEMMA RemoveCounted ==
    ASSUME HashInv, NEW h \in Maps, NEW w \in Words, Remove(h, w)
    PROVE  /\ AbsState = "ready" /\ AbsState' = "ready" /\ AbsCount[h][w] > 0
           /\ AbsCount' = [AbsCount EXCEPT ![h][w] = @ - 1]
<1> DEFINE m == Less(hash_map[h], w)
<1>1. /\ Find(hash_map[h], w) # NULL /\ hash_map[h].table[Find(hash_map[h], w)].cnt > 0 /\ pc = "ready"
      /\ hash_map' = [hash_map EXCEPT ![h] = m] /\ UNCHANGED <<pc, expandVars, merge_i>>
  BY RemoveIsLess
<1>2. MapOK(hash_map[h])
  BY DEF HashInv
<1>3. /\ CountIn(hash_map[h].table, 0, w) > 0
      /\ \A v \in Words : CountIn(m.table, 0, v) = CountIn(hash_map[h].table, 0, v) - (IF v = w THEN 1 ELSE 0)
  BY <1>1, <1>2, RemoveWorks
<1> HIDE DEF m
<1>4. hash_map'[h] = m /\ \A x \in Maps : x # h => hash_map'[x] = hash_map[x]
  BY <1>1 DEF HashInv
<1>5. /\ \A x \in Maps, v \in Words : CountOf(x, v) = CountIn(hash_map[x].table, 0, v) + 0 + 0
      /\ \A x \in Maps, v \in Words : CountOf(x, v)' = CountIn(hash_map'[x].table, 0, v) + 0 + 0
  BY <1>1 DEF CountOf, Expanding, Merging
<1>6. \A x \in Maps, v \in Words : CountIn(hash_map[x].table, 0, v) \in Nat
  BY CountType DEF HashInv
<1>7. \A x \in Maps, v \in Words : CountOf(x, v)' = IF x = h /\ v = w THEN CountOf(h, w) - 1 ELSE CountOf(x, v)
  <2> SUFFICES ASSUME NEW x \in Maps, NEW v \in Words
               PROVE  CountOf(x, v)' = IF x = h /\ v = w THEN CountOf(h, w) - 1 ELSE CountOf(x, v)
    OBVIOUS
  <2>1. CASE x = h
    <3>1. CountOf(x, v)' = CountIn(hash_map[h].table, 0, v) - (IF v = w THEN 1 ELSE 0) + 0 + 0
      BY <1>3, <1>4, <1>5, <2>1
    <3>2. CountOf(x, v) = CountIn(hash_map[h].table, 0, v) /\ CountIn(hash_map[h].table, 0, v) \in Nat
      BY <1>5, <1>6, <2>1
    <3>3. QED
      BY <2>1, <3>1, <3>2
  <2>2. CASE x # h
    BY <1>4, <1>5, <1>6, <2>2
  <2>3. QED
    BY <2>1, <2>2
<1>8. AbsCount[h][w] = CountOf(h, w) /\ CountOf(h, w) = CountIn(hash_map[h].table, 0, w)
  BY <1>5, <1>6 DEF AbsCount
<1>9. AbsCount' = [AbsCount EXCEPT ![h][w] = CountOf(h, w) - 1]
  BY <1>7, OneCount
<1>10. [AbsCount EXCEPT ![h][w] = CountOf(h, w) - 1] = [AbsCount EXCEPT ![h][w] = @ - 1]
  BY <1>8
<1>11. AbsState = "ready" /\ AbsState' = "ready"
  BY <1>1 DEF AbsState
<1>12. QED
  BY <1>3, <1>8, <1>9, <1>10, <1>11

(* A new map for the next worker clears the numbers of sec.                *)
LEMMA ReplaceCounted ==
    ASSUME HashInv, Replace
    PROVE  /\ AbsState = "ready" /\ AbsState' = "ready"
           /\ AbsCount' = [AbsCount EXCEPT !["sec"] = [w \in Words |-> 0]]
<1>1. PICK m \in NewMaps : pc = "ready" /\ hash_map' = [hash_map EXCEPT !["sec"] = m] /\ pc' = pc
  BY DEF Replace
<1>2. \A w \in Words : CountIn(m.table, 0, w) = 0
  BY NewMapWorks
<1>3. hash_map'["sec"] = m /\ \A x \in Maps : x # "sec" => hash_map'[x] = hash_map[x]
  BY <1>1 DEF HashInv, Maps
<1>4. /\ \A x \in Maps, v \in Words : CountOf(x, v) = CountIn(hash_map[x].table, 0, v) + 0 + 0
      /\ \A x \in Maps, v \in Words : CountOf(x, v)' = CountIn(hash_map'[x].table, 0, v) + 0 + 0
  BY <1>1 DEF CountOf, Expanding, Merging
<1> DEFINE f == [w \in Words |-> 0]
<1>5. \A x \in Maps, v \in Words : CountOf(x, v)' = IF x = "sec" THEN f[v] ELSE CountOf(x, v)
  BY <1>2, <1>3, <1>4
<1>6. f = [v \in Words |-> f[v]] /\ "sec" \in Maps
  BY DEF Maps
<1> HIDE DEF f
<1>7. AbsCount' = [AbsCount EXCEPT !["sec"] = f]
  BY <1>5, <1>6, MapCount
<1>8. QED
  BY <1>1, <1>7 DEF AbsState, f

(* A merge counts when it begins.                                          *)
LEMMA MergeCounted ==
    ASSUME HashInv, MergeBegin
    PROVE  /\ AbsState = "ready" /\ AbsState' = "busy"
           /\ AbsCount' = [AbsCount EXCEPT !["fir"] = [w \in Words |-> @[w] + AbsCount["sec"][w]]]
<1>1. pc = "ready" /\ pc' = "merge" /\ merge_i' = 0 /\ hash_map' = hash_map
  BY DEF MergeBegin
<1>2. \A x \in Maps, v \in Words : CountIn(hash_map[x].table, 0, v) \in Nat
  BY CountType DEF HashInv
<1>3. \A x \in Maps, v \in Words : CountOf(x, v) = CountIn(hash_map[x].table, 0, v) + 0 + 0
  BY <1>1 DEF CountOf, Expanding, Merging
<1>4. \A x \in Maps, v \in Words :
        CountOf(x, v)' = CountIn(hash_map[x].table, 0, v) + 0
                         + (IF x = "fir" THEN CountIn(hash_map["sec"].table, 0, v) ELSE 0)
  BY <1>1 DEF CountOf, Expanding, Merging
<1> DEFINE f == [w \in Words |-> CountOf("fir", w) + CountOf("sec", w)]
<1>5. \A x \in Maps, v \in Words : CountOf(x, v)' = IF x = "fir" THEN f[v] ELSE CountOf(x, v)
  <2> SUFFICES ASSUME NEW x \in Maps, NEW v \in Words
               PROVE  CountOf(x, v)' = IF x = "fir" THEN f[v] ELSE CountOf(x, v)
    OBVIOUS
  <2>1. "sec" \in Maps /\ "fir" \in Maps /\ f[v] = CountOf("fir", v) + CountOf("sec", v)
    BY DEF Maps
  <2>2. CASE x = "fir"
    BY <1>2, <1>3, <1>4, <2>1, <2>2
  <2>3. CASE x # "fir"
    BY <1>2, <1>3, <1>4, <2>3
  <2>4. QED
    BY <2>2, <2>3
<1>6. f = [v \in Words |-> f[v]] /\ "fir" \in Maps
  BY DEF Maps
<1>7. f = [w \in Words |-> AbsCount["fir"][w] + AbsCount["sec"][w]]
  BY DEF AbsCount, Maps
<1> HIDE DEF f
<1>8. AbsCount' = [AbsCount EXCEPT !["fir"] = f]
  BY <1>5, <1>6, MapCount
<1>9. [AbsCount EXCEPT !["fir"] = f] = [AbsCount EXCEPT !["fir"] = [w \in Words |-> @[w] + AbsCount["sec"][w]]]
  BY <1>7
<1>10. QED
  BY <1>1, <1>8, <1>9 DEF AbsState

(* A round of the merge moves a bucket from what is still to come to fir.  *)
LEMMA MergeStepCounted ==
    ASSUME HashInv, MergeStep
    PROVE  /\ AbsState = "busy"
           /\ AbsState' = "exited" \/ (AbsState' = "busy" /\ AbsCount' = AbsCount)
<1> DEFINE bucket == hash_map["sec"].table[merge_i]
<1>1. /\ pc = "merge" /\ merge_i \in Cells(hash_map["sec"]) /\ merge_i' = merge_i + 1 /\ merge_i' \in Nat
      /\ IF Listed(bucket) THEN InsertFrom("fir", bucket.word, bucket.cnt, "merge")
         ELSE UNCHANGED <<hash_map, pc, expandVars>>
  BY DEF MergeStep, HashInv
<1>2. /\ Listed(bucket) => bucket.word \in Words /\ bucket.cnt \in Nat
      /\ \A v \in Words :
           /\ CountIn(hash_map["sec"].table, merge_i + 1, v) \in Nat
           /\ CountIn(hash_map["sec"].table, merge_i, v)
              = CountIn(hash_map["sec"].table, merge_i + 1, v)
                + (IF Listed(bucket) /\ bucket.word = v THEN bucket.cnt ELSE 0)
  BY <1>1, MergeBucket
<1>3. "fir" \in Maps /\ "sec" \in Maps /\ Merging /\ AbsState = "busy"
  BY <1>1 DEF Maps, Merging, AbsState
<1>4. \A x \in Maps, v \in Words :
        CountOf(x, v) = Base(x, v) + (IF x = "fir" THEN CountIn(hash_map["sec"].table, merge_i, v) ELSE 0)
  BY <1>3, CountOfParts DEF ToMerge
<1>5. \A x \in Maps, v \in Words : Base(x, v) \in Nat
  BY PartsType
<1> HIDE DEF bucket
<1>6. CASE Listed(bucket) /\ Find(hash_map["fir"], bucket.word) = NULL
  BY <1>1, <1>3, <1>6 DEF InsertFrom, Exit, AbsState
<1>7. CASE Listed(bucket) /\ Find(hash_map["fir"], bucket.word) # NULL
  <2>1. PICK k, u : k = bucket.cnt /\ u = bucket.word
    OBVIOUS
  <2>2. /\ pc' \in {"merge", "expand"} /\ (pc' = "expand" => back' = "merge")
        /\ \A x \in Maps : x # "fir" => hash_map'[x] = hash_map[x]
        /\ \A x \in Maps, v \in Words :
             Base(x, v)' = Base(x, v) + (IF x = "fir" /\ v = bucket.word THEN bucket.cnt ELSE 0)
    BY <1>1, <1>2, <1>3, <1>7, InsertWorks
  <2>3. hash_map'["sec"] = hash_map["sec"]
    BY <1>3, <2>2
  <2>4. Merging' /\ AbsState' = "busy"
    BY <2>2 DEF Merging, AbsState
  <2>5. \A x \in Maps, v \in Words :
          CountOf(x, v)' = Base(x, v)' + (IF x = "fir" THEN CountIn(hash_map["sec"].table, merge_i + 1, v) ELSE 0)
    BY <1>1, <2>3, <2>4 DEF CountOf, Base
  <2>6. \A x \in Maps, v \in Words : CountOf(x, v)' = CountOf(x, v)
    <3> SUFFICES ASSUME NEW x \in Maps, NEW v \in Words
                 PROVE  CountOf(x, v)' = CountOf(x, v)
      OBVIOUS
    <3>1. /\ Base(x, v) \in Nat /\ CountIn(hash_map["sec"].table, merge_i + 1, v) \in Nat
          /\ k \in Nat
      BY <1>2, <1>5, <1>7, <2>1
    <3>2. CountOf(x, v)' = Base(x, v) + (IF x = "fir" /\ v = u THEN k ELSE 0)
                           + (IF x = "fir" THEN CountIn(hash_map["sec"].table, merge_i + 1, v) ELSE 0)
      BY <2>1, <2>2, <2>5
    <3>3. CountOf(x, v) = Base(x, v)
            + (IF x = "fir" THEN CountIn(hash_map["sec"].table, merge_i + 1, v) + (IF u = v THEN k ELSE 0) ELSE 0)
      BY <1>2, <1>4, <1>7, <2>1
    <3>4. QED
      BY ONLY <3>1, <3>2, <3>3
  <2>7. QED
    BY <1>3, <2>4, <2>6, SameCount
<1>8. CASE ~Listed(bucket)
  <2>1. UNCHANGED <<hash_map, pc, expandVars>>
    BY <1>1, <1>8
  <2>2. \A x \in Maps, v \in Words :
          CountOf(x, v)' = Base(x, v) + (IF x = "fir" THEN CountIn(hash_map["sec"].table, merge_i + 1, v) ELSE 0)
    BY <1>1, <2>1 DEF CountOf, Base, Merging, Expanding, expandVars
  <2>3. \A x \in Maps, v \in Words : CountOf(x, v)' = CountOf(x, v)
    BY <1>2, <1>4, <1>8, <2>2
  <2>4. AbsCount' = AbsCount
    BY <2>3, SameCount
  <2>5. QED
    BY <1>3, <2>1, <2>4 DEF AbsState
<1>9. QED
  BY <1>6, <1>7, <1>8

(* A round of the expansion changes no number.                             *)
LEMMA ExpandStepCounted ==
    ASSUME HashInv, ExpandStep
    PROVE  /\ AbsState = "busy"
           /\ AbsState' = "exited" \/ (AbsState' = "busy" /\ AbsCount' = AbsCount)
<1>1. pc = "expand" /\ UNCHANGED <<cur, back, merge_i>> /\ (back = "merge" => cur = "fir")
  BY DEF ExpandStep, HashInv
<1>2. CASE pc' = "exited"
  BY <1>1, <1>2 DEF AbsState
<1>3. CASE pc' # "exited"
  <2>1. /\ pc' = "expand"
        /\ \A x \in Maps : x # cur => hash_map'[x] = hash_map[x]
        /\ \A x \in Maps, v \in Words : Base(x, v)' = Base(x, v)
    BY <1>3, ExpandWorks
  <2>2. Merging => hash_map'["sec"] = hash_map["sec"]
    BY <1>1, <2>1 DEF Merging, Maps
  <2>3. Merging' <=> Merging
    BY <1>1, <2>1 DEF Merging
  <2>4. \A x \in Maps, v \in Words :
          CountOf(x, v)' = Base(x, v)' + (IF Merging /\ x = "fir" THEN CountIn(hash_map'["sec"].table, merge_i, v) ELSE 0)
    BY <1>1, <2>3 DEF CountOf, Base
  <2>5. \A x \in Maps, v \in Words : CountOf(x, v)' = CountOf(x, v)
    BY <2>1, <2>2, <2>4, CountOfParts DEF ToMerge
  <2>6. AbsCount' = AbsCount
    BY <2>5, SameCount
  <2>7. QED
    BY <1>1, <2>1, <2>6 DEF AbsState
<1>4. QED
  BY <1>2, <1>3

(* At the end of an expansion nothing of the old table is left to count.   *)
LEMMA ExpandEndCounted ==
    ASSUME HashInv, ExpandEnd
    PROVE  AbsState = "busy" /\ AbsState' \in {"ready", "busy"} /\ AbsCount' = AbsCount
<1>1. /\ pc = "expand" /\ pc' = back /\ expand_i \notin DOMAIN old_table
      /\ UNCHANGED <<hash_map, cur, back, merge_i>> /\ back \in {"ready", "merge"}
  BY DEF ExpandEnd, HashInv
<1>2. \A v \in Words : CountIn(old_table, expand_i, v) = 0
  <2>1. PICK n \in Nat : old_table \in [0 .. n - 1 -> Buckets] /\ expand_i \in 0 .. n
    BY <1>1 DEF HashInv, Moving
  <2>2. PICK t, i : t = old_table /\ i = expand_i
    OBVIOUS
  <2>3. n \in Nat /\ t \in [0 .. n - 1 -> Buckets] /\ i \in Nat /\ i \notin 0 .. n - 1
    BY <1>1, <2>1, <2>2
  <2>4. \A v \in Words : CountIn(t, i, v) = 0
    BY ONLY <2>3, CountAtEnd
  <2>5. QED
    BY <2>2, <2>4
<1>3. Merging' <=> Merging
  BY <1>1 DEF Merging
<1>4. \A x \in Maps, v \in Words : CountIn(hash_map[x].table, 0, v) \in Nat
  BY CountType DEF HashInv
<1>5. \A x \in Maps, v \in Words : Base(x, v) = CountIn(hash_map[x].table, 0, v)
  BY <1>1, <1>2, <1>4 DEF Base
<1>6. \A x \in Maps, v \in Words :
        CountOf(x, v)' = CountIn(hash_map[x].table, 0, v) + 0 + (IF Merging /\ x = "fir" THEN ToMerge(v) ELSE 0)
  <2>1. \A x \in Maps : ~Expanding(x)'
    BY <1>1 DEF Expanding
  <2>2. QED
    BY <1>1, <1>3, <2>1 DEF CountOf, ToMerge
<1>7. \A x \in Maps, v \in Words : CountOf(x, v)' = CountOf(x, v)
  BY <1>4, <1>5, <1>6, CountOfParts
<1>8. AbsCount' = AbsCount
  BY <1>7, SameCount
<1>9. QED
  BY <1>1, <1>8 DEF AbsState

(* At the end of a merge nothing of sec is left to come.                   *)
LEMMA MergeEndCounted ==
    ASSUME HashInv, MergeEnd
    PROVE  AbsState = "busy" /\ AbsState' = "ready" /\ AbsCount' = AbsCount
<1>1. /\ pc = "merge" /\ pc' = "ready" /\ merge_i \notin Cells(hash_map["sec"]) /\ merge_i \in Nat
      /\ UNCHANGED <<hash_map, expandVars>>
  BY DEF MergeEnd, HashInv
<1>2. \A v \in Words : ToMerge(v) = 0
  <2>1. PICK n \in Nat : hash_map["sec"].table \in [0 .. n - 1 -> Buckets] /\ Cells(hash_map["sec"]) = 0 .. n - 1
    BY DEF HashInv, MapOK, MapTypeOK, Cells, Maps
  <2>2. PICK t, i : t = hash_map["sec"].table /\ i = merge_i
    OBVIOUS
  <2>3. n \in Nat /\ t \in [0 .. n - 1 -> Buckets] /\ i \in Nat /\ i \notin 0 .. n - 1
    BY <1>1, <2>1, <2>2
  <2>4. \A v \in Words : CountIn(t, i, v) = 0
    BY ONLY <2>3, CountAtEnd
  <2>5. QED
    BY <2>2, <2>4 DEF ToMerge
<1>3. \A x \in Maps, v \in Words : CountOf(x, v) = CountIn(hash_map[x].table, 0, v) + 0 + (IF x = "fir" THEN ToMerge(v) ELSE 0)
  BY <1>1 DEF CountOf, ToMerge, Merging, Expanding
<1>4. \A x \in Maps, v \in Words : CountOf(x, v)' = CountIn(hash_map[x].table, 0, v) + 0 + 0
  BY <1>1 DEF CountOf, Merging, Expanding
<1>5. \A x \in Maps, v \in Words : CountOf(x, v)' = CountOf(x, v)
  BY <1>2, <1>3, <1>4
<1>6. AbsCount' = AbsCount
  BY <1>5, SameCount
<1>7. QED
  BY <1>1, <1>6 DEF AbsState

(* Each step of the map is a step of WordCounter, or changes nothing that  *)
(* it shows: an expansion and a merge may be interrupted nowhere, but the  *)
(* words they have moved and the words they have not are together those of *)
(* the call.                                                               *)
THEOREM ImplementsWordCounter == Spec => CounterSpec
<1>1. Init => Counter!AbsInit
  <2> SUFFICES ASSUME Init
               PROVE  Counter!AbsInit
    OBVIOUS
  <2>1. pc = "ready" /\ \A h \in Maps : hash_map[h] \in NewMaps
    BY DEF Init
  <2>2. \A h \in Maps, w \in Words : CountIn(hash_map[h].table, 0, w) = 0
    BY <2>1, NewMapWorks
  <2>3. \A h \in Maps, w \in Words : CountOf(h, w) = 0
    BY <2>1, <2>2 DEF CountOf, Expanding, Merging
  <2>4. QED
    BY <2>1, <2>3 DEF Counter!AbsInit
<1>2. HashInv /\ [Next]_vars => [Counter!AbsNext]_(Counter!absVars)
  <2> SUFFICES ASSUME HashInv, [Next]_vars
               PROVE  Counter!AbsNext \/ UNCHANGED <<AbsCount, AbsState>>
    BY DEF Counter!absVars, AbsCount, AbsState
  <2>0. "fir" \in Maps /\ "sec" \in Maps /\ "fir" # "sec"
    BY DEF Maps
  <2>1. CASE UNCHANGED vars
    <3>1. \A x \in Maps, v \in Words : CountOf(x, v)' = CountOf(x, v)
      BY <2>1 DEF CountOf, Expanding, Merging, vars, expandVars
    <3>2. QED
      BY <2>1, <3>1, SameCount DEF AbsState, vars
  <2>2. ASSUME AbsState # "exited", AbsState' = "exited"
        PROVE  Counter!AbsNext
    BY <2>2 DEF AbsState, Counter!AbsNext, Counter!Exit
  <2>3. ASSUME NEW h \in Maps, NEW w \in Words, NEW c \in Cnts, Insert(h, w, c)
        PROVE  Counter!AbsNext
    <3>1. CASE AbsState' = "exited"
      BY <2>2, <2>3, <3>1, InsertCounted
    <3>2. CASE AbsState' # "exited"
      <4>1. /\ AbsState = "ready" /\ AbsState' \in {"ready", "busy"}
            /\ AbsCount' = [AbsCount EXCEPT ![h][w] = @ + c]
        BY <2>3, <3>2, InsertCounted
      <4>2. Counter!Insert(h, w, c)
        BY <4>1 DEF Counter!Insert, Counter!Call, AbsCount, AbsState
      <4>3. QED
        BY <4>2 DEF Counter!AbsNext
    <3>3. QED
      BY <3>1, <3>2
  <2>4. ASSUME NEW h \in Maps, NEW w \in Words, Remove(h, w)
        PROVE  Counter!AbsNext
    <3>1. /\ AbsState = "ready" /\ AbsState' = "ready" /\ AbsCount[h][w] > 0
          /\ AbsCount' = [AbsCount EXCEPT ![h][w] = @ - 1]
      BY <2>4, RemoveCounted
    <3>2. Counter!Remove(h, w)
      BY <3>1 DEF Counter!Remove, Counter!Call, AbsCount, AbsState
    <3>3. QED
      BY <3>2 DEF Counter!AbsNext
  <2>5. CASE ExpandStep
    BY <2>2, <2>5, ExpandStepCounted
  <2>6. CASE ExpandEnd
    <3>1. AbsState = "busy" /\ AbsState' \in {"ready", "busy"} /\ AbsCount' = AbsCount
      BY <2>6, ExpandEndCounted
    <3>2. CASE AbsState' = "busy"
      BY <3>1, <3>2
    <3>3. CASE AbsState' = "ready"
      <4>1. Counter!Return
        BY <3>1, <3>3 DEF Counter!Return, AbsCount, AbsState
      <4>2. QED
        BY <4>1 DEF Counter!AbsNext
    <3>4. QED
      BY <3>1, <3>2, <3>3
  <2>7. CASE MergeBegin
    <3>1. /\ AbsState = "ready" /\ AbsState' = "busy"
          /\ AbsCount' = [AbsCount EXCEPT !["fir"] = [w \in Words |-> @[w] + AbsCount["sec"][w]]]
      BY <2>7, MergeCounted
    <3>2. Counter!Merge("fir", "sec")
      BY <2>0, <3>1 DEF Counter!Merge, Counter!Call, AbsCount, AbsState
    <3>3. QED
      BY <2>0, <3>2 DEF Counter!AbsNext
  <2>8. CASE MergeStep
    BY <2>2, <2>8, MergeStepCounted
  <2>9. CASE MergeEnd
    <3>1. AbsState = "busy" /\ AbsState' = "ready" /\ AbsCount' = AbsCount
      BY <2>9, MergeEndCounted
    <3>2. Counter!Return
      BY <3>1 DEF Counter!Return, AbsCount, AbsState
    <3>3. QED
      BY <3>2 DEF Counter!AbsNext
  <2>10. CASE Replace
    <3>1. /\ AbsState = "ready" /\ AbsState' = "ready"
          /\ AbsCount' = [AbsCount EXCEPT !["sec"] = [w \in Words |-> 0]]
      BY <2>10, ReplaceCounted
    <3>2. Counter!Clear("sec")
      BY <2>0, <3>1 DEF Counter!Clear, Counter!Call, AbsCount, AbsState
    <3>3. QED
      BY <2>0, <3>2 DEF Counter!AbsNext
  <2>11. QED
    BY <2>1, <2>3, <2>4, <2>5, <2>6, <2>7, <2>8, <2>9, <2>10 DEF Next
<1>3. QED
  BY <1>1, <1>2, HashInvariant, PTL DEF Spec, CounterSpec, Counter!AbsSpec
=============================================================================
