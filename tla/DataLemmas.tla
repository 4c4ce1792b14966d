------------------------------ MODULE DataLemmas ------------------------------
(***************************************************************************)
(* Facts about numbers and sequences that the other proofs need.           *)
(***************************************************************************)
EXTENDS Integers, SequencesExt, FiniteSetTheorems, SequenceTheorems, TLAPS

(* A set of natural numbers that is not empty has a least element.  The    *)
(* theorem of the library on well-founded relations is about an operator;  *)
(* the one on the strict subsets of a set serves as well, for the          *)
(* intervals that end in an element of S.                                  *)
LEMMA LeastNumber ==
    ASSUME NEW S, S \subseteq Nat, S # {}
    PROVE  \E x \in S : \A y \in S : x <= y
<1> DEFINE Upto(n) == 0 .. n
           T == {Upto(n) : n \in S}
<1>1. T \subseteq FiniteSubsetsOf(Nat) /\ T # {}
  <2>1. ASSUME NEW n \in S
        PROVE Upto(n) \in FiniteSubsetsOf(Nat)
    <3>1. n \in Nat /\ IsFiniteSet(Upto(n))
      BY FS_Interval
    <3>2. QED
      BY <3>1 DEF FiniteSubsetsOf
  <2>2. QED
    BY <2>1
<1>2. PICK U \in T : \A V \in T : <<V, U>> \notin StrictSubsetOrdering(Nat)
  <2> HIDE DEF T
  <2>1. IsWellFoundedOn(StrictSubsetOrdering(Nat), FiniteSubsetsOf(Nat))
    BY FS_StrictSubsetOrderingWellFounded
  <2>2. QED
    BY <1>1, <2>1, WFMin
<1>3. PICK x \in S : U = Upto(x)
  BY <1>2
<1>4. ASSUME NEW y \in S, ~(x <= y)
      PROVE  FALSE
  <2>1. x \in Nat /\ y \in Nat /\ y < x
    BY <1>4
  <2>2. Upto(y) \subseteq Upto(x) /\ Upto(y) # Upto(x) /\ Upto(x) \subseteq Nat
    <3>1. x \in Upto(x) /\ x \notin Upto(y)
      BY <2>1
    <3>2. QED
      BY <2>1, <3>1
  <2>3. <<Upto(y), U>> \in StrictSubsetOrdering(Nat)
    BY <1>3, <2>2 DEF StrictSubsetOrdering
  <2>4. QED
    BY <1>2, <2>3
<1>5. QED
  BY <1>4

(* The values of a function of S, applied again and again.                 *)
LEMMA Iteration ==
    ASSUME NEW S, NEW a \in S, NEW step \in [S -> S]
    PROVE  \E f \in [Nat -> S] : f[0] = a /\ \A n \in Nat : f[n + 1] = step[f[n]]
<1> DEFINE Start(n) == {g \in [0 .. n -> S] : g[0] = a /\ \A i \in 0 .. n - 1 : g[i + 1] = step[g[i]]}
<1>1. ASSUME NEW n \in Nat
      PROVE  Start(n) # {}
  <2> DEFINE None == {m \in Nat : Start(m) = {}}
  <2> SUFFICES ASSUME None # {}
               PROVE  FALSE
    BY <1>1
  <2>1. PICK m \in None : \A y \in None : m <= y
    <3>1. None \subseteq Nat
      OBVIOUS
    <3> HIDE DEF None
    <3>2. QED
      BY <3>1, LeastNumber
  <2>2. CASE m = 0
    <3>1. [i \in 0 .. 0 |-> a] \in Start(0)
      OBVIOUS
    <3>2. QED
      BY <2>2, <3>1
  <2>3. CASE m # 0
    <3>1. m \in Nat /\ m - 1 \in Nat /\ ~(m <= m - 1) /\ (m - 1) + 1 = m
      BY <2>3
    <3>2. PICK g : g \in Start(m - 1)
      <4>1. m - 1 \notin None
        BY <2>1, <3>1
      <4>2. QED
        BY <3>1, <4>1
    <3>3. /\ g \in [0 .. m - 1 -> S] /\ g[0] = a
          /\ \A i \in 0 .. (m - 1) - 1 : g[i + 1] = step[g[i]]
      BY <3>2
    <3>4. PICK h : h = [i \in 0 .. m |-> IF i = m THEN step[g[m - 1]] ELSE g[i]]
      OBVIOUS
    <3>5. h \in [0 .. m -> S] /\ h[0] = a
      BY <2>3, <3>1, <3>3, <3>4
    <3>6. ASSUME NEW i \in 0 .. m - 1
          PROVE  h[i + 1] = step[h[i]]
      <4>1. CASE i = m - 1
        BY <3>1, <3>4, <4>1
      <4>2. CASE i # m - 1
        <5>1. i \in 0 .. (m - 1) - 1 /\ i + 1 \in 0 .. m /\ i + 1 # m /\ i \in 0 .. m /\ i # m
          BY <3>1, <4>2
        <5>2. QED
          BY <3>3, <3>4, <5>1
      <4>3. QED
        BY <4>1, <4>2
    <3>7. h \in Start(m)
      BY <3>5, <3>6
    <3>8. QED
      BY <3>7
  <2>4. QED
    BY <2>2, <2>3
<1>2. ASSUME NEW n \in Nat, NEW m \in Nat, n <= m, NEW g \in Start(n), NEW h \in Start(m)
      PROVE  \A i \in 0 .. n : g[i] = h[i]
  <2> DEFINE Differ == {i \in 0 .. n : g[i] # h[i]}
  <2> SUFFICES ASSUME Differ # {}
               PROVE  FALSE
    OBVIOUS
  <2>1. PICK i \in Differ : \A y \in Differ : i <= y
    <3>1. Differ \subseteq Nat
      OBVIOUS
    <3> HIDE DEF Differ
    <3>2. QED
      BY <3>1, LeastNumber
  <2>2. i \in 0 .. n /\ g[i] # h[i] /\ i # 0
    <3>1. g[0] = a /\ h[0] = a
      BY <1>2
    <3>2. QED
      BY <2>1, <3>1
  <2>3. i - 1 \in 0 .. n - 1 /\ i - 1 \in 0 .. m - 1 /\ i - 1 \in 0 .. n /\ ~(i <= i - 1) /\ (i - 1) + 1 = i
    BY <1>2, <2>2
  <2>4. g[i - 1] = h[i - 1]
    BY <2>1, <2>3
  <2>5. g[(i - 1) + 1] = step[g[i - 1]] /\ h[(i - 1) + 1] = step[h[i - 1]]
    BY <1>2, <2>3
  <2>6. QED
    BY <2>2, <2>3, <2>4, <2>5
<1>3. PICK f : f = [n \in Nat |-> (CHOOSE g : g \in Start(n))[n]]
  OBVIOUS
<1>4. ASSUME NEW n \in Nat
      PROVE  \E g \in Start(n) : f[n] = g[n] /\ \A h : h \in Start(n + 1) => h[n] = g[n] /\ h[n + 1] = step[h[n]]
  <2>1. PICK g : g = CHOOSE x : x \in Start(n)
    OBVIOUS
  <2>2. g \in Start(n)
    BY <1>1, <2>1
  <2>3. n + 1 \in Nat /\ n <= n + 1 /\ n \in 0 .. n /\ n \in 0 .. (n + 1) - 1
    OBVIOUS
  <2>4. ASSUME NEW h \in Start(n + 1)
        PROVE  h[n] = g[n] /\ h[n + 1] = step[h[n]]
    <3>1. h[n] = g[n]
      <4> HIDE DEF Start
      <4>1. QED
        BY <1>2, <2>2, <2>3
    <3>2. QED
      BY <2>3, <3>1
  <2>5. f[n] = g[n]
    BY <1>3, <2>1
  <2> HIDE DEF Start
  <2>6. QED
    BY <2>2, <2>4, <2>5
<1>5. f \in [Nat -> S]
  <2>1. ASSUME NEW n \in Nat
        PROVE  f[n] \in S
    <3>1. PICK g \in Start(n) : f[n] = g[n]
      BY <1>4
    <3>2. QED
      BY <3>1
  <2> HIDE DEF Start
  <2>2. QED
    BY <1>3, <2>1
<1>6. f[0] = a
  <2>1. PICK g \in Start(0) : f[0] = g[0]
    BY <1>4
  <2>2. QED
    BY <2>1
<1>7. ASSUME NEW n \in Nat
      PROVE  f[n + 1] = step[f[n]]
  <2>1. PICK g \in Start(n) : f[n] = g[n] /\ \A h : h \in Start(n + 1) => h[n] = g[n] /\ h[n + 1] = step[h[n]]
    BY <1>4
  <2>2. n + 1 \in Nat
    OBVIOUS
  <2>3. PICK h \in Start(n + 1) : f[n + 1] = h[n + 1]
    <3> HIDE DEF Start
    <3>1. QED
      BY <1>4, <2>2
  <2> HIDE DEF Start
  <2>4. QED
    BY <2>1, <2>3
<1>8. QED
  BY <1>5, <1>6, <1>7

(* What RemoveAt leaves of a sequence.                                     *)
LEMMA RemoveAtProperties ==
    ASSUME NEW C, NEW q \in Seq(C), NEW i \in DOMAIN q
    PROVE  /\ RemoveAt(q, i) \in Seq(C)
           /\ Len(RemoveAt(q, i)) = Len(q) - 1
           /\ \A k \in 1 .. Len(q) - 1 : RemoveAt(q, i)[k] = IF k < i THEN q[k] ELSE q[k + 1]
<1> DEFINE a == SubSeq(q, 1, i - 1)
           b == SubSeq(q, i + 1, Len(q))
<1>1. i \in 1 .. Len(q) /\ Len(q) \in Nat /\ i \in Nat
  OBVIOUS
<1>2. a \in Seq(C) /\ Len(a) = i - 1 /\ \A k \in 1 .. i - 1 : a[k] = q[k]
  BY <1>1
<1>3. b \in Seq(C) /\ Len(b) = Len(q) - i /\ \A k \in 1 .. Len(q) - i : b[k] = q[k + i]
  BY <1>1
<1>4. RemoveAt(q, i) = a \o b
  BY DEF RemoveAt
<1> HIDE DEF a, b
<1>5. a \o b \in Seq(C) /\ Len(a \o b) = Len(q) - 1
  BY <1>1, <1>2, <1>3
<1>6. ASSUME NEW k \in 1 .. Len(q) - 1
      PROVE  (a \o b)[k] = IF k < i THEN q[k] ELSE q[k+1]
  <2>0. k \in Nat /\ k >= 1 /\ k <= Len(q) - 1
    BY <1>1
  <2>1. CASE k < i
    BY <1>1, <1>2, <1>3, <2>0, <2>1
  <2>2. CASE ~(k < i)
    <3> DEFINE j == k + 1 - i
    <3>0. k >= i /\ k + 1 - i \in Int
      BY <1>1, <2>0, <2>2
    <3>1. j \in 1 .. Len(q) - i
      BY <1>1, <2>0, <3>0
    <3>2. j + i = k + 1
      BY <1>1, <2>0, <3>0
    <3>3. k = j + Len(a)
      BY <1>1, <1>2, <2>0, <3>0
    <3> HIDE DEF j
    <3>4. (a \o b)[k] = b[j]
      <4>1. \A l \in 1 .. Len(a) + Len(b) : (a \o b)[l] = IF l <= Len(a) THEN a[l] ELSE b[l - Len(a)]
        BY <1>2, <1>3, ConcatProperties
      <4>2. k \in 1 .. Len(a) + Len(b) /\ ~(k <= Len(a))
        BY <1>1, <1>2, <1>3, <2>0, <3>0
      <4>3. k - Len(a) = j
        BY <1>1, <1>2, <2>0, <3>3, <3>1
      <4>4. QED
        BY <4>1, <4>2, <4>3
    <3>5. b[j] = q[j + i]
      BY <1>3, <3>1
    <3>6. QED
      BY <2>2, <3>2, <3>4, <3>5
  <2>3. QED
    BY <2>1, <2>2
<1>7. QED
  BY <1>4, <1>5, <1>6
===============================================================================
