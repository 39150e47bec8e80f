------------------------------ MODULE ListLemmas ------------------------------
(***************************************************************************)
(* What the operators do that the models use on lists (belle_sip_list_t):  *)
(* the least of a set of places, and the list without one of its elements. *)
(***************************************************************************)
EXTENDS Integers, SequencesExt, SequenceTheorems, WellFoundedInduction, TLAPS

\* A set of places that is not empty has a first one.
LEMMA MinIsLeast ==
    ASSUME NEW S, S \subseteq Nat, S # {}
    PROVE  Min(S) \in S /\ \A j \in S : Min(S) <= j
<1>1. PICK i \in S : \A j \in S : <<j, i>> \notin OpToRel(<, Nat)
  BY WFMin, NatLessThanWellFounded, Zenon
<1>2. \A j \in S : ~(j < i)
  BY <1>1, Zenon DEF OpToRel
<1>3. \E k \in S : \A j \in S : k <= j
  BY <1>2
<1> QED
  BY <1>3, Zenon DEF Min

\* A list without its element at place i: those behind it move up.
LEMMA RemoveAtProperties ==
    ASSUME NEW S, NEW list \in Seq(S), NEW i \in 1..Len(list)
    PROVE  /\ RemoveAt(list, i) \in Seq(S)
           /\ Len(RemoveAt(list, i)) = Len(list) - 1
           /\ \A j \in 1..(Len(list) - 1) :
                RemoveAt(list, i)[j] = IF j < i THEN list[j] ELSE list[j + 1]
<1> DEFINE n == Len(list)
           a == SubSeq(list, 1, i - 1)
           b == SubSeq(list, i + 1, n)
<1>1. n \in Nat /\ DOMAIN list = 1..n /\ i \in 1..n /\ \A j \in 1..n : list[j] \in S
  BY ElementOfSeq
<1>2. RemoveAt(list, i) = a \o b
  BY DEF RemoveAt
<1>3. /\ a \in Seq(S) /\ Len(a) = i - 1
      /\ \A j \in 1..(i - 1) : a[j] = list[j]
  BY <1>1, SubSeqProperties
<1>4. /\ b \in Seq(S) /\ Len(b) = n - i
      /\ \A j \in 1..(n - i) : b[j] = list[i + j]
  <2>1. i + 1 \in 1..(n + 1) /\ n \in (i + 1) - 1 .. n
    BY <1>1
  <2>2. /\ b \in Seq(S)
        /\ Len(b) = IF i + 1 <= n THEN n - (i + 1) + 1 ELSE 0
        /\ \A j \in 1..(n - (i + 1) + 1) : b[j] = list[(i + 1) + j - 1]
    BY <1>1, <2>1, SubSeqProperties
  <2>3. \A j \in 1..(n - i) : (i + 1) + j - 1 = i + j
    BY <1>1
  <2> QED
    <3> HIDE DEF b, n
    <3> QED
      BY <1>1, <2>1, <2>2, <2>3
<1> HIDE DEF a, b, n
<1>5. /\ a \o b \in Seq(S) /\ Len(a \o b) = n - 1
      /\ \A j \in 1..(n - 1) : (a \o b)[j] = IF j < i THEN a[j] ELSE b[j - i + 1]
  <2>1. /\ a \o b \in Seq(S) /\ Len(a \o b) = Len(a) + Len(b)
        /\ \A j \in 1..(Len(a) + Len(b)) :
             (a \o b)[j] = IF j <= Len(a) THEN a[j] ELSE b[j - Len(a)]
    BY <1>3, <1>4, ConcatProperties
  <2>2. Len(a) + Len(b) = n - 1
    BY <1>1, <1>3, <1>4
  <2>3. \A j \in 1..(n - 1) : (j <= i - 1 <=> j < i) /\ j - (i - 1) = j - i + 1
    BY <1>1
  <2> QED
    BY <1>3, <2>1, <2>2, <2>3
<1>6. \A j \in 1..(n - 1) : (a \o b)[j] = IF j < i THEN list[j] ELSE list[j + 1]
  BY <1>1, <1>3, <1>4, <1>5
<1> QED
  BY <1>2, <1>5, <1>6 DEF n

\* The elements of a list without one, which are as distinct as before.
LEMMA RemoveAtElements ==
    ASSUME NEW S, NEW list \in Seq(S), NEW i \in 1..Len(list),
           \A j, k \in 1..Len(list) : list[j] = list[k] => j = k
    PROVE  /\ {RemoveAt(list, i)[j] : j \in DOMAIN RemoveAt(list, i)}
                = {list[j] : j \in DOMAIN list} \ {list[i]}
           /\ \A j, k \in 1..Len(RemoveAt(list, i)) :
                RemoveAt(list, i)[j] = RemoveAt(list, i)[k] => j = k
<1> DEFINE rest == RemoveAt(list, i)
           n == Len(list)
<1>1. /\ rest \in Seq(S) /\ Len(rest) = n - 1
      /\ \A j \in 1..(n - 1) : rest[j] = IF j < i THEN list[j] ELSE list[j + 1]
  BY RemoveAtProperties
<1>2. n \in Nat /\ DOMAIN list = 1..n
  BY ElementOfSeq
<1> HIDE DEF rest
<1>3. DOMAIN rest = 1..(n - 1)
  BY <1>1, <1>2
<1>4. \A j \in 1..(n - 1) : rest[j] \in {list[k] : k \in 1..n} \ {list[i]}
  BY <1>1, <1>2
<1>5. \A k \in 1..n : k # i => \E j \in 1..(n - 1) : rest[j] = list[k]
  <2> SUFFICES ASSUME NEW k \in 1..n, k # i PROVE \E j \in 1..(n - 1) : rest[j] = list[k]
    OBVIOUS
  <2>1. CASE k < i
    BY <1>1, <1>2, <2>1
  <2>2. CASE k > i
    <3>1. k - 1 \in 1..(n - 1) /\ ~(k - 1 < i) /\ (k - 1) + 1 = k
      BY <1>2, <2>2
    <3> QED
      BY <1>1, <3>1
  <2> QED
    BY <1>2, <2>1, <2>2
<1>6. {rest[j] : j \in DOMAIN rest} = {list[j] : j \in DOMAIN list} \ {list[i]}
  <2> DEFINE left == {rest[j] : j \in 1..(n - 1)}
             others == {list[k] : k \in 1..n} \ {list[i]}
  <2>1. left \subseteq others
    BY <1>4
  <2>2. others \subseteq left
    BY <1>5
  <2> QED
    BY <1>2, <1>3, <2>1, <2>2
<1>7. \A j, k \in 1..(n - 1) : rest[j] = rest[k] => j = k
  BY <1>1, <1>2
<1> QED
  BY <1>1, <1>6, <1>7 DEF rest
=============================================================================
