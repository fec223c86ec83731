-------------------------- MODULE CollectionProofs --------------------------
(***************************************************************************)
(* Facts about finite sets of numbers, and what the list operations        *)
(* return, for sets and lists of any size. Induction over the natural      *)
(* numbers is stated with sets instead of predicates so that it can be     *)
(* applied by name.                                                        *)
(***************************************************************************)
EXTENDS CMSList, Integers, FiniteSetTheorems, SequenceTheorems,
        WellFoundedInduction, TLAPS

-----------------------------------------------------------------------------
(* Finite sets                                                             *)

(* Every set of natural numbers that is not empty has a least element.     *)
LEMMA NatMin ==
  ASSUME NEW T \in SUBSET Nat, T # {}
  PROVE  \E x \in T : \A y \in T : x <= y
<1> DEFINE F == {1 .. k : k \in T}
<1>1. F \subseteq FiniteSubsetsOf(Nat)
  BY FS_Interval DEF FiniteSubsetsOf
<1>2. PICK s \in F : \A t \in F : ~ (<<t, s>> \in StrictSubsetOrdering(Nat))
  <2>1. F # {}
    OBVIOUS
  <2>2. IsWellFoundedOn(StrictSubsetOrdering(Nat), FiniteSubsetsOf(Nat))
    BY FS_StrictSubsetOrderingWellFounded
  <2> HIDE DEF F
  <2> QED BY <1>1, <2>1, <2>2, WFMin
<1>3. PICK x \in T : s = 1 .. x
  BY <1>2
<1>4. ASSUME NEW y \in T, y < x  PROVE FALSE
  <2>1. (1 .. y) \subseteq (1 .. x) /\ x \in 1 .. x /\ x \notin 1 .. y
    BY <1>4
  <2>2. <<1 .. y, s>> \in StrictSubsetOrdering(Nat)
    BY <2>1, <1>3 DEF StrictSubsetOrdering
  <2> QED BY <2>2, <1>2
<1> QED BY <1>4

(* A set that contains 0 and with every number the next contains them all. *)
LEMMA NatSetInduction ==
  ASSUME NEW S, 0 \in S, \A n \in Nat : n \in S => n + 1 \in S
  PROVE  Nat \subseteq S
<1>1. SUFFICES ASSUME Nat \ S # {}  PROVE FALSE
  OBVIOUS
<1>2. PICK m \in Nat \ S : \A k \in Nat \ S : m <= k
  BY <1>1, NatMin
<1>3. m - 1 \in Nat /\ m - 1 \in S
  BY <1>2
<1> QED BY <1>2, <1>3

(* A function's values over a finite set are finite.                       *)
LEMMA FiniteValues ==
  ASSUME NEW f, NEW S, IsFiniteSet(S)
  PROVE  IsFiniteSet({f[x] : x \in S})
<1> DEFINE T == {f[x] : x \in S}
           g == [x \in S |-> f[x]]
<1>1. g \in Surjection(S, T)
  BY DEF Surjection
<1> HIDE DEF g
<1> QED BY <1>1, FS_Surjection

(* A finite set of integers that is not empty has a greatest element, and  *)
(* Max finds it: below it lie the most elements.                           *)
LEMMA MaxExists ==
  ASSUME NEW S \in SUBSET Int, IsFiniteSet(S), S # {}
  PROVE  Max(S) \in S /\ \A y \in S : y <= Max(S)
<1> DEFINE Above(x) == {y \in S : y > x}
           T == {Cardinality(Above(x)) : x \in S}
<1>1. \A x \in S : IsFiniteSet(Above(x)) /\ Cardinality(Above(x)) \in Nat
  BY FS_Subset, FS_CardinalityType
<1>2. T \in SUBSET Nat /\ T # {}
  BY <1>1
<1>3. PICK n \in T : \A k \in T : n <= k
  <2> HIDE DEF T
  <2> QED BY <1>2, NatMin
<1>4. PICK x \in S : n = Cardinality(Above(x))
  BY <1>3
<1>5. ASSUME NEW y \in S, y > x  PROVE FALSE
  <2>0. x \in Int /\ y \in Int /\ \A z \in S : z \in Int
    OBVIOUS
  <2>1. Above(y) \in SUBSET Above(x) /\ y \in Above(x) /\ y \notin Above(y)
    <3>1. \A z \in S : z > y => z > x
      BY <2>0, <1>5
    <3>2. ~(y > y)
      BY <2>0
    <3> QED BY <3>1, <3>2, <1>5
  <2>2. Cardinality(Above(y)) <= Cardinality(Above(x)) /\ Cardinality(Above(x)) # Cardinality(Above(y))
    <3> HIDE DEF Above
    <3> QED BY <2>1, <1>1, FS_Subset
  <2>3. Cardinality(Above(x)) <= Cardinality(Above(y))
    BY <1>3, <1>4
  <2>4. Cardinality(Above(x)) \in Nat /\ Cardinality(Above(y)) \in Nat
    BY <1>1
  <2> HIDE DEF Above
  <2> QED BY <2>2, <2>3, <2>4
<1>6. \A y \in S : x >= y
  BY <1>5
<1>7. x \in S /\ \A y \in S : x >= y
  BY <1>6
<1>8. (CHOOSE z \in S : \A y \in S : z >= y) \in S
      /\ \A y \in S : (CHOOSE z \in S : \A w \in S : z >= w) >= y
  BY <1>7
<1> QED BY <1>8 DEF Max

(* There are n numbers from 1 to n.                                        *)
LEMMA UpToCardinality ==
  ASSUME NEW n \in Nat
  PROVE  IsFiniteSet(1 .. n) /\ Cardinality(1 .. n) = n
<1>1. IsFiniteSet(1 .. n) /\ Cardinality(1 .. n) = IF 1 > n THEN 0 ELSE n - 1 + 1
  BY FS_Interval
<1> QED BY <1>1

(* A largest element of numbers given for finitely many things is no less  *)
(* than any of them.                                                       *)
LEMMA LargestOf ==
  ASSUME NEW S, IsFiniteSet(S), NEW f \in [S -> Int]
  PROVE  /\ Max({0} \cup {f[x] : x \in S}) \in Nat
         /\ \A x \in S : f[x] <= Max({0} \cup {f[y] : y \in S})
<1> DEFINE T == {f[x] : x \in S}
           U == {0} \cup T
<1>1. IsFiniteSet(T)
  BY FiniteValues
<1>2. T \in SUBSET Int /\ \A x \in S : f[x] \in T
  OBVIOUS
<1> HIDE DEF T
<1>3. U \in SUBSET Int /\ IsFiniteSet(U) /\ U # {} /\ 0 \in U
  <2>1. IsFiniteSet({0})
    BY FS_Singleton
  <2>2. IsFiniteSet(U)
    BY <1>1, <2>1, FS_Union
  <2> QED BY <1>2, <2>2
<1>4. \A x \in S : f[x] \in U
  BY <1>2
<1> HIDE DEF U
<1>5. Max(U) \in U /\ \A y \in U : y <= Max(U)
  BY <1>3, MaxExists
<1>6. Max(U) \in Nat
  <2>1. Max(U) \in Int /\ 0 <= Max(U)
    BY <1>3, <1>5, Zenon
  <2> QED BY <2>1
<1> QED BY <1>4, <1>5, <1>6 DEF U, T

-----------------------------------------------------------------------------
(* Lists                                                                   *)

(* addWithPrio walks past no more elements than there are.                 *)
LEMMA LeadingUpToRange ==
  ASSUME NEW S, NEW list \in Seq(S), NEW prio
  PROVE  LeadingUpTo(list, prio) \in 0 .. Len(list)
<1> DEFINE passed == {i \in DOMAIN list : \A j \in 1 .. i : list[j].prio <= prio}
<1>1. Len(list) \in Nat /\ DOMAIN list = 1 .. Len(list)
  OBVIOUS
<1>2. IsFiniteSet(1 .. Len(list)) /\ Cardinality(1 .. Len(list)) = Len(list)
  BY <1>1, FS_Interval
<1>3. passed \in SUBSET (1 .. Len(list))
  BY <1>1
<1>4. IsFiniteSet(passed) /\ Cardinality(passed) <= Len(list)
  <2> HIDE DEF passed
  <2> QED BY <1>2, <1>3, FS_Subset
<1>5. Cardinality(passed) \in Nat
  <2> HIDE DEF passed
  <2> QED BY <1>4, FS_CardinalityType
<1> QED BY <1>1, <1>4, <1>5 DEF LeadingUpTo

(* The walk of findChunk likewise.                                         *)
LEMMA WalkToType ==
  ASSUME NEW S, NEW list \in Seq(S), NEW id
  PROVE  WalkTo(list, id) \in Nat
<1> DEFINE passed == {i \in DOMAIN list : \A j \in 1 .. i : list[j].id # id}
<1>1. Len(list) \in Nat /\ DOMAIN list = 1 .. Len(list)
  OBVIOUS
<1>2. IsFiniteSet(1 .. Len(list))
  BY <1>1, FS_Interval
<1>3. passed \in SUBSET (1 .. Len(list))
  BY <1>1
<1>4. IsFiniteSet(passed)
  <2> HIDE DEF passed
  <2> QED BY <1>2, <1>3, FS_Subset
<1> QED BY <1>4, FS_CardinalityType DEF WalkTo

(* The elements of a concatenation, before and behind the seam.            *)
LEMMA ConcatElements ==
  ASSUME NEW S, NEW s \in Seq(S), NEW t \in Seq(S)
  PROVE  /\ s \o t \in Seq(S)
         /\ Len(s \o t) = Len(s) + Len(t)
         /\ \A i \in 1 .. Len(s) : (s \o t)[i] = s[i]
         /\ \A i \in 1 .. Len(t) : (s \o t)[Len(s) + i] = t[i]
<1>1. Len(s) \in Nat /\ Len(t) \in Nat
  OBVIOUS
<1>2. /\ s \o t \in Seq(S)
      /\ Len(s \o t) = Len(s) + Len(t)
      /\ \A i \in 1 .. Len(s) + Len(t) :
           (s \o t)[i] = IF i <= Len(s) THEN s[i] ELSE t[i - Len(s)]
  BY ConcatProperties
<1>3. ASSUME NEW i \in 1 .. Len(s)  PROVE (s \o t)[i] = s[i]
  BY <1>1, <1>2
<1>4. ASSUME NEW i \in 1 .. Len(t)  PROVE (s \o t)[Len(s) + i] = t[i]
  <2>1. Len(s) + i \in 1 .. Len(s) + Len(t) /\ ~ (Len(s) + i <= Len(s)) /\ Len(s) + i - Len(s) = i
    BY <1>1
  <2> QED BY <1>2, <2>1
<1> QED BY <1>2, <1>3, <1>4

(* InsertAt puts the element at its position and moves the others up.      *)
LEMMA InsertAtElements ==
  ASSUME NEW S, NEW list \in Seq(S), NEW at \in 1 .. Len(list) + 1, NEW elem \in S
  PROVE  /\ InsertAt(list, at, elem) \in Seq(S)
         /\ Len(InsertAt(list, at, elem)) = Len(list) + 1
         /\ \A i \in 1 .. at - 1 : InsertAt(list, at, elem)[i] = list[i]
         /\ InsertAt(list, at, elem)[at] = elem
         /\ \A i \in at .. Len(list) : InsertAt(list, at, elem)[i + 1] = list[i]
<1> DEFINE before == SubSeq(list, 1, at - 1)
           behind == SubSeq(list, at, Len(list))
           front == before \o <<elem>>
<1>0. Len(list) \in Nat /\ at \in Nat
  OBVIOUS
<1>1. before \in Seq(S) /\ Len(before) = at - 1 /\ \A i \in 1 .. at - 1 : before[i] = list[i]
  OBVIOUS
<1>2. /\ behind \in Seq(S) /\ Len(behind) = Len(list) - at + 1
      /\ \A i \in 1 .. Len(list) - at + 1 : behind[i] = list[at + i - 1]
  OBVIOUS
<1>3. InsertAt(list, at, elem) = front \o behind
  BY DEF InsertAt
<1>4. /\ front \in Seq(S) /\ Len(front) = at
      /\ \A i \in 1 .. at - 1 : front[i] = list[i]
      /\ front[at] = elem
  <2> HIDE DEF before
  <2>1. <<elem>> \in Seq(S) /\ Len(<<elem>>) = 1 /\ <<elem>>[1] = elem
    OBVIOUS
  <2>2. /\ front \in Seq(S)
        /\ Len(front) = Len(before) + 1
        /\ \A i \in 1 .. Len(before) : front[i] = before[i]
        /\ front[Len(before) + 1] = elem
    BY <1>1, <2>1, ConcatElements
  <2> QED BY <1>0, <1>1, <2>2
<1> HIDE DEF front, behind
<1>5. /\ front \o behind \in Seq(S)
      /\ Len(front \o behind) = Len(front) + Len(behind)
      /\ \A i \in 1 .. Len(front) : (front \o behind)[i] = front[i]
      /\ \A i \in 1 .. Len(behind) : (front \o behind)[Len(front) + i] = behind[i]
  BY <1>2, <1>4, ConcatElements
<1>6. ASSUME NEW i \in at .. Len(list)  PROVE (front \o behind)[i + 1] = list[i]
  <2>1. i - at + 1 \in 1 .. Len(behind) /\ at + (i - at + 1) = i + 1
    BY <1>0, <1>2
  <2>2. (front \o behind)[at + (i - at + 1)] = behind[i - at + 1]
    BY <1>4, <1>5, <2>1
  <2>3. behind[i - at + 1] = list[i]
    <3>1. i - at + 1 \in 1 .. Len(list) - at + 1 /\ at + (i - at + 1) - 1 = i
      BY <1>0
    <3>2. behind[i - at + 1] = list[at + (i - at + 1) - 1]
      BY <1>2, <3>1
    <3> QED BY <3>1, <3>2
  <2>4. (front \o behind)[at + (i - at + 1)] = (front \o behind)[i + 1]
    BY <2>1
  <2> QED BY <2>2, <2>3, <2>4
<1>7. Len(front \o behind) = Len(list) + 1
  BY <1>0, <1>2, <1>4, <1>5
<1>8. (front \o behind)[at] = elem /\ \A i \in 1 .. at - 1 : (front \o behind)[i] = list[i]
  BY <1>0, <1>4, <1>5
<1> QED BY <1>3, <1>5, <1>6, <1>7, <1>8

(* RemoveAt closes the gap.                                                *)
LEMMA RemoveAtElements ==
  ASSUME NEW S, NEW list \in Seq(S), NEW at \in 1 .. Len(list)
  PROVE  /\ RemoveAt(list, at) \in Seq(S)
         /\ Len(RemoveAt(list, at)) = Len(list) - 1
         /\ \A i \in 1 .. at - 1 : RemoveAt(list, at)[i] = list[i]
         /\ \A i \in at .. Len(list) - 1 : RemoveAt(list, at)[i] = list[i + 1]
<1> DEFINE before == SubSeq(list, 1, at - 1)
           behind == SubSeq(list, at + 1, Len(list))
<1>0. Len(list) \in Nat /\ at \in Nat
  OBVIOUS
<1>1. before \in Seq(S) /\ Len(before) = at - 1 /\ \A i \in 1 .. at - 1 : before[i] = list[i]
  OBVIOUS
<1>2. /\ behind \in Seq(S) /\ Len(behind) = Len(list) - at
      /\ \A i \in 1 .. Len(list) - at : behind[i] = list[at + i]
  OBVIOUS
<1>3. RemoveAt(list, at) = before \o behind
  BY DEF RemoveAt
<1> HIDE DEF before, behind
<1>4. /\ before \o behind \in Seq(S)
      /\ Len(before \o behind) = Len(before) + Len(behind)
      /\ \A i \in 1 .. Len(before) : (before \o behind)[i] = before[i]
      /\ \A i \in 1 .. Len(behind) : (before \o behind)[Len(before) + i] = behind[i]
  <2>1. before \in Seq(S) /\ behind \in Seq(S)
    BY <1>1, <1>2
  <2> QED BY <2>1, ConcatElements
<1>5. ASSUME NEW i \in at .. Len(list) - 1  PROVE (before \o behind)[i] = list[i + 1]
  <2>1. i - at + 1 \in 1 .. Len(behind) /\ at - 1 + (i - at + 1) = i
    BY <1>0, <1>2
  <2>2. (before \o behind)[at - 1 + (i - at + 1)] = behind[i - at + 1]
    BY <1>1, <1>4, <2>1
  <2>3. behind[i - at + 1] = list[at + (i - at + 1)] /\ at + (i - at + 1) = i + 1
    BY <1>0, <1>2, <2>1
  <2> QED BY <2>1, <2>2, <2>3
<1>6. Len(before \o behind) = Len(list) - 1
  BY <1>0, <1>1, <1>2, <1>4
<1>7. \A i \in 1 .. at - 1 : (before \o behind)[i] = list[i]
  BY <1>0, <1>1, <1>4
<1> QED BY <1>3, <1>4, <1>5, <1>6, <1>7

(* addWithPrio adds one element, and the position it takes is one of the   *)
(* positions of the longer list.                                           *)
LEMMA AddWithPrioType ==
  ASSUME NEW S, NEW list \in Seq(S), NEW elem, NEW prio,
         [elem EXCEPT !.prio = prio] \in S
  PROVE  /\ AddWithPrio(list, elem, prio) \in Seq(S)
         /\ Len(AddWithPrio(list, elem, prio)) = Len(list) + 1
         /\ PrioPosition(list, prio) \in 1 .. Len(list) + 1
<1>1. PrioPosition(list, prio) \in 1 .. Len(list) + 1
  <2>1. Len(list) \in Nat
    OBVIOUS
  <2> QED BY <2>1, LeadingUpToRange DEF PrioPosition
<1> QED BY <1>1, InsertAtElements DEF AddWithPrio

(* The element addWithPrio puts into a list.                               *)
Prioritized(elem, prio) == [elem EXCEPT !.prio = prio]

(* Where the elements of a list are after one was added by priority.       *)
LEMMA AddedElements ==
  ASSUME NEW S, NEW list \in Seq(S), NEW elem, NEW prio, Prioritized(elem, prio) \in S
  PROVE  /\ PrioPosition(list, prio) \in 1 .. Len(list) + 1
         /\ AddWithPrio(list, elem, prio) \in Seq(S)
         /\ Len(AddWithPrio(list, elem, prio)) = Len(list) + 1
         /\ \A i \in 1 .. PrioPosition(list, prio) - 1 :
              AddWithPrio(list, elem, prio)[i] = list[i]
         /\ AddWithPrio(list, elem, prio)[PrioPosition(list, prio)] = Prioritized(elem, prio)
         /\ \A i \in PrioPosition(list, prio) .. Len(list) :
              AddWithPrio(list, elem, prio)[i + 1] = list[i]
<1> DEFINE at == PrioPosition(list, prio)
           put == Prioritized(elem, prio)
<1>1. at \in 1 .. Len(list) + 1
  BY LeadingUpToRange DEF PrioPosition
<1>2. AddWithPrio(list, elem, prio) = InsertAt(list, at, put)
  BY DEF AddWithPrio, Prioritized
<1> HIDE DEF at, put
<1>3. put \in S
  BY DEF put
<1>4. /\ InsertAt(list, at, put) \in Seq(S)
      /\ Len(InsertAt(list, at, put)) = Len(list) + 1
      /\ \A i \in 1 .. at - 1 : InsertAt(list, at, put)[i] = list[i]
      /\ InsertAt(list, at, put)[at] = put
      /\ \A i \in at .. Len(list) : InsertAt(list, at, put)[i + 1] = list[i]
  <2>1. ASSUME NEW a \in 1 .. Len(list) + 1, NEW e \in S
        PROVE  /\ InsertAt(list, a, e) \in Seq(S)
               /\ Len(InsertAt(list, a, e)) = Len(list) + 1
               /\ \A i \in 1 .. a - 1 : InsertAt(list, a, e)[i] = list[i]
               /\ InsertAt(list, a, e)[a] = e
               /\ \A i \in a .. Len(list) : InsertAt(list, a, e)[i + 1] = list[i]
    BY InsertAtElements
  <2> QED BY <1>1, <1>3, <2>1, Zenon
<1> QED BY <1>1, <1>2, <1>4 DEF at, put

(* A set of positions that has with each all before it is an interval.     *)
LEMMA InitialSegment ==
  ASSUME NEW n \in Nat, NEW P \in SUBSET (1 .. n),
         \A i \in P : \A j \in 1 .. i : j \in P
  PROVE  Cardinality(P) \in 0 .. n /\ P = 1 .. Cardinality(P)
<1>1. ASSUME NEW m \in 0 .. n, P = 1 .. m
      PROVE  Cardinality(P) \in 0 .. n /\ P = 1 .. Cardinality(P)
  <2>1. Cardinality(1 .. m) = m
    BY FS_Interval
  <2> QED BY <1>1, <2>1
<1>2. CASE P = 1 .. n
  BY <1>1, <1>2
<1>3. CASE P # 1 .. n
  <2>1. (1 .. n) \ P \in SUBSET Nat /\ (1 .. n) \ P # {}
    <3>1. \E i \in 1 .. n : i \notin P
      BY <1>3, Zenon
    <3> QED BY <3>1
  <2>2. PICK m \in (1 .. n) \ P : \A k \in (1 .. n) \ P : m <= k
    BY <2>1, NatMin
  <2>3. P = 1 .. (m - 1)
    <3>1. ASSUME NEW i \in P  PROVE i \in 1 .. (m - 1)
      <4>1. i \in 1 .. n /\ m \in 1 .. n
        BY <2>2
      <4>2. CASE i >= m
        BY <2>2, <4>1, <4>2
      <4> QED BY <4>1, <4>2
    <3>2. ASSUME NEW i \in 1 .. (m - 1)  PROVE i \in P
      BY <2>2
    <3> QED BY <3>1, <3>2
  <2>4. m - 1 \in 0 .. n
    BY <2>2
  <2> QED BY <1>1, <2>3, <2>4
<1> QED BY <1>2, <1>3

(* addWithPrio walks past elements without a larger priority, and stops at *)
(* one that has.                                                           *)
LEMMA PrioPositionMeaning ==
  ASSUME NEW S, NEW list \in Seq(S), NEW prio
  PROVE  /\ PrioPosition(list, prio) \in 1 .. Len(list) + 1
         /\ \A i \in 1 .. PrioPosition(list, prio) - 1 : list[i].prio <= prio
         /\ PrioPosition(list, prio) <= Len(list) =>
              ~(list[PrioPosition(list, prio)].prio <= prio)
<1> DEFINE P == {i \in DOMAIN list : \A j \in 1 .. i : list[j].prio <= prio}
           k == Cardinality(P)
           n == Len(list)
<1>1. n \in Nat /\ DOMAIN list = 1 .. n
  OBVIOUS
<1>2. P \in SUBSET (1 .. n) /\ \A i \in P : \A j \in 1 .. i : j \in P
  BY <1>1
<1>3. k \in 0 .. n /\ P = 1 .. k
  <2> HIDE DEF P
  <2> QED BY <1>1, <1>2, InitialSegment
<1>4. PrioPosition(list, prio) = 1 + k
  BY DEF PrioPosition, LeadingUpTo
<1>5. \A i \in 1 .. k : list[i].prio <= prio
  <2> TAKE i \in 1 .. k
  <2>1. i \in P
    BY <1>3
  <2>2. i \in 1 .. i
    BY <1>3
  <2> QED BY <2>1, <2>2
<1>6. k + 1 <= n => ~(list[k + 1].prio <= prio)
  <2> SUFFICES ASSUME k + 1 <= n, list[k + 1].prio <= prio  PROVE FALSE
    OBVIOUS
  <2>1. k + 1 \in 1 .. n /\ k + 1 \notin 1 .. k
    BY <1>1, <1>3
  <2>2. \A j \in 1 .. k + 1 : list[j].prio <= prio
    <3> HIDE DEF k
    <3> TAKE j \in 1 .. k + 1
    <3>1. CASE j \in 1 .. k
      BY <1>5, <3>1
    <3>2. CASE j = k + 1
      BY <3>2
    <3> QED BY <1>3, <3>1, <3>2
  <2>3. k + 1 \in P
    <3> HIDE DEF k
    <3> QED BY <1>1, <2>1, <2>2
  <2> HIDE DEF P, k
  <2> QED BY <1>3, <2>1, <2>3
<1> HIDE DEF k
<1> QED BY <1>1, <1>3, <1>4, <1>5, <1>6

(* findChunk stops at the first element with the id.                       *)
LEMMA WalkToMeaning ==
  ASSUME NEW S, NEW list \in Seq(S), NEW id, \E i \in DOMAIN list : list[i].id = id
  PROVE  /\ WalkTo(list, id) \in Nat
         /\ WalkTo(list, id) + 1 \in DOMAIN list
         /\ list[WalkTo(list, id) + 1].id = id
<1> DEFINE P == {i \in DOMAIN list : \A j \in 1 .. i : list[j].id # id}
           k == Cardinality(P)
           n == Len(list)
<1>1. n \in Nat /\ DOMAIN list = 1 .. n
  OBVIOUS
<1>2. P \in SUBSET (1 .. n) /\ \A i \in P : \A j \in 1 .. i : j \in P
  BY <1>1
<1>3. k \in 0 .. n /\ P = 1 .. k
  <2> HIDE DEF P
  <2> QED BY <1>1, <1>2, InitialSegment
<1>4. WalkTo(list, id) = k
  BY DEF WalkTo
<1>5. PICK i \in 1 .. n : list[i].id = id
  BY <1>1
<1>6. ~(i \in 1 .. k)
  <2> SUFFICES ASSUME i \in P  PROVE FALSE
    BY <1>3
  <2>1. i \in 1 .. i
    BY <1>5
  <2> QED BY <1>5, <2>1
<1>7. k + 1 \in 1 .. n
  <2> HIDE DEF k
  <2> QED BY <1>1, <1>3, <1>5, <1>6
<1>8. list[k + 1].id = id
  <2> SUFFICES ASSUME list[k + 1].id # id  PROVE FALSE
    OBVIOUS
  <2>1. \A j \in 1 .. k + 1 : list[j].id # id
    <3> TAKE j \in 1 .. k + 1
    <3>1. CASE j \in 1 .. k
      <4>1. j \in P /\ j \in 1 .. j
        <5> HIDE DEF P, k
        <5> QED BY <1>3, <3>1
      <4> QED BY <4>1
    <3>2. CASE j = k + 1
      BY <3>2
    <3> HIDE DEF P, k
    <3> QED BY <1>3, <3>1, <3>2
  <2>2. k + 1 \in P
    <3> HIDE DEF k
    <3> QED BY <1>1, <1>7, <2>1
  <2> HIDE DEF P, k
  <2> QED BY <1>3, <2>2
<1> HIDE DEF k
<1> QED BY <1>1, <1>3, <1>4, <1>7, <1>8

(* No two elements with the same id.                                       *)
IdsDistinct(list) == \A i, j \in DOMAIN list : list[i].id = list[j].id => i = j

(* In the order of their priorities.                                       *)
PrioSorted(list) == \A i, j \in DOMAIN list : i < j => list[i].prio <= list[j].prio

(* What addWithPrio does to the elements, their ids and their order.       *)
LEMMA AddWithPrioKeeps ==
  ASSUME NEW S, NEW list \in Seq(S), NEW elem, NEW prio \in Nat, Prioritized(elem, prio) \in S,
         Prioritized(elem, prio).prio = prio, \A x \in S : x.prio \in Nat
  PROVE  /\ ToSet(AddWithPrio(list, elem, prio)) = ToSet(list) \cup {Prioritized(elem, prio)}
         /\ PrioSorted(list) => PrioSorted(AddWithPrio(list, elem, prio))
         /\ IdsDistinct(list) /\ (\A x \in ToSet(list) : x.id # Prioritized(elem, prio).id)
              => IdsDistinct(AddWithPrio(list, elem, prio))
<1> DEFINE at == PrioPosition(list, prio)
           put == Prioritized(elem, prio)
           added == AddWithPrio(list, elem, prio)
           n == Len(list)
           from(i) == IF i < at THEN i ELSE i - 1
<1>1. n \in Nat /\ DOMAIN list = 1 .. n /\ \A i \in 1 .. n : list[i] \in S
  OBVIOUS
<1>2. /\ at \in 1 .. n + 1 /\ added \in Seq(S) /\ Len(added) = n + 1
      /\ \A i \in 1 .. at - 1 : added[i] = list[i]
      /\ added[at] = put
      /\ \A i \in at .. n : added[i + 1] = list[i]
  BY AddedElements
<1>3. /\ \A i \in 1 .. at - 1 : list[i].prio <= prio
      /\ at <= n => ~(list[at].prio <= prio)
  BY PrioPositionMeaning
<1>4. put \in S /\ put.prio = prio
  OBVIOUS
<1> HIDE DEF at, put, added
<1>5. DOMAIN added = 1 .. n + 1
  BY <1>1, <1>2
<1>6. ASSUME NEW i \in 1 .. n + 1, i # at
      PROVE  from(i) \in 1 .. n /\ added[i] = list[from(i)]
  <2>1. CASE i < at
    <3>1. i \in 1 .. at - 1 /\ i \in 1 .. n /\ from(i) = i
      BY <1>1, <1>2, <2>1
    <3> QED BY <1>2, <3>1
  <2>2. CASE i > at
    <3>1. i - 1 \in at .. n /\ (i - 1) + 1 = i /\ from(i) = i - 1
      BY <1>1, <1>2, <2>2
    <3>2. added[(i - 1) + 1] = list[i - 1]
      BY <1>2, <3>1
    <3> QED BY <1>2, <3>1, <3>2
  <2> QED BY <1>2, <1>6, <2>1, <2>2
<1>7. ToSet(added) = ToSet(list) \cup {put}
  <2>1. ASSUME NEW x \in ToSet(added)  PROVE x \in ToSet(list) \cup {put}
    <3>1. PICK i \in 1 .. n + 1 : x = added[i]
      BY <1>5 DEF ToSet
    <3> QED BY <1>1, <1>2, <1>6, <3>1 DEF ToSet
  <2>2. ASSUME NEW x \in ToSet(list)  PROVE x \in ToSet(added)
    <3>1. PICK i \in 1 .. n : x = list[i]
      BY <1>1 DEF ToSet
    <3>2. CASE i \in 1 .. at - 1
      <4>1. added[i] = x /\ i \in 1 .. n + 1
        BY <1>1, <1>2, <3>1, <3>2
      <4> QED BY <1>5, <4>1 DEF ToSet
    <3>3. CASE i \in at .. n
      <4>1. added[i + 1] = x /\ i + 1 \in 1 .. n + 1
        BY <1>1, <1>2, <3>1, <3>3
      <4> QED BY <1>5, <4>1 DEF ToSet
    <3> QED BY <1>1, <1>2, <3>1, <3>2, <3>3
  <2>3. put \in ToSet(added)
    BY <1>2, <1>5 DEF ToSet
  <2> QED BY <2>1, <2>2, <2>3
<1>8. ASSUME IdsDistinct(list), \A x \in ToSet(list) : x.id # put.id
      PROVE  IdsDistinct(added)
  <2> SUFFICES ASSUME NEW i \in 1 .. n + 1, NEW j \in 1 .. n + 1, added[i].id = added[j].id
               PROVE  i = j
    BY <1>5 DEF IdsDistinct
  <2>1. \A k \in 1 .. n : list[k] \in ToSet(list)
    BY <1>1 DEF ToSet
  <2>2. CASE i = at /\ j # at
    BY <1>2, <1>6, <1>8, <2>1, <2>2
  <2>3. CASE i # at /\ j = at
    BY <1>2, <1>6, <1>8, <2>1, <2>3
  <2>4. CASE i # at /\ j # at
    <3>1. /\ from(i) \in DOMAIN list /\ added[i] = list[from(i)]
          /\ from(j) \in DOMAIN list /\ added[j] = list[from(j)]
      BY <1>1, <1>6, <2>4
    <3>2. from(i) = from(j)
      <4> HIDE DEF from
      <4> QED BY <1>8, <3>1 DEF IdsDistinct
    <3> QED BY <1>2, <2>4, <3>2
  <2> QED BY <2>2, <2>3, <2>4
<1>9. ASSUME PrioSorted(list)  PROVE PrioSorted(added)
  <2> SUFFICES ASSUME NEW i \in 1 .. n + 1, NEW j \in 1 .. n + 1, i < j
               PROVE  added[i].prio <= added[j].prio
    BY <1>5 DEF PrioSorted
  <2>0. \A k \in 1 .. n : list[k].prio \in Nat
    BY <1>1
  <2>1. CASE i = at
    <3>1. j - 1 \in at .. n /\ j - 1 \in 1 .. n /\ at \in 1 .. n /\ from(j) = j - 1
      BY <1>1, <1>2, <2>1
    <3>2. list[at].prio <= list[j - 1].prio
      <4>1. CASE at = j - 1
        BY <2>0, <3>1, <4>1
      <4>2. CASE at < j - 1
        BY <1>1, <1>9, <3>1, <4>2 DEF PrioSorted
      <4> QED BY <3>1, <4>1, <4>2
    <3>3. list[at].prio > prio
      BY <1>3, <2>0, <3>1
    <3>4. added[j] = list[j - 1] /\ j # at
      BY <1>6, <2>1, <3>1
    <3> QED BY <1>2, <1>4, <2>0, <2>1, <3>1, <3>2, <3>3, <3>4
  <2>2. CASE j = at
    <3>1. i \in 1 .. at - 1
      BY <1>1, <1>2, <2>2
    <3> QED BY <1>2, <1>3, <1>4, <2>2, <3>1
  <2>3. CASE i # at /\ j # at
    <3>1. from(i) < from(j)
      BY <1>2, <2>3
    <3>2. /\ from(i) \in 1 .. n /\ added[i] = list[from(i)]
          /\ from(j) \in 1 .. n /\ added[j] = list[from(j)]
      BY <1>6, <2>3
    <3> HIDE DEF from
    <3> QED BY <1>1, <1>9, <3>1, <3>2 DEF PrioSorted
  <2> QED BY <2>1, <2>2, <2>3
<1> QED BY <1>7, <1>8, <1>9 DEF added, put
=============================================================================
