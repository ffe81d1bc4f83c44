---------------------------- MODULE DedupeProofs ----------------------------
(* Proofs about Dedupe, for every set of paths with an order and a prefix  *)
(* relation that agree, and every list of candidates over them.            *)
EXTENDS Dedupe, TLAPS

(* The sorted list has the paths of the unsorted one, in order.            *)
Sorted ==
    /\ \A i, j \in 1 .. Len(cands) :
           i <= j => <<PathOf[cands[i]], PathOf[cands[j]]>> \in Before
    /\ \A i \in 1 .. Len(input) : \E j \in 1 .. Len(cands) : cands[j] = input[i]
    /\ \A j \in 1 .. Len(cands) : \E i \in 1 .. Len(input) : cands[j] = input[i]

(* What is kept was passed over, in that order.                            *)
KeptBehind ==
    /\ \A k \in 1 .. Len(kept) : \E i \in 1 .. Len(cands) :
           i < next /\ kept[k] = cands[i]
    /\ \A j, k \in 1 .. Len(kept) :
           j <= k => <<PathOf[kept[j]], PathOf[kept[k]]>> \in Before

IInv == /\ TypeOK
        /\ next = 0 => kept = << >> /\ cands = input
        /\ next # 0 => Sorted
        /\ KeptBehind
        /\ KeptCoversOnce

LEMMA InitInv == Init => IInv
<1> SUFFICES ASSUME Init PROVE IInv
  OBVIOUS
<1>1. input \in Seq(Candidate)
  BY CandidateAssumption DEF Init
<1> QED
  BY <1>1 DEF Init, IInv, TypeOK, KeptBehind, KeptCoversOnce

LEMMA SortInv == IInv /\ Sort => IInv'
<1> SUFFICES ASSUME IInv, Sort PROVE IInv'
  OBVIOUS
<1> DEFINE n == Len(input)
<1>1. PICK f \in [1 .. n -> 1 .. n] : StableSort(input, cands', f)
  BY DEF Sort
<1>2. n \in Nat /\ input \in Seq(Candidate) /\ input \in Inputs
  BY CandidateAssumption DEF IInv, TypeOK
<1>3. cands' = [i \in 1 .. n |-> input[f[i]]]
  BY <1>1 DEF StableSort
<1>4. cands' \in Seq(Candidate) /\ Len(cands') = n
  BY <1>2, <1>3
<1>5. next' = 1 /\ kept' = << >> /\ input' = input
  BY DEF Sort, IInv
<1>6. Sorted'
  <2>1. ASSUME NEW i \in 1 .. n, NEW j \in 1 .. n, i <= j
        PROVE  <<PathOf[cands'[i]], PathOf[cands'[j]]>> \in Before
    <3>1. CASE i < j
      BY <1>1, <3>1 DEF StableSort
    <3>2. CASE i = j
      BY <3>2, <1>2, <1>4, CandidateAssumption, OrderAssumption
    <3> QED
      BY <2>1, <1>2, <3>1, <3>2
  <2>2. \A i \in 1 .. n : \E j \in 1 .. n : cands'[j] = input[i]
    BY <1>1, <1>3 DEF StableSort
  <2>3. \A j \in 1 .. n : \E i \in 1 .. n : cands'[j] = input[i]
    BY <1>3
  <2> QED
    BY <1>4, <1>5, <2>1, <2>2, <2>3 DEF Sorted
<1> QED
  BY <1>2, <1>4, <1>5, <1>6 DEF IInv, TypeOK, KeptBehind, KeptCoversOnce

(* Everything kept sorts before the candidate the loop looks at.           *)
LEMMA KeptBefore ==
    ASSUME IInv, Looping, NEW k \in 1 .. Len(kept)
    PROVE  <<PathOf[kept[k]], PathOf[cands[next]]>> \in Before
<1>1. PICK i \in 1 .. Len(cands) : i < next /\ kept[k] = cands[i]
  BY DEF IInv, KeptBehind
<1>2. next \in 1 .. Len(cands) /\ next # 0 /\ i <= next
  BY <1>1 DEF Looping, IInv, TypeOK
<1>3. Sorted
  BY <1>2 DEF IInv
<1> QED
  BY <1>1, <1>2, <1>3 DEF Sorted

(* A candidate inside some kept one is inside the last: between the two    *)
(* only paths inside the first sort.                                       *)
LEMMA InsideLast ==
    ASSUME IInv, Looping, NEW k \in 1 .. Len(kept),
           <<PathOf[kept[k]], PathOf[cands[next]]>> \in Inside
    PROVE  k = Len(kept)
<1> DEFINE l == Len(kept)
<1>1. l \in 1 .. l /\ k <= l /\ kept \in Seq(Candidate) /\ cands[next] \in Candidate
  BY DEF IInv, TypeOK, Looping
<1>2. kept[k] \in Candidate /\ kept[l] \in Candidate
  BY <1>1
<1>3. <<PathOf[kept[k]], PathOf[kept[l]]>> \in Before
  BY <1>1 DEF IInv, KeptBehind
<1>4. <<PathOf[kept[l]], PathOf[cands[next]]>> \in Before
  BY <1>1, KeptBefore
<1>5. <<PathOf[kept[k]], PathOf[kept[l]]>> \in Inside
  BY <1>1, <1>2, <1>3, <1>4, InsideAssumption, CandidateAssumption
<1> QED
  BY <1>1, <1>5 DEF IInv, KeptCoversOnce

LEMMA DropInv == IInv /\ Drop => IInv'
<1> SUFFICES ASSUME IInv, Drop PROVE IInv'
  OBVIOUS
<1>1. /\ next \in 1 .. Len(cands) /\ next' = next + 1
      /\ UNCHANGED <<input, cands, kept>> /\ next \in Nat /\ Len(cands) \in Nat
  BY DEF Drop, Looping, IInv, TypeOK
<1>2. PICK k \in 1 .. Len(kept) : <<PathOf[kept[k]], PathOf[cands[next]]>> \in Inside
  BY DEF Drop, Nested, starts_with
<1>3. KeptCoversOnce'
  <2>1. ASSUME NEW i \in 1 .. Len(cands), i < next + 1
        PROVE  \E h \in 1 .. Len(kept) : <<PathOf[kept[h]], PathOf[cands[i]]>> \in Inside
    <3>1. CASE i = next
      BY <1>2, <3>1
    <3>2. CASE i < next
      BY <3>2 DEF IInv, KeptCoversOnce
    <3> QED
      BY <1>1, <2>1, <3>1, <3>2
  <2> QED
    BY <1>1, <2>1 DEF IInv, KeptCoversOnce
<1>4. KeptBehind'
  BY <1>1 DEF IInv, KeptBehind
<1>5. TypeOK' /\ next' # 0
  BY <1>1 DEF IInv, TypeOK
<1>6. Sorted'
  BY <1>1 DEF IInv, Sorted
<1> QED
  BY <1>3, <1>4, <1>5, <1>6 DEF IInv

LEMMA KeepInv == IInv /\ Keep => IInv'
<1> SUFFICES ASSUME IInv, Keep PROVE IInv'
  OBVIOUS
<1> DEFINE c == cands[next]
           l == Len(kept)
<1>1. /\ next \in 1 .. Len(cands) /\ next' = next + 1
      /\ UNCHANGED <<input, cands>> /\ next \in Nat /\ Len(cands) \in Nat
      /\ c \in Candidate /\ kept \in Seq(Candidate) /\ l \in Nat
      /\ PathOf[c] \in Path /\ Looping
  BY CandidateAssumption DEF Keep, Looping, IInv, TypeOK
<1>2. kept' = Append(kept, c)
  BY DEF Keep
<1>3. /\ kept' \in Seq(Candidate) /\ Len(kept') = l + 1 /\ kept'[l + 1] = c
      /\ \A k \in 1 .. l : kept'[k] = kept[k] /\ kept[k] \in Candidate
                           /\ PathOf[kept[k]] \in Path
  BY <1>1, <1>2, CandidateAssumption
<1>4. \A k \in 1 .. l : <<PathOf[kept[k]], PathOf[c]>> \notin Inside
  BY <1>1, InsideLast DEF Keep, Nested, starts_with
<1>5. \A k \in 1 .. l : <<PathOf[kept[k]], PathOf[c]>> \in Before
  BY <1>1, KeptBefore
<1>6. \A k \in 1 .. l : <<PathOf[c], PathOf[kept[k]]>> \notin Inside
  BY <1>1, <1>3, <1>4, <1>5, OrderAssumption, InsideAssumption
<1>7. <<PathOf[c], PathOf[c]>> \in Inside /\ <<PathOf[c], PathOf[c]>> \in Before
  BY <1>1, InsideAssumption
<1>8. KeptBehind'
  <2>1. \A k \in 1 .. l + 1 : \E i \in 1 .. Len(cands) : i < next + 1 /\ kept'[k] = cands[i]
    <3> SUFFICES ASSUME NEW k \in 1 .. l + 1
                 PROVE  \E i \in 1 .. Len(cands) : i < next + 1 /\ kept'[k] = cands[i]
      OBVIOUS
    <3>1. CASE k = l + 1
      BY <1>1, <1>3, <3>1
    <3>2. CASE k \in 1 .. l
      <4>1. PICK i \in 1 .. Len(cands) : i < next /\ kept[k] = cands[i]
        BY <3>2 DEF IInv, KeptBehind
      <4>2. kept'[k] = kept[k] /\ i < next + 1
        BY <1>1, <1>3, <3>2, <4>1
      <4> QED
        BY <4>1, <4>2
    <3> QED
      BY <1>1, <3>1, <3>2
  <2>2. \A j, k \in 1 .. l + 1 : j <= k => <<PathOf[kept'[j]], PathOf[kept'[k]]>> \in Before
    <3> SUFFICES ASSUME NEW j \in 1 .. l + 1, NEW k \in 1 .. l + 1, j <= k
                 PROVE  <<PathOf[kept'[j]], PathOf[kept'[k]]>> \in Before
      OBVIOUS
    <3>1. CASE k = l + 1 /\ j = l + 1
      BY <1>3, <1>7, <3>1
    <3>2. CASE k = l + 1 /\ j \in 1 .. l
      BY <1>3, <1>5, <3>2
    <3>3. CASE k \in 1 .. l /\ j \in 1 .. l
      <4>1. kept'[j] = kept[j] /\ kept'[k] = kept[k]
        BY <1>3, <3>3
      <4>2. <<PathOf[kept[j]], PathOf[kept[k]]>> \in Before
        BY <3>3 DEF IInv, KeptBehind
      <4> QED
        BY <4>1, <4>2
    <3>4. k = l + 1 \/ k \in 1 .. l
      BY <1>1
    <3>5. k \in 1 .. l => j \in 1 .. l
      BY <1>1
    <3>6. j = l + 1 \/ j \in 1 .. l
      BY <1>1
    <3> QED
      BY <3>1, <3>2, <3>3, <3>4, <3>5, <3>6
  <2> QED
    BY <1>1, <1>3, <2>1, <2>2 DEF KeptBehind
<1>9. KeptCoversOnce'
  <2>1. \A j, k \in 1 .. l + 1 : j # k => <<PathOf[kept'[j]], PathOf[kept'[k]]>> \notin Inside
    BY <1>1, <1>3, <1>4, <1>6 DEF IInv, KeptCoversOnce
  <2>2. ASSUME NEW i \in 1 .. Len(cands), i < next + 1
        PROVE  \E k \in 1 .. l + 1 : <<PathOf[kept'[k]], PathOf[cands[i]]>> \in Inside
    <3>1. CASE i = next
      <4>1. l + 1 \in 1 .. l + 1 /\ kept'[l + 1] = cands[i]
        BY <1>1, <1>3, <3>1
      <4> QED
        BY <1>7, <3>1, <4>1
    <3>2. CASE i < next
      <4>1. PICK k \in 1 .. l : <<PathOf[kept[k]], PathOf[cands[i]]>> \in Inside
        BY <3>2 DEF IInv, KeptCoversOnce
      <4>2. k \in 1 .. l + 1 /\ kept'[k] = kept[k]
        BY <1>1, <1>3
      <4> QED
        BY <4>1, <4>2
    <3>3. i = next \/ i < next
      BY <1>1, <2>2
    <3> QED
      BY <3>1, <3>2, <3>3
  <2> QED
    BY <1>1, <1>3, <2>1, <2>2 DEF KeptCoversOnce
<1>10. TypeOK' /\ next' # 0
  BY <1>1, <1>3 DEF IInv, TypeOK
<1>11. Sorted'
  BY <1>1 DEF IInv, Sorted
<1> QED
  BY <1>8, <1>9, <1>10, <1>11 DEF IInv

LEMMA InvHolds == Spec => []IInv
<1>1. IInv /\ UNCHANGED vars => IInv'
  <2> SUFFICES ASSUME IInv, UNCHANGED vars PROVE IInv'
    OBVIOUS
  <2>1. UNCHANGED <<input, cands, next, kept>>
    BY DEF vars
  <2>2. KeptBehind' /\ KeptCoversOnce'
    BY <2>1 DEF IInv, KeptBehind, KeptCoversOnce
  <2>3. next' # 0 => Sorted'
    BY <2>1 DEF IInv, Sorted
  <2> QED
    BY <2>1, <2>2, <2>3 DEF IInv, TypeOK
<1>2. IInv /\ [Next]_vars => IInv'
  BY <1>1, SortInv, DropInv, KeepInv DEF Next
<1> QED
  BY <1>2, InitInv, PTL DEF Spec

(* Kept candidates never lie inside one another, and every candidate       *)
(* dropped lies inside a kept one (main.rs dedupe_nested).                 *)
THEOREM KeptCoversOnceHolds == Spec => []KeptCoversOnce
<1>1. IInv => KeptCoversOnce
  BY DEF IInv
<1> QED
  BY <1>1, InvHolds, PTL

(* The last kept candidate alone decides; the second check of the loop     *)
(* never drops anything the first lets through (main.rs dedupe_nested).    *)
THEOREM LastDecidesHolds == Spec => []LastDecides
<1>1. IInv => LastDecides
  <2> SUFFICES ASSUME IInv, Looping, Nested(cands[next])
               PROVE  <<PathOf[kept[Len(kept)]], PathOf[cands[next]]>> \in Inside
    BY DEF LastDecides, starts_with
  <2>1. PICK k \in 1 .. Len(kept) : <<PathOf[kept[k]], PathOf[cands[next]]>> \in Inside
    BY DEF Nested, starts_with
  <2> QED
    BY <2>1, InsideLast
<1> QED
  BY <1>1, InvHolds, PTL

(* The loop computes the outermost candidates, each path once, whatever    *)
(* order the targets resolve them in (main.rs dedupe_nested).              *)
THEOREM KeptIsOutermostHolds == Spec => []KeptIsOutermost
<1>1. IInv => KeptIsOutermost
  <2> SUFFICES ASSUME IInv, Done PROVE
        /\ Paths(kept) = {p \in Paths(input) :
                             \A q \in Paths(input) : <<q, p>> \in Inside => q = p}
        /\ \A j, k \in 1 .. Len(kept) : PathOf[kept[j]] = PathOf[kept[k]] => j = k
    BY DEF KeptIsOutermost
  <2> DEFINE Outermost == {p \in Paths(input) :
                              \A q \in Paths(input) : <<q, p>> \in Inside => q = p}
  <2>1. /\ next = Len(cands) + 1 /\ Len(cands) \in Nat /\ next # 0 /\ Sorted
        /\ kept \in Seq(Candidate) /\ input \in Seq(Candidate) /\ cands \in Seq(Candidate)
    BY CandidateAssumption DEF IInv, TypeOK, Done
  <2>2. /\ \A k \in 1 .. Len(kept) : PathOf[kept[k]] \in Path
        /\ \A i \in 1 .. Len(input) : PathOf[input[i]] \in Path
    BY <2>1, CandidateAssumption
  <2>3. ASSUME NEW i \in 1 .. Len(input)
        PROVE  \E k \in 1 .. Len(kept) : <<PathOf[kept[k]], PathOf[input[i]]>> \in Inside
    <3>1. PICK j \in 1 .. Len(cands) : cands[j] = input[i]
      BY <2>1 DEF Sorted
    <3>2. j < next
      BY <2>1, <3>1
    <3> QED
      BY <3>1, <3>2 DEF IInv, KeptCoversOnce
  <2>4. ASSUME NEW k \in 1 .. Len(kept)
        PROVE  \E i \in 1 .. Len(input) : kept[k] = input[i]
    BY <2>1 DEF IInv, KeptBehind, Sorted
  <2>5. ASSUME NEW p \in Paths(kept) PROVE p \in Outermost
    <3>1. PICK k \in 1 .. Len(kept) : p = PathOf[kept[k]]
      BY <2>5 DEF Paths
    <3>2. p \in Paths(input)
      BY <3>1, <2>4 DEF Paths
    <3>3. ASSUME NEW q \in Paths(input), <<q, p>> \in Inside PROVE q = p
      <4>1. PICK i \in 1 .. Len(input) : q = PathOf[input[i]]
        BY <3>3 DEF Paths
      <4>2. PICK h \in 1 .. Len(kept) : <<PathOf[kept[h]], q>> \in Inside
        BY <4>1, <2>3
      <4>3. <<PathOf[kept[h]], p>> \in Inside
        BY <2>2, <3>1, <3>3, <4>1, <4>2, InsideAssumption
      <4>4. h = k
        BY <3>1, <4>3 DEF IInv, KeptCoversOnce
      <4> QED
        BY <2>2, <3>1, <3>3, <4>1, <4>2, <4>4, InsideAssumption, OrderAssumption
    <3> QED
      BY <3>2, <3>3
  <2>6. ASSUME NEW p \in Outermost PROVE p \in Paths(kept)
    <3>1. PICK i \in 1 .. Len(input) : p = PathOf[input[i]]
      BY <2>6 DEF Paths
    <3>2. PICK k \in 1 .. Len(kept) : <<PathOf[kept[k]], p>> \in Inside
      BY <3>1, <2>3
    <3>3. PathOf[kept[k]] \in Paths(input)
      BY <2>4 DEF Paths
    <3>4. PathOf[kept[k]] = p
      BY <2>6, <3>2, <3>3
    <3> QED
      BY <3>4 DEF Paths
  <2>7. ASSUME NEW j \in 1 .. Len(kept), NEW k \in 1 .. Len(kept),
               PathOf[kept[j]] = PathOf[kept[k]]
        PROVE  j = k
    BY <2>2, <2>7, InsideAssumption DEF IInv, KeptCoversOnce
  <2> QED
    BY <2>5, <2>6, <2>7
<1> QED
  BY <1>1, InvHolds, PTL

(* Of each path the sort leaves the first candidate of the input in front. *)
FirstOfPath(c) ==
    \E j \in 1 .. Len(input) :
        /\ input[j] = c
        /\ \A i \in 1 .. Len(input) : PathOf[input[i]] = PathOf[c] => j <= i

SortedFirst ==
    \A j \in 1 .. Len(cands) :
        (\A i \in 1 .. j - 1 : PathOf[cands[i]] # PathOf[cands[j]]) => FirstOfPath(cands[j])

FirstInv == /\ next # 0 => SortedFirst
            /\ \A k \in 1 .. Len(kept) : FirstOfPath(kept[k])

LEMMA SortFirst == IInv /\ Sort => FirstInv'
<1> SUFFICES ASSUME IInv, Sort PROVE FirstInv'
  OBVIOUS
<1> DEFINE n == Len(input)
<1>1. PICK f \in [1 .. n -> 1 .. n] : StableSort(input, cands', f)
  BY DEF Sort
<1>2. /\ cands' = [i \in 1 .. n |-> input[f[i]]] /\ n \in Nat
      /\ input' = input /\ kept' = << >>
  <2>1. n \in Nat
    BY CandidateAssumption DEF IInv, TypeOK
  <2>2. cands' = [i \in 1 .. n |-> input[f[i]]]
    BY <1>1 DEF StableSort
  <2> QED
    BY <2>1, <2>2 DEF Sort, IInv
<1>3. Len(cands') = n
  BY <1>2
<1>4. ASSUME NEW j \in 1 .. n, \A i \in 1 .. j - 1 : PathOf[cands'[i]] # PathOf[cands'[j]]
      PROVE  /\ input[f[j]] = cands'[j]
             /\ \A i \in 1 .. n : PathOf[input[i]] = PathOf[cands'[j]] => f[j] <= i
  <2>1. input[f[j]] = cands'[j]
    BY <1>2
  <2>2. ASSUME NEW i \in 1 .. n, PathOf[input[i]] = PathOf[cands'[j]] PROVE f[j] <= i
    <3>1. PICK q \in 1 .. n : f[q] = i
      BY <1>1 DEF StableSort
    <3>2. PathOf[cands'[q]] = PathOf[cands'[j]]
      BY <1>2, <2>2, <3>1
    <3>3. q \notin 1 .. j - 1
      BY <1>4, <3>2
    <3>4. q = j \/ j < q
      BY <1>2, <3>3
    <3>5. f[j] \in Nat /\ i \in Nat
      BY <1>2
    <3>6. CASE j < q
      <4>1. f[j] < f[q]
        BY <1>1, <3>2, <3>6 DEF StableSort
      <4> QED
        BY <3>1, <3>5, <4>1
    <3> QED
      BY <3>1, <3>4, <3>5, <3>6
  <2> QED
    BY <2>1, <2>2
<1>5. SortedFirst'
  <2>1. \A j \in 1 .. n : f[j] \in 1 .. n
    OBVIOUS
  <2>2. ASSUME NEW j \in 1 .. n,
               \A i \in 1 .. j - 1 : PathOf[cands'[i]] # PathOf[cands'[j]]
        PROVE  \E h \in 1 .. n :
                   /\ input[h] = cands'[j]
                   /\ \A i \in 1 .. n : PathOf[input[i]] = PathOf[cands'[j]] => h <= i
    BY <1>4, <2>1, <2>2
  <2>3. ASSUME NEW j \in 1 .. n,
               \A i \in 1 .. j - 1 : PathOf[cands'[i]] # PathOf[cands'[j]]
        PROVE  FirstOfPath(cands[j])'
    BY <1>2, <2>2, <2>3 DEF FirstOfPath
  <2> QED
    BY <1>3, <2>3 DEF SortedFirst
<1> QED
  BY <1>2, <1>5 DEF FirstInv

(* The loop keeps a candidate only if it is the first of its path.         *)
LEMMA KeepFirst == IInv /\ FirstInv /\ Keep => FirstInv'
<1> SUFFICES ASSUME IInv, FirstInv, Keep PROVE FirstInv'
  OBVIOUS
<1> DEFINE c == cands[next]
           l == Len(kept)
<1>1. /\ next \in 1 .. Len(cands) /\ UNCHANGED <<input, cands>> /\ kept' = Append(kept, c)
      /\ kept \in Seq(Candidate) /\ l \in Nat /\ Looping /\ next # 0 /\ Len(cands) \in Nat
  BY DEF Keep, Looping, IInv, TypeOK
<1>2. Len(kept') = l + 1 /\ kept'[l + 1] = c /\ \A k \in 1 .. l : kept'[k] = kept[k]
  BY <1>1
<1>3. ASSUME NEW i \in 1 .. next - 1 PROVE PathOf[cands[i]] # PathOf[c]
  <2>1. i \in 1 .. Len(cands) /\ i < next
    BY <1>1
  <2>2. PICK k \in 1 .. l : <<PathOf[kept[k]], PathOf[cands[i]]>> \in Inside
    BY <2>1 DEF IInv, KeptCoversOnce
  <2>3. <<PathOf[kept[k]], PathOf[c]>> \notin Inside
    BY <1>1, InsideLast DEF Keep, Nested, starts_with
  <2> QED
    BY <2>2, <2>3
<1>4. FirstOfPath(c)
  BY <1>1, <1>3 DEF FirstInv, SortedFirst
<1>5. ASSUME NEW k \in 1 .. l + 1 PROVE FirstOfPath(kept'[k])
  <2>1. k = l + 1 \/ k \in 1 .. l
    BY <1>1
  <2> QED
    BY <1>2, <1>4, <2>1 DEF FirstInv
<1>6. FirstInv'
  <2>1. (\A k \in 1 .. Len(kept) : FirstOfPath(kept[k]))'
    BY <1>1, <1>2, <1>5 DEF FirstOfPath
  <2>2. SortedFirst'
    BY <1>1 DEF FirstInv, SortedFirst, FirstOfPath
  <2> QED
    BY <2>1, <2>2 DEF FirstInv
<1> QED
  BY <1>6

LEMMA FirstInvHolds == Spec => []FirstInv
<1>1. Init => FirstInv
  BY DEF Init, FirstInv
<1>2. ASSUME FirstInv, UNCHANGED <<input, cands, kept>>, next' # 0 => next # 0
      PROVE  FirstInv'
  <2>1. SortedFirst' = SortedFirst
    BY <1>2 DEF SortedFirst, FirstOfPath
  <2>2. (\A k \in 1 .. Len(kept) : FirstOfPath(kept[k]))'
    BY <1>2 DEF FirstInv, FirstOfPath
  <2> QED
    BY <1>2, <2>1, <2>2 DEF FirstInv
<1>3. IInv /\ FirstInv /\ Drop => FirstInv'
  BY <1>2 DEF Drop, Looping
<1>4. FirstInv /\ UNCHANGED vars => FirstInv'
  BY <1>2 DEF vars
<1>5. IInv /\ FirstInv /\ [Next]_vars => FirstInv'
  BY <1>3, <1>4, SortFirst, KeepFirst DEF Next
<1> QED
  BY <1>1, <1>5, InvHolds, PTL DEF Spec

(* Of several targets that resolve to one path the catalog's first names   *)
(* it, and so decides which tier's flag it takes (main.rs dedupe_nested).  *)
THEOREM FirstTargetWinsHolds == Spec => []FirstTargetWins
<1>1. IInv /\ FirstInv => FirstTargetWins
  <2> SUFFICES ASSUME IInv, FirstInv, NEW k \in 1 .. Len(kept), NEW i \in 1 .. Len(input),
                      PathOf[input[i]] = PathOf[kept[k]]
               PROVE  \E j \in 1 .. i : input[j] = kept[k]
    BY DEF FirstTargetWins
  <2>1. PICK j \in 1 .. Len(input) : input[j] = kept[k] /\ j <= i
    BY DEF FirstInv, FirstOfPath
  <2> QED
    BY <2>1
<1> QED
  BY <1>1, InvHolds, FirstInvHolds, PTL

(* What is kept at the end is what Outermost chooses.                      *)
Promise ==
    Done => /\ kept \in Seq(Candidate)
            /\ \A i \in Outer!Chosen : \E k \in 1 .. Len(kept) : kept[k] = input[i]
            /\ \A k \in 1 .. Len(kept) : \E i \in Outer!Chosen : kept[k] = input[i]
            /\ \A j, k \in 1 .. Len(kept) : j < k =>
                   /\ PathOf[kept[j]] # PathOf[kept[k]]
                   /\ <<PathOf[kept[j]], PathOf[kept[k]]>> \in Before

LEMMA PromiseHolds == Spec => []Promise
<1>1. IInv /\ FirstInv /\ KeptIsOutermost /\ FirstTargetWins => Promise
  <2> SUFFICES ASSUME IInv, FirstInv, KeptIsOutermost, FirstTargetWins, Done PROVE Promise
    BY DEF Promise
  <2>1. kept \in Seq(Candidate) /\ input \in Seq(Candidate) /\ Len(input) \in Nat
    BY CandidateAssumption DEF IInv, TypeOK
  <2>2. ASSUME NEW i \in Outer!Chosen
        PROVE  \E k \in 1 .. Len(kept) : kept[k] = input[i]
    <3>1. /\ i \in 1 .. Len(input)
          /\ \A j \in 1 .. Len(input) :
                 /\ <<PathOf[input[j]], PathOf[input[i]]>> \in Inside
                        => PathOf[input[i]] = PathOf[input[j]]
                 /\ PathOf[input[i]] = PathOf[input[j]] => i <= j
      BY <2>2 DEF Outer!Chosen, Outer!SamePath
    <3>2. PathOf[input[i]] \in Paths(kept)
      <4>1. PathOf[input[i]] \in Paths(input)
        BY <3>1 DEF Paths
      <4>2. \A q \in Paths(input) : <<q, PathOf[input[i]]>> \in Inside => q = PathOf[input[i]]
        BY <3>1 DEF Paths
      <4> QED
        BY <4>1, <4>2 DEF KeptIsOutermost
    <3>3. PICK k \in 1 .. Len(kept) : PathOf[kept[k]] = PathOf[input[i]]
      BY <3>2 DEF Paths
    <3>4. PICK j \in 1 .. i : input[j] = kept[k]
      BY <3>1, <3>3 DEF FirstTargetWins
    <3>5. j \in 1 .. Len(input) /\ j <= i
      BY <2>1, <3>1
    <3>6. i <= j
      BY <3>1, <3>3, <3>4, <3>5
    <3>7. i = j
      BY <2>1, <3>1, <3>5, <3>6
    <3> QED
      BY <3>4, <3>7
  <2>3. ASSUME NEW k \in 1 .. Len(kept)
        PROVE  \E i \in Outer!Chosen : kept[k] = input[i]
    <3>1. PICK i \in 1 .. Len(input) :
              /\ input[i] = kept[k]
              /\ \A j \in 1 .. Len(input) : PathOf[input[j]] = PathOf[kept[k]] => i <= j
      BY DEF FirstInv, FirstOfPath
    <3>2. PathOf[kept[k]] \in Paths(kept)
      BY DEF Paths
    <3>3. ASSUME NEW j \in 1 .. Len(input), <<PathOf[input[j]], PathOf[kept[k]]>> \in Inside
          PROVE  PathOf[input[j]] = PathOf[kept[k]]
      <4>1. PathOf[input[j]] \in Paths(input)
        BY DEF Paths
      <4> QED
        BY <3>2, <3>3, <4>1 DEF KeptIsOutermost
    <3>4. i \in Outer!Chosen
      BY <3>1, <3>3 DEF Outer!Chosen, Outer!SamePath
    <3> QED
      BY <3>1, <3>4
  <2>4. ASSUME NEW j \in 1 .. Len(kept), NEW k \in 1 .. Len(kept), j < k
        PROVE  /\ PathOf[kept[j]] # PathOf[kept[k]]
               /\ <<PathOf[kept[j]], PathOf[kept[k]]>> \in Before
    BY <2>1, <2>4 DEF KeptIsOutermost, IInv, KeptBehind
  <2> QED
    BY <2>1, <2>2, <2>3, <2>4 DEF Promise
<1> QED
  BY <1>1, InvHolds, FirstInvHolds, KeptIsOutermostHolds, FirstTargetWinsHolds, PTL

(* For every list of candidates the sort and the loop do in many steps     *)
(* what Outermost does in one (main.rs dedupe_nested and its comment).     *)
THEOREM DedupeImplementsOutermost == Spec => ImplementsOutermost
<1>1. Init => Outer!Init
  <2> SUFFICES ASSUME Init PROVE Outer!Init
    OBVIOUS
  <2>1. next = 0 /\ Len(cands) \in Nat /\ input \in Inputs
    BY CandidateAssumption DEF Init
  <2>2. ~Done
    BY <2>1 DEF Done
  <2> QED
    BY <2>1, <2>2 DEF Outer!Init
<1>2. TypeOK /\ Promise' /\ [Next]_vars => [Outer!Choose]_(Outer!vars)
  <2> SUFFICES ASSUME TypeOK, Promise', [Next]_vars PROVE [Outer!Choose]_(Outer!vars)
    OBVIOUS
  <2>1. next \in Nat /\ Len(cands) \in Nat
    BY DEF TypeOK
  <2>2. CASE Done
    <3>1. UNCHANGED vars
      BY <2>1, <2>2 DEF Next, Sort, Drop, Keep, Looping, Done
    <3> QED
      BY <3>1 DEF vars, Done, Outer!vars
  <2>3. CASE ~Done /\ ~Done'
    <3>1. UNCHANGED input
      BY DEF Next, Sort, Drop, Keep, vars
    <3> QED
      BY <2>3, <3>1 DEF Outer!vars, Done
  <2>4. CASE ~Done /\ Done'
    <3>1. UNCHANGED input
      BY DEF Next, Sort, Drop, Keep, vars
    <3>2. Outer!Chosen' = Outer!Chosen
      BY <3>1 DEF Outer!Chosen, Outer!SamePath
    <3>3. Outer!Choose
      BY <2>4, <3>1, <3>2 DEF Promise, Outer!Choose
    <3> QED
      BY <3>3
  <2> QED
    BY <2>2, <2>3, <2>4
<1>3. IInv => TypeOK
  BY DEF IInv
<1> QED
  BY <1>1, <1>2, <1>3, InvHolds, PromiseHolds, PTL DEF Spec, ImplementsOutermost, Outer!Spec

(* Every variable of the loop keeps its type (main.rs dedupe_nested).      *)
THEOREM DedupeTypeCorrect == Spec => []TypeOK
<1>1. IInv => TypeOK
  BY DEF IInv
<1> QED
  BY <1>1, InvHolds, PTL
=============================================================================
