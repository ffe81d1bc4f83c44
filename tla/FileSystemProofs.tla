-------------------------- MODULE FileSystemProofs --------------------------
(* Proofs about paths and file systems, for any names: what Dedupe assumes *)
(* of Path::cmp and Path::starts_with is what comparing component by       *)
(* component gives; where a walk ends, and what a removal leaves.          *)
EXTENDS FileSystem, WellFoundedInduction, FiniteSetTheorems, SequenceTheorems, TLAPS

AgreeTo(p, q, n) == \A j \in 1 .. n : p[j] = q[j]

LEMMA RankType ==
    /\ \A c \in Component : Rank(c) \in Nat
    /\ \A c, d \in Component : Rank(c) = Rank(d) => c = d
<1> DEFINE place(c) == CHOOSE i \in DOMAIN Names : Names[i] = c
<1>1. \A c \in Component \ Special : place(c) \in Nat \ {0} /\ Names[place(c)] = c
  BY NamesAssumption DEF Component
<1>2. \A c \in Component \ Special : Rank(c) = 2 + place(c)
  BY DEF Rank, Special
<1>3. Rank("/") = 0 /\ Rank(".") = 1 /\ Rank("..") = 2
  BY DEF Rank
<1> HIDE DEF place
<1> QED
  BY <1>1, <1>2, <1>3 DEF Special

LEMMA Prefix ==
    ASSUME NEW p \in Path, NEW q \in Path
    PROVE  StartsWith(q, p) <=> Len(p) <= Len(q) /\ AgreeTo(p, q, Len(p))
  BY DEF StartsWith, IsPrefix, AgreeTo, Path

(* The two ways for p to come before q.                                    *)
Shorter(p, q)   == Len(p) < Len(q) /\ AgreeTo(p, q, Len(p))
Smaller(p, q, i) == Rank(p[i]) < Rank(q[i]) /\ AgreeTo(p, q, i - 1)
Less(p, q) == Shorter(p, q) \/ \E i \in DOMAIN p \cap DOMAIN q : Smaller(p, q, i)

LEMMA PrecedesIsLess ==
    ASSUME NEW p \in Path, NEW q \in Path
    PROVE  Precedes(p, q) <=> Less(p, q)
<1>1. IsStrictPrefix(p, q) <=> Shorter(p, q)
  <2>1. p # q /\ Len(p) <= Len(q) /\ AgreeTo(p, q, Len(p)) => Len(p) < Len(q)
    BY DEF AgreeTo, Path
  <2> QED
    BY <2>1, Prefix DEF StartsWith, IsStrictPrefix, Shorter, Path
<1>2. ASSUME NEW i \in DOMAIN p \cap DOMAIN q
      PROVE  SubSeq(p, 1, i - 1) = SubSeq(q, 1, i - 1) <=> AgreeTo(p, q, i - 1)
  <2> DEFINE u == SubSeq(p, 1, i - 1)
             v == SubSeq(q, 1, i - 1)
  <2>1. i \in Nat \ {0} /\ i <= Len(p) /\ i <= Len(q)
    BY DEF Path
  <2>2. /\ u \in Path /\ Len(u) = i - 1 /\ \A j \in 1 .. i - 1 : u[j] = p[j]
        /\ v \in Path /\ Len(v) = i - 1 /\ \A j \in 1 .. i - 1 : v[j] = q[j]
    BY <2>1 DEF Path
  <2> HIDE DEF u, v
  <2>3. u = v <=> \A j \in 1 .. i - 1 : u[j] = v[j]
    BY <2>1, <2>2 DEF Path
  <2> QED
    BY <2>2, <2>3 DEF AgreeTo, u, v
<1> QED
  BY <1>1, <1>2 DEF Precedes, Less, Smaller

LEMMA LessTotal ==
    ASSUME NEW p \in Path, NEW q \in Path, p # q
    PROVE  Less(p, q) \/ Less(q, p)
<1> DEFINE D == {i \in DOMAIN p \cap DOMAIN q : p[i] # q[i]}
<1>1. CASE D = {}
  <2>1. Len(p) # Len(q)
    BY <1>1 DEF Path
  <2>2. Shorter(p, q) \/ Shorter(q, p)
    BY <1>1, <2>1 DEF Shorter, AgreeTo, Path
  <2> QED
    BY <2>2 DEF Less
<1>2. CASE D # {}
  <2>1. D \subseteq Nat
    BY DEF Path
  <2>2. \E i \in D : \A j \in D : ~(<<j, i>> \in OpToRel(<, Nat))
    BY <1>2, <2>1, NatLessThanWellFounded, WFMin
  <2>3. PICK i \in D : \A j \in D : ~(j < i)
    BY <2>1, <2>2 DEF OpToRel
  <2>4. AgreeTo(p, q, i - 1) /\ AgreeTo(q, p, i - 1)
    BY <2>3 DEF AgreeTo, Path
  <2>5. p[i] \in Component /\ q[i] \in Component /\ p[i] # q[i]
    BY <2>3 DEF Path
  <2>6. Rank(p[i]) < Rank(q[i]) \/ Rank(q[i]) < Rank(p[i])
    BY <2>5, RankType
  <2> QED
    BY <2>3, <2>4, <2>6 DEF Less, Smaller
<1> QED
  BY <1>1, <1>2

LEMMA LessTransitive ==
    ASSUME NEW p \in Path, NEW q \in Path, NEW r \in Path, Less(p, q), Less(q, r)
    PROVE  Less(p, r)
<1>1. /\ \A i \in DOMAIN p : Rank(p[i]) \in Nat
      /\ \A i \in DOMAIN q : Rank(q[i]) \in Nat
      /\ \A i \in DOMAIN r : Rank(r[i]) \in Nat
  BY RankType DEF Path
<1>2. CASE Shorter(p, q) /\ Shorter(q, r)
  BY <1>2 DEF Shorter, Less, AgreeTo, Path
<1>3. ASSUME Shorter(p, q), NEW i \in DOMAIN q \cap DOMAIN r, Smaller(q, r, i) PROVE Less(p, r)
  <2>1. CASE i \in DOMAIN p
    <3>1. Smaller(p, r, i)
      BY <1>3, <2>1 DEF Shorter, Smaller, AgreeTo, Path
    <3> QED
      BY <2>1, <3>1 DEF Less
  <2>2. CASE i \notin DOMAIN p
    <3>1. Shorter(p, r)
      BY <1>3, <2>2 DEF Shorter, Smaller, AgreeTo, Path
    <3> QED
      BY <3>1 DEF Less
  <2> QED
    BY <2>1, <2>2
<1>4. ASSUME NEW i \in DOMAIN p \cap DOMAIN q, Smaller(p, q, i), Shorter(q, r) PROVE Less(p, r)
  <2>1. i \in DOMAIN r /\ Smaller(p, r, i)
    BY <1>4 DEF Shorter, Smaller, AgreeTo, Path
  <2> QED
    BY <2>1 DEF Less
<1>5. ASSUME NEW i \in DOMAIN p \cap DOMAIN q, Smaller(p, q, i),
             NEW k \in DOMAIN q \cap DOMAIN r, Smaller(q, r, k)
      PROVE  Less(p, r)
  <2>1. CASE i < k
    <3>1. i \in DOMAIN r /\ Smaller(p, r, i)
      BY <1>5, <2>1 DEF Smaller, AgreeTo, Path
    <3> QED
      BY <3>1 DEF Less
  <2>2. CASE k < i
    <3>1. k \in DOMAIN p /\ Smaller(p, r, k)
      BY <1>5, <2>2 DEF Smaller, AgreeTo, Path
    <3> QED
      BY <3>1 DEF Less
  <2>3. CASE i = k
    <3>1. Smaller(p, r, i)
      BY <1>1, <1>5, <2>3 DEF Smaller, AgreeTo, Path
    <3> QED
      BY <2>3, <3>1 DEF Less
  <2> QED
    BY <2>1, <2>2, <2>3 DEF Path
<1> QED
  BY <1>2, <1>3, <1>4, <1>5 DEF Less

LEMMA LessIrreflexive == ASSUME NEW p \in Path PROVE ~Less(p, p)
  BY RankType DEF Less, Shorter, Smaller, Path

-----------------------------------------------------------------------------
(* The relations Dedupe is parameterised by.                               *)
Before == {pq \in Path \X Path : pq[1] = pq[2] \/ Precedes(pq[1], pq[2])}
Inside == {pq \in Path \X Path : StartsWith(pq[2], pq[1])}

LEMMA InBefore ==
    ASSUME NEW p \in Path, NEW q \in Path
    PROVE  <<p, q>> \in Before <=> p = q \/ Less(p, q)
  BY PrecedesIsLess DEF Before

LEMMA InInside ==
    ASSUME NEW p \in Path, NEW q \in Path
    PROVE  <<p, q>> \in Inside <=> Len(p) <= Len(q) /\ AgreeTo(p, q, Len(p))
  BY Prefix DEF Inside

(* Path::cmp is a total order (OrderAssumption of Dedupe; main.rs          *)
(* dedupe_nested sorts by it).                                             *)
THEOREM PathsAreOrdered ==
    /\ Before \subseteq Path \X Path
    /\ \A p, q \in Path : <<p, q>> \in Before \/ <<q, p>> \in Before
    /\ \A p, q \in Path : <<p, q>> \in Before /\ <<q, p>> \in Before => p = q
    /\ \A p, q, r \in Path :
           <<p, q>> \in Before /\ <<q, r>> \in Before => <<p, r>> \in Before
<1>1. Before \subseteq Path \X Path
  BY DEF Before
<1>2. \A p, q \in Path : <<p, q>> \in Before \/ <<q, p>> \in Before
  BY InBefore, LessTotal
<1>3. \A p, q \in Path : <<p, q>> \in Before /\ <<q, p>> \in Before => p = q
  BY InBefore, LessTransitive, LessIrreflexive
<1>4. \A p, q, r \in Path : <<p, q>> \in Before /\ <<q, r>> \in Before => <<p, r>> \in Before
  BY InBefore, LessTransitive
<1> QED
  BY <1>1, <1>2, <1>3, <1>4

(* What starts_with says agrees with that order: a directory comes before  *)
(* all that is in it, and only what is in it comes in between              *)
(* (InsideAssumption of Dedupe; main.rs dedupe_nested only looks back at   *)
(* what it has kept).                                                      *)
THEOREM StartsWithAgrees ==
    /\ Inside \subseteq Before
    /\ \A p \in Path : <<p, p>> \in Inside
    /\ \A p, q, r \in Path :
           <<p, q>> \in Inside /\ <<q, r>> \in Inside => <<p, r>> \in Inside
    /\ \A p, q, r \in Path :
           <<p, r>> \in Inside /\ <<p, q>> \in Before /\ <<q, r>> \in Before
               => <<p, q>> \in Inside
<1>1. ASSUME NEW p \in Path, NEW q \in Path, <<p, q>> \in Inside PROVE <<p, q>> \in Before
  <2>1. Len(p) <= Len(q) /\ AgreeTo(p, q, Len(p))
    BY <1>1, InInside
  <2>2. Len(p) = Len(q) => p = q
    BY <2>1 DEF AgreeTo, Path
  <2>3. Len(p) < Len(q) => Less(p, q)
    BY <2>1 DEF Less, Shorter
  <2> QED
    BY <2>1, <2>2, <2>3, InBefore DEF Path
<1>2. \A p \in Path : <<p, p>> \in Inside
  BY InInside DEF AgreeTo, Path
<1>3. ASSUME NEW p \in Path, NEW q \in Path, NEW r \in Path, <<p, q>> \in Inside, <<q, r>> \in Inside
      PROVE  <<p, r>> \in Inside
  <2>1. /\ Len(p) <= Len(q) /\ AgreeTo(p, q, Len(p))
        /\ Len(q) <= Len(r) /\ AgreeTo(q, r, Len(q))
    BY <1>3, InInside
  <2>2. Len(p) <= Len(r) /\ AgreeTo(p, r, Len(p))
    BY <2>1 DEF AgreeTo, Path
  <2> QED
    BY <2>2, InInside
<1>4. ASSUME NEW p \in Path, NEW q \in Path, NEW r \in Path,
             <<p, r>> \in Inside, <<p, q>> \in Before, <<q, r>> \in Before
      PROVE  <<p, q>> \in Inside
  <2>1. Len(p) <= Len(r) /\ AgreeTo(p, r, Len(p))
    BY <1>4, InInside
  <2>2. CASE p = q \/ Shorter(p, q)
    BY <1>2, <2>2, InInside DEF Shorter, Path
  <2>3. ASSUME NEW i \in DOMAIN p \cap DOMAIN q, Smaller(p, q, i) PROVE FALSE
    <3>1. i \in DOMAIN r /\ Smaller(r, q, i)
      BY <2>1, <2>3 DEF Smaller, AgreeTo, Path
    <3>2. Less(r, q)
      BY <3>1 DEF Less
    <3>3. q = r \/ Less(q, r)
      BY <1>4, InBefore
    <3> QED
      BY <3>2, <3>3, LessTransitive, LessIrreflexive
  <2>4. p = q \/ Less(p, q)
    BY <1>4, InBefore
  <2> QED
    BY <2>2, <2>3, <2>4 DEF Less
<1> QED
  BY <1>1, <1>2, <1>3, <1>4 DEF Inside

(* Induction, as a fact about sets: over the naturals, and over sequences  *)
(* from the front to the end.                                              *)
LEMMA NatInduct ==
    ASSUME NEW A, 0 \in A, \A n \in Nat : n \in A => n + 1 \in A
    PROVE  Nat \subseteq A
<1> SUFFICES ASSUME Nat \ A # {} PROVE FALSE
  OBVIOUS
<1>1. \E n \in Nat \ A : \A m \in Nat \ A : ~(<<m, n>> \in OpToRel(<, Nat))
  BY NatLessThanWellFounded, WFMin
<1>2. PICK n \in Nat \ A : \A m \in Nat \ A : ~(m < n)
  BY <1>1 DEF OpToRel
<1>3. n # 0 /\ n - 1 \in Nat /\ n - 1 \in A
  BY <1>2
<1> QED
  BY <1>2, <1>3

LEMMA SeqInduct ==
    ASSUME NEW S, NEW A, << >> \in A,
           \A p \in Seq(S) : \A c \in S : p \in A => Append(p, c) \in A
    PROVE  Seq(S) \subseteq A
<1> DEFINE B == {n \in Nat : \A p \in Seq(S) : Len(p) = n => p \in A}
<1>1. 0 \in B
  OBVIOUS
<1>2. ASSUME NEW n \in Nat, n \in B PROVE n + 1 \in B
  <2> SUFFICES ASSUME NEW p \in Seq(S), Len(p) = n + 1 PROVE p \in A
    OBVIOUS
  <2> DEFINE f == SubSeq(p, 1, n)
  <2>1. f \in Seq(S) /\ Len(f) = n /\ p[n + 1] \in S /\ p = Append(f, p[n + 1])
    OBVIOUS
  <2>2. f \in A
    BY <1>2, <2>1
  <2> QED
    BY <2>1, <2>2
<1> HIDE DEF B
<1>3. Nat \subseteq B
  BY <1>1, <1>2, NatInduct
<1> QED
  BY <1>3 DEF B

(* A function may be defined from each value to the next: D says how.      *)
Iterated(n, S, b, D) ==
    \E f \in [0 .. n -> S] : f[0] = b /\ \A i \in 1 .. n : f[i] = D[i][f[i - 1]]

LEMMA Recursion ==
    ASSUME NEW n \in Nat, NEW S, NEW b \in S, NEW D \in [1 .. n -> [S -> S]]
    PROVE  Iterated(n, S, b, D)
<1> DEFINE Upto(f, m) == f[0] = b /\ \A i \in 1 .. m : f[i] = D[i][f[i - 1]]
           A == {m \in Nat : m <= n => \E f \in [0 .. m -> S] : Upto(f, m)}
<1>1. 0 \in A
  <2>1. Upto([i \in 0 .. 0 |-> b], 0)
    OBVIOUS
  <2> QED
    BY <2>1
<1>2. ASSUME NEW m \in Nat, m \in A PROVE m + 1 \in A
  <2> SUFFICES ASSUME m + 1 <= n PROVE \E f \in [0 .. m + 1 -> S] : Upto(f, m + 1)
    OBVIOUS
  <2>1. PICK f \in [0 .. m -> S] : Upto(f, m)
    BY <1>2
  <2> DEFINE g == [i \in 0 .. m + 1 |-> IF i <= m THEN f[i] ELSE D[m + 1][f[m]]]
  <2>2. f[m] \in S /\ m + 1 \in 1 .. n
    OBVIOUS
  <2>3. D[m + 1][f[m]] \in S
    BY <2>2
  <2>4. g \in [0 .. m + 1 -> S] /\ \A i \in 0 .. m : g[i] = f[i]
    BY <2>3
  <2>5. g[m + 1] = D[m + 1][f[m]]
    OBVIOUS
  <2> HIDE DEF g
  <2>6. g[0] = b
    BY <2>1, <2>4
  <2>7. ASSUME NEW i \in 1 .. m + 1 PROVE g[i] = D[i][g[i - 1]]
    <3>1. CASE i = m + 1
      BY <2>4, <2>5, <3>1
    <3>2. CASE i \in 1 .. m
      <4>1. i - 1 \in 0 .. m /\ i \in 0 .. m
        BY <3>2
      <4> QED
        BY <2>1, <2>4, <3>2, <4>1
    <3> QED
      BY <3>1, <3>2
  <2>8. g \in [0 .. m + 1 -> S]
    BY <2>4
  <2> QED
    BY <2>6, <2>7, <2>8
<1> HIDE DEF A
<1>3. n \in A
  BY <1>1, <1>2, NatInduct
<1> QED
  BY <1>3 DEF A, Iterated

(* There is only one.                                                      *)
Follows(n, f, g) ==
    /\ g = [i \in 0 .. n |-> g[i]]
    /\ g[0] = f[0]
    /\ \A m \in Nat : m < n /\ g[m] = f[m] => g[m + 1] = f[m + 1]

LEMMA SameRecursion ==
    ASSUME NEW n \in Nat, NEW S, NEW f \in [0 .. n -> S],
           NEW g, Follows(n, f, g)
    PROVE  g = f
<1> DEFINE A == {m \in Nat : m <= n => g[m] = f[m]}
<1>1. 0 \in A
  BY DEF Follows
<1>2. ASSUME NEW m \in Nat, m \in A PROVE m + 1 \in A
  <2> SUFFICES ASSUME m + 1 <= n PROVE g[m + 1] = f[m + 1]
    OBVIOUS
  <2>1. m < n /\ g[m] = f[m]
    BY <1>2
  <2> QED
    BY <2>1 DEF Follows
<1> HIDE DEF A
<1>3. Nat \subseteq A
  BY <1>1, <1>2, NatInduct
<1>4. \A i \in 0 .. n : g[i] = f[i]
  BY <1>3 DEF A
<1> QED
  BY <1>4 DEF Follows

-----------------------------------------------------------------------------
(* The walk.                                                               *)
Places(fs) == DOMAIN fs \cup {Nowhere}

LEMMA WellFormedParts ==
    ASSUME NEW fs, WellFormed(fs)
    PROVE  /\ IsFiniteSet(DOMAIN fs) /\ <<"/">> \in DOMAIN fs /\ DOMAIN fs \subseteq Path
           /\ \A q \in DOMAIN fs :
                  /\ q # Nowhere /\ fs[q] \in Nodes
                  /\ q # <<"/">> => /\ Len(q) > 1 /\ Last(q) \notin Special
                                    /\ Parent(q) \in DOMAIN fs /\ fs[Parent(q)].type = "dir"
<1>1. ASSUME NEW q \in DOMAIN fs PROVE q # Nowhere
  BY DEF WellFormed, HasName, Nowhere
<1> QED
  BY <1>1 DEF WellFormed, HasName

LEMMA StepStays ==
    ASSUME NEW fs, WellFormed(fs), NEW at \in Places(fs), NEW c
    PROVE  Step(fs, at, c) \in Places(fs)
<1>1. at # <<"/">> /\ at # Nowhere => Parent(at) \in DOMAIN fs
  BY WellFormedParts DEF Places
<1>2. Lookup(fs, at, c) \in Places(fs)
  BY DEF Lookup, Places
<1>3. <<"/">> \in Places(fs)
  BY WellFormedParts DEF Places
<1> QED
  BY <1>1, <1>2, <1>3 DEF Step, Places

(* A walk goes through places of the file system, component by component.  *)
IsWalk(fs, start, p, at) ==
    /\ at \in [0 .. Len(p) -> Places(fs)]
    /\ at[0] = start
    /\ \A i \in 1 .. Len(p) : at[i] = Step(fs, at[i - 1], p[i])
    /\ WalkFrom(fs, start, p) = at[Len(p)]

LEMMA WalkAlong ==
    ASSUME NEW fs, WellFormed(fs), NEW start \in Places(fs), NEW X, NEW p \in Seq(X)
    PROVE  \E at : IsWalk(fs, start, p, at)
<1> DEFINE n == Len(p)
           S == Places(fs)
           D == [i \in 1 .. n |-> [s \in S |-> Step(fs, s, p[i])]]
<1>1. n \in Nat
  OBVIOUS
<1>2. D \in [1 .. n -> [S -> S]] /\ start \in S
  BY StepStays
<1>3. \A i \in 1 .. n : \A s \in S : D[i][s] = Step(fs, s, p[i])
  OBVIOUS
<1> HIDE DEF D, n, S
<1>4. Iterated(n, S, start, D)
  BY <1>1, <1>2, Recursion
<1>5. PICK f \in [0 .. n -> S] : f[0] = start /\ \A i \in 1 .. n : f[i] = D[i][f[i - 1]]
  BY <1>4 DEF Iterated
<1>6. \A i \in 1 .. n : f[i] = Step(fs, f[i - 1], p[i])
  <2>1. \A i \in 1 .. n : f[i - 1] \in S
    BY <1>1
  <2> QED
    BY <1>3, <1>5, <2>1
<1> DEFINE E(g) == [i \in 0 .. Len(p) |-> IF i = 0 THEN start ELSE Step(fs, g[i - 1], p[i])]
           at   == CHOOSE g : g = E(g)
<1>7. f = E(f)
  BY <1>1, <1>5, <1>6 DEF n
<1>8. at = E(at)
  <2> HIDE DEF E
  <2> QED
    BY <1>7
<1>9. WalkFrom(fs, start, p) = at[Len(p)]
  BY DEF WalkFrom
<1> HIDE DEF at
<1>10. DOMAIN at = 0 .. n /\ \A i \in 0 .. n : at[i] = IF i = 0 THEN start ELSE Step(fs, at[i - 1], p[i])
  BY <1>8 DEF n
<1>11. at[0] = start /\ \A i \in 1 .. n : at[i] = Step(fs, at[i - 1], p[i])
  BY <1>1, <1>10
<1>12. at = [i \in 0 .. n |-> at[i]]
  BY <1>8, <1>10 DEF n
<1> HIDE DEF E
<1>13. ASSUME NEW m \in Nat, m < n, at[m] = f[m] PROVE at[m + 1] = f[m + 1]
  BY <1>1, <1>6, <1>11, <1>13
<1>14. Follows(n, f, at)
  BY <1>5, <1>11, <1>12, <1>13 DEF Follows
<1>15. at = f
  BY <1>1, <1>14, SameRecursion
<1> QED
  BY <1>9, <1>11, <1>15 DEF n, S, IsWalk

LEMMA WalkSteps ==
    ASSUME NEW fs, WellFormed(fs), NEW start \in Places(fs), NEW p \in Path
    PROVE  \E at : IsWalk(fs, start, p, at)
BY WalkAlong DEF Path

LEMMA WalkEmpty ==
    ASSUME NEW fs, WellFormed(fs), NEW start \in Places(fs)
    PROVE  WalkFrom(fs, start, << >>) = start
<1>1. << >> \in Path
  BY DEF Path
<1>2. PICK at : IsWalk(fs, start, << >>, at)
  BY <1>1, WalkSteps
<1> QED
  BY <1>2 DEF IsWalk

LEMMA WalkAppend ==
    ASSUME NEW fs, WellFormed(fs), NEW start \in Places(fs), NEW p \in Path, NEW c
    PROVE  /\ WalkFrom(fs, start, p) \in Places(fs)
           /\ WalkFrom(fs, start, Append(p, c)) = Step(fs, WalkFrom(fs, start, p), c)
<1> DEFINE n == Len(p)
           X == Component \cup {c}
           q == Append(p, c)
<1>1. /\ n \in Nat /\ p \in Seq(X) /\ q \in Seq(X)
      /\ Len(q) = n + 1 /\ q[n + 1] = c /\ \A i \in 1 .. n : q[i] = p[i]
  BY DEF Path
<1> HIDE DEF n, X, q
<1>2. PICK f : IsWalk(fs, start, p, f)
  BY WalkSteps
<1>3. PICK g : IsWalk(fs, start, q, g)
  BY <1>1, WalkAlong
<1>4. \A i \in 0 .. n : g[i] = f[i]
  <2> DEFINE A == {m \in Nat : m <= n => g[m] = f[m]}
  <2>1. 0 \in A
    BY <1>2, <1>3 DEF IsWalk
  <2>2. ASSUME NEW m \in Nat, m \in A PROVE m + 1 \in A
    <3> SUFFICES ASSUME m + 1 <= n PROVE g[m + 1] = f[m + 1]
      OBVIOUS
    <3>1. m + 1 \in 1 .. Len(p) /\ m + 1 \in 1 .. Len(q) /\ m + 1 - 1 = m
      BY <1>1 DEF n
    <3>2. g[m + 1] = Step(fs, g[m], q[m + 1]) /\ f[m + 1] = Step(fs, f[m], p[m + 1])
      BY <1>2, <1>3, <3>1 DEF IsWalk
    <3>3. q[m + 1] = p[m + 1] /\ g[m] = f[m]
      BY <1>1, <2>2, <3>1
    <3> QED
      BY <3>2, <3>3
  <2> HIDE DEF A
  <2>3. Nat \subseteq A
    BY <2>1, <2>2, NatInduct
  <2> QED
    BY <1>1, <2>3 DEF A
<1>5. WalkFrom(fs, start, p) = f[n] /\ f[n] \in Places(fs)
  BY <1>1, <1>2 DEF IsWalk, n
<1>6. WalkFrom(fs, start, q) = Step(fs, g[n], c)
  BY <1>1, <1>3 DEF IsWalk
<1> QED
  BY <1>1, <1>4, <1>5, <1>6 DEF q

LEMMA WalkStays ==
    ASSUME NEW fs, WellFormed(fs), NEW start \in Places(fs), NEW p \in Path
    PROVE  WalkFrom(fs, start, p) \in Places(fs)
<1>1. PICK at : IsWalk(fs, start, p, at)
  BY WalkSteps
<1>2. Len(p) \in Nat
  BY DEF Path
<1> QED
  BY <1>1, <1>2 DEF IsWalk

(* A walk along two paths in a row.                                        *)
LEMMA WalkConcat ==
    ASSUME NEW fs, WellFormed(fs), NEW start \in Places(fs), NEW p \in Path, NEW q \in Path
    PROVE  WalkFrom(fs, start, p \o q) = WalkFrom(fs, WalkFrom(fs, start, p), q)
<1> DEFINE there == WalkFrom(fs, start, p)
           A     == {r \in Path : WalkFrom(fs, start, p \o r) = WalkFrom(fs, there, r)}
<1>1. there \in Places(fs)
  BY WalkStays
<1> HIDE DEF there
<1>2. << >> \in A
  <2>1. p \o << >> = p /\ << >> \in Path
    BY DEF Path
  <2> QED
    BY <1>1, <2>1, WalkEmpty DEF there
<1>3. ASSUME NEW r \in Path, NEW c \in Component, r \in A PROVE Append(r, c) \in A
  <2>1. p \o Append(r, c) = Append(p \o r, c) /\ p \o r \in Path /\ Append(r, c) \in Path
    BY DEF Path
  <2>2. WalkFrom(fs, start, Append(p \o r, c)) = Step(fs, WalkFrom(fs, start, p \o r), c)
    BY <2>1, WalkAppend
  <2>3. WalkFrom(fs, there, Append(r, c)) = Step(fs, WalkFrom(fs, there, r), c)
    BY <1>1, WalkAppend
  <2> QED
    BY <1>3, <2>1, <2>2, <2>3
<1> HIDE DEF A
<1>4. Path \subseteq A
  BY <1>2, <1>3, SeqInduct DEF Path
<1> QED
  BY <1>4 DEF A, there

-----------------------------------------------------------------------------
(* A file system from which entries have been removed.                     *)
Remains(fs, old) ==
    /\ DOMAIN fs \subseteq DOMAIN old
    /\ \A q \in DOMAIN fs :
           /\ fs[q].type = old[q].type /\ fs[q].mode = old[q].mode /\ fs[q].to = old[q].to
           /\ fs[q].len = old[q].len /\ fs[q].alloc = old[q].alloc
           /\ fs[q].type = "dir" \/ fs[q].mtime = old[q].mtime

LEMMA LookupRemains ==
    ASSUME NEW fs, WellFormed(fs), NEW old, Remains(fs, old), NEW d \in DOMAIN fs, NEW c,
           Lookup(fs, d, c) # Nowhere
    PROVE  Lookup(old, d, c) = Lookup(fs, d, c)
  BY DEF Lookup, Remains

LEMMA StepRemains ==
    ASSUME NEW fs, WellFormed(fs), NEW old, Remains(fs, old), NEW at \in Places(fs), NEW c,
           Step(fs, at, c) # Nowhere
    PROVE  Step(old, at, c) = Step(fs, at, c)
<1>1. CASE at = Nowhere
  BY <1>1 DEF Step
<1>2. CASE at # Nowhere /\ c \notin Special
  <2>1. at \in DOMAIN fs /\ Lookup(fs, at, c) # Nowhere
    BY <1>2 DEF Places, Step, Special
  <2>2. Lookup(old, at, c) = Lookup(fs, at, c)
    BY <2>1, LookupRemains
  <2> QED
    BY <1>2, <2>2 DEF Step, Special
<1>3. CASE at # Nowhere /\ c \in Special
  BY <1>3 DEF Step, Special
<1> QED
  BY <1>1, <1>2, <1>3

(* Where a walk still leads, it led before.                                *)
LEMMA WalkRemains ==
    ASSUME NEW fs, WellFormed(fs), NEW old, WellFormed(old), Remains(fs, old), NEW p \in Path,
           WalkFrom(fs, Here(fs), p) # Nowhere
    PROVE  WalkFrom(old, Here(old), p) = WalkFrom(fs, Here(fs), p)
<1> DEFINE new(r) == WalkFrom(fs, Here(fs), r)
           was(r) == WalkFrom(old, Here(old), r)
           A == {r \in Path : new(r) = Nowhere \/ was(r) = new(r)}
<1>1. Here(fs) \in Places(fs) /\ Here(old) \in Places(old)
  BY DEF Here, Places
<1>2. << >> \in A
  <2>1. new(<< >>) = Here(fs) /\ was(<< >>) = Here(old)
    BY <1>1, WalkEmpty
  <2>2. << >> \in Path
    BY DEF Path
  <2> QED
    BY <2>1, <2>2 DEF Here, Remains
<1>3. ASSUME NEW r \in Path, NEW c \in Component, r \in A PROVE Append(r, c) \in A
  <2>1. Append(r, c) \in Path
    BY DEF Path
  <2>2. /\ new(r) \in Places(fs) /\ new(Append(r, c)) = Step(fs, new(r), c)
        /\ was(r) \in Places(old) /\ was(Append(r, c)) = Step(old, was(r), c)
    BY <1>1, WalkAppend
  <2> HIDE DEF new, was
  <2> SUFFICES ASSUME new(Append(r, c)) # Nowhere PROVE was(Append(r, c)) = new(Append(r, c))
    BY <2>1
  <2>3. CASE new(r) = was(r)
    BY <2>2, <2>3, StepRemains
  <2>4. CASE new(r) = Nowhere
    BY <2>2, <2>4 DEF Step
  <2> QED
    BY <1>3, <2>3, <2>4
<1> HIDE DEF A
<1>4. Path \subseteq A
  BY <1>2, <1>3, SeqInduct DEF Path
<1> QED
  BY <1>4 DEF A

LEMMA HereStays == ASSUME NEW fs PROVE Here(fs) \in Places(fs)
  BY DEF Here, Places

LEMMA EntryRemains ==
    ASSUME NEW fs, WellFormed(fs), NEW old, WellFormed(old), Remains(fs, old), NEW p \in Path,
           Entry(fs, p) # Nowhere
    PROVE  Entry(old, p) = Entry(fs, p)
<1>1. CASE ~HasName(p)
  BY <1>1, WalkRemains DEF Entry, Walk
<1>2. CASE HasName(p)
  <2> DEFINE d == WalkFrom(fs, Here(fs), Parent(p))
  <2>1. Parent(p) \in Path
    BY <1>2 DEF HasName, Parent, Front, Path
  <2>2. d \in Places(fs)
    BY <2>1, HereStays, WalkStays
  <2>3. d # Nowhere /\ Append(d, Last(p)) \in DOMAIN fs /\ fs[d].mode # "none"
    BY <1>2 DEF Entry
  <2>4. WalkFrom(old, Here(old), Parent(p)) = d
    BY <2>1, <2>3, WalkRemains
  <2> HIDE DEF d
  <2>5. Append(d, Last(p)) \in DOMAIN old /\ old[d].mode # "none"
    BY <2>2, <2>3 DEF Remains, Places
  <2> QED
    BY <1>2, <2>3, <2>4, <2>5 DEF Entry, d
<1> QED
  BY <1>1, <1>2

-----------------------------------------------------------------------------
LEMMA NotRoot == ASSUME NEW r, Len(r) > 1 PROVE r # <<"/">>
<1>1. Len(r) # Len(<<"/">>)
  OBVIOUS
<1> QED
  BY <1>1, Zenon

LEMMA NotEmpty == ASSUME NEW r, Len(r) > 0 PROVE r # << >>
<1>1. Len(r) # Len(<< >>)
  OBVIOUS
<1> QED
  BY <1>1, Zenon

(* Whatever is somewhere is in directories all the way up.                 *)
LEMMA PrefixesExist ==
    ASSUME NEW fs, WellFormed(fs), NEW q \in DOMAIN fs, NEW i \in 1 .. Len(q)
    PROVE  /\ SubSeq(q, 1, i) \in DOMAIN fs
           /\ i < Len(q) => fs[SubSeq(q, 1, i)].type = "dir"
           /\ i > 1 => q[i] \notin Special
<1> DEFINE n == Len(q)
           A == {k \in Nat : k < n => /\ SubSeq(q, 1, n - k) \in DOMAIN fs
                                      /\ k > 0 => fs[SubSeq(q, 1, n - k)].type = "dir"}
<1>1. q \in Path /\ n \in Nat
  BY WellFormedParts DEF Path
<1>2. 0 \in A
  <2>1. SubSeq(q, 1, n) = q /\ n - 0 = n
    BY <1>1 DEF Path
  <2>2. SubSeq(q, 1, n - 0) \in DOMAIN fs
    BY <2>1, Zenon
  <2> QED
    BY <2>2
<1>3. ASSUME NEW k \in Nat, k \in A PROVE k + 1 \in A
  <2> SUFFICES ASSUME k + 1 < n
               PROVE  LET r == SubSeq(q, 1, n - (k + 1))
                      IN  r \in DOMAIN fs /\ fs[r].type = "dir"
    OBVIOUS
  <2> DEFINE r == SubSeq(q, 1, n - k)
  <2>1. r \in DOMAIN fs /\ Len(r) = n - k /\ Len(r) > 1
    BY <1>1, <1>3 DEF Path
  <2>2. Parent(r) = SubSeq(q, 1, n - (k + 1))
    BY <1>1, <2>1 DEF Parent, Front, Path
  <2> HIDE DEF r
  <2>3. r # <<"/">>
    BY <2>1, NotRoot
  <2> QED
    BY <2>1, <2>2, <2>3, WellFormedParts
<1> HIDE DEF A
<1>4. Nat \subseteq A
  BY <1>2, <1>3, NatInduct
<1>5. n - i \in A
  BY <1>1, <1>4
<1>6. n - (n - i) = i
  BY <1>1
<1>7. SubSeq(q, 1, i) \in DOMAIN fs /\ (i < n => fs[SubSeq(q, 1, i)].type = "dir")
  BY <1>1, <1>5, <1>6 DEF A
<1>8. i > 1 => q[i] \notin Special
  <2> DEFINE r == SubSeq(q, 1, i)
  <2>1. Len(r) = i /\ r[i] = q[i]
    BY <1>1 DEF Path
  <2>2. i > 1 => r # <<"/">>
    BY <2>1
  <2>3. i > 1 => Last(r) \notin Special
    BY <1>7, <2>2, WellFormedParts
  <2> QED
    BY <2>1, <2>3 DEF Last
<1> QED
  BY <1>7, <1>8

(* The walk from a directory down to what can be seen below it.            *)
LEMMA WalkDown ==
    ASSUME NEW fs, WellFormed(fs), NEW top \in DOMAIN fs, NEW q \in Readable(fs, top)
    PROVE  \A i \in Len(top) .. Len(q) - 1 :
               WalkFrom(fs, top, SubSeq(q, Len(top) + 1, i)) = SubSeq(q, 1, i)
<1> DEFINE m == Len(top)
           n == Len(q)
           A == {k \in Nat : m + k < n =>
                    WalkFrom(fs, top, SubSeq(q, m + 1, m + k)) = SubSeq(q, 1, m + k)}
<1>1. q \in DOMAIN fs /\ q \in Path /\ top \in Path /\ m \in Nat \ {0} /\ n \in Nat /\ top \in Places(fs)
  BY WellFormedParts DEF Readable, Tree, Path, Places, Nowhere
<1>2. m <= n /\ SubSeq(q, 1, m) = top
  <2>1. Len(top) <= Len(q) /\ AgreeTo(top, q, Len(top))
    BY <1>1, Prefix DEF Readable, Tree
  <2> QED
    BY <1>1, <2>1 DEF AgreeTo, Path
<1>3. 0 \in A
  <2>1. SubSeq(q, m + 1, m + 0) = << >> /\ m + 0 = m
    BY <1>1 DEF Path
  <2> QED
    BY <1>1, <1>2, <2>1, WalkEmpty
<1>4. ASSUME NEW k \in Nat, k \in A PROVE k + 1 \in A
  <2> SUFFICES ASSUME m + (k + 1) < n
               PROVE  WalkFrom(fs, top, SubSeq(q, m + 1, m + (k + 1))) = SubSeq(q, 1, m + (k + 1))
    OBVIOUS
  <2> DEFINE r == SubSeq(q, m + 1, m + k)
             c == q[m + (k + 1)]
             d == SubSeq(q, 1, m + k)
             e == SubSeq(q, 1, m + (k + 1))
  <2>1. /\ r \in Path /\ c \in Component
        /\ SubSeq(q, m + 1, m + (k + 1)) = Append(r, c) /\ e = Append(d, c)
    BY <1>1 DEF Path
  <2>2. WalkFrom(fs, top, r) = d
    BY <1>1, <1>4
  <2>3. /\ d \in DOMAIN fs /\ d # Nowhere /\ e \in DOMAIN fs /\ fs[e].type = "dir"
        /\ c \notin Special
    <3>1. m + k \in 1 .. n /\ m + (k + 1) \in 1 .. n /\ m + (k + 1) > 1
      BY <1>1
    <3>2. d \in DOMAIN fs /\ e \in DOMAIN fs /\ fs[e].type = "dir" /\ c \notin Special
      BY <1>1, <3>1, PrefixesExist
    <3> QED
      BY <3>2, WellFormedParts
  <2>4. fs[d].mode # "none"
    BY <1>1, <1>2 DEF Readable
  <2> HIDE DEF r, c, d, e
  <2>5. WalkFrom(fs, top, Append(r, c)) = Step(fs, d, c)
    BY <1>1, <2>1, <2>2, WalkAppend
  <2>6. Step(fs, d, c) = e
    BY <2>1, <2>3, <2>4 DEF Step, Lookup, Special
  <2> QED
    BY <2>1, <2>5, <2>6 DEF e
<1> HIDE DEF A
<1>5. Nat \subseteq A
  BY <1>3, <1>4, NatInduct
<1> SUFFICES ASSUME NEW i \in m .. n - 1 PROVE WalkFrom(fs, top, SubSeq(q, m + 1, i)) = SubSeq(q, 1, i)
  OBVIOUS
<1>6. i - m \in Nat /\ i - m \in A /\ m + (i - m) = i /\ i < n
  BY <1>1, <1>5
<1> QED
  BY <1>6 DEF A

-----------------------------------------------------------------------------
(* Ends of sequences.                                                      *)
LEMMA EndOfSubSeq ==
    ASSUME NEW S, NEW s \in Seq(S), NEW m \in Nat, m < Len(s)
    PROVE  LET t == SubSeq(s, m + 1, Len(s))
           IN  /\ t \in Seq(S) /\ Len(t) > 0 /\ Len(t) \in Nat /\ Last(t) = Last(s)
               /\ SubSeq(s, m + 1, Len(s) - 1) \in Seq(S)
               /\ Parent(t) = SubSeq(s, m + 1, Len(s) - 1)
<1> DEFINE n == Len(s)
           t == SubSeq(s, m + 1, n)
           u == SubSeq(s, m + 1, n - 1)
           v == SubSeq(t, 1, Len(t) - 1)
<1>1. /\ n \in Nat /\ t \in Seq(S) /\ Len(t) = n - m /\ \A i \in 1 .. n - m : t[i] = s[m + i]
      /\ u \in Seq(S) /\ Len(u) = n - 1 - m /\ \A i \in 1 .. n - 1 - m : u[i] = s[m + i]
  BY SMTT(20)
<1> HIDE DEF t, u, n
<1>2. v \in Seq(S) /\ Len(v) = n - m - 1 /\ \A i \in 1 .. n - m - 1 : v[i] = t[i]
  BY <1>1 DEF n
<1> HIDE DEF v
<1>3. v = u
  <2>1. Len(v) = Len(u) /\ \A i \in 1 .. Len(v) : v[i] = u[i]
    BY <1>1, <1>2 DEF n
  <2> QED
    BY <1>1, <1>2, <2>1, SeqEqual
<1>4. Last(t) = Last(s)
  BY <1>1 DEF Last, n
<1>5. Parent(t) = v
  BY DEF Parent, Front, v
<1>6. Len(t) \in Nat /\ Len(t) > 0
  BY <1>1 DEF n
<1> QED
  BY <1>1, <1>3, <1>4, <1>5, <1>6 DEF t, u, n

LEMMA EndOfConcat ==
    ASSUME NEW S, NEW s \in Seq(S), NEW t \in Seq(S), Len(t) > 0
    PROVE  /\ s \o t \in Seq(S) /\ Len(s \o t) > 0 /\ Last(s \o t) = Last(t)
           /\ Parent(s \o t) = s \o Parent(t)
<1> DEFINE m == Len(s)
           n == Len(t)
           p == s \o t
           u == SubSeq(p, 1, Len(p) - 1)
           f == SubSeq(t, 1, n - 1)
           v == s \o f
<1>1. /\ m \in Nat /\ n \in Nat /\ p \in Seq(S) /\ Len(p) = m + n
      /\ \A i \in 1 .. m + n : p[i] = IF i <= m THEN s[i] ELSE t[i - m]
  BY ConcatProperties
<1>2. f \in Seq(S) /\ Len(f) = n - 1 /\ \A i \in 1 .. n - 1 : f[i] = t[i]
  <2> HIDE DEF p, u, v
  <2>1. \A i \in 1 .. n - 1 : t[i] \in S
    OBVIOUS
  <2>2. n \in Nat /\ n > 0
    BY <1>1
  <2> HIDE DEF n
  <2>3. n - 1 \in Int /\ (1 <= n - 1 \/ n - 1 = 0)
    BY <2>2
  <2> QED
    BY <2>1, <2>3, SubSeqProperties
<1> HIDE DEF p, f
<1>3. u \in Seq(S) /\ Len(u) = m + n - 1 /\ \A i \in 1 .. m + n - 1 : u[i] = p[i]
  BY <1>1
<1>4. v \in Seq(S) /\ Len(v) = m + n - 1
      /\ \A i \in 1 .. m + n - 1 : v[i] = IF i <= m THEN s[i] ELSE f[i - m]
  <2> HIDE DEF u
  <2> QED
    BY <1>1, <1>2, ConcatProperties
<1> HIDE DEF u, v
<1>5. ASSUME NEW i \in 1 .. m + n - 1 PROVE u[i] = v[i]
  <2>1. i \in 1 .. m + n
    BY <1>1
  <2>2. i > m => i - m \in 1 .. n - 1
    BY <1>1
  <2> HIDE DEF m, n
  <2>3. CASE i <= m
    BY <1>1, <1>3, <1>4, <2>1, <2>3
  <2>4. CASE i > m
    <3>1. u[i] = t[i - m]
      BY <1>1, <1>3, <2>1, <2>4
    <3>2. v[i] = f[i - m]
      BY <1>1, <1>4, <2>4
    <3> QED
      BY <1>2, <2>2, <2>4, <3>1, <3>2
  <2> QED
    BY <1>1, <2>3, <2>4
<1>6. u = v
  <2>1. Len(v) = Len(u) /\ \A i \in 1 .. Len(u) : u[i] = v[i]
    BY <1>3, <1>4, <1>5
  <2> QED
    BY <1>3, <1>4, <2>1, SeqEqual
<1>7. Last(p) = Last(t)
  <2>1. m + n \in 1 .. m + n /\ ~(m + n <= m) /\ m + n - m = n
    BY <1>1
  <2>2. p[m + n] = t[n]
    BY <1>1, <2>1
  <2> QED
    BY <1>1, <2>2 DEF Last
<1>8. Parent(p) = u /\ Parent(t) = f
  BY DEF Parent, Front, u, f, n
<1>9. Len(p) > 0
  BY <1>1
<1> QED
  BY <1>1, <1>6, <1>7, <1>8, <1>9 DEF p, v

(* Where an entry is found.                                                *)
LEMMA EntryPlace ==
    ASSUME NEW fs, WellFormed(fs), NEW p \in Path
    PROVE  /\ Entry(fs, p) \in Places(fs)
           /\ HasName(p) => Entry(fs, p) # <<"/">>
<1>1. CASE ~HasName(p)
  BY <1>1, HereStays, WalkStays DEF Entry, Walk, Places
<1>2. CASE HasName(p)
  <2> DEFINE d == WalkFrom(fs, Here(fs), Parent(p))
  <2>1. Parent(p) \in Path
    BY <1>2 DEF HasName, Parent, Front, Path
  <2>2. d \in Places(fs)
    BY <2>1, HereStays, WalkStays
  <2>3. d # Nowhere => d \in Path /\ Len(d) > 0
    BY <2>2, WellFormedParts DEF Places, Path, Nowhere
  <2>4. Entry(fs, p) = IF d # Nowhere /\ Append(d, Last(p)) \in DOMAIN fs /\ fs[d].mode # "none"
                       THEN Append(d, Last(p)) ELSE Nowhere
    BY <1>2 DEF Entry
  <2> HIDE DEF d
  <2>5. d # Nowhere => Append(d, Last(p)) # <<"/">>
    <3>1. d # Nowhere => Len(Append(d, Last(p))) > 1
      BY <2>3 DEF Path
    <3> QED
      BY <3>1, NotRoot
  <2>6. Nowhere # <<"/">>
    BY DEF Nowhere
  <2> QED
    BY <2>4, <2>5, <2>6 DEF Places
<1> QED
  BY <1>1, <1>2

LEMMA NodeParts ==
    ASSUME NEW fs, WellFormed(fs), NEW q \in DOMAIN fs
    PROVE  /\ fs[q].type \in {"dir", "file", "link"} /\ fs[q].len \in Nat
           /\ fs[q].alloc \in Nat /\ fs[q].mtime \in Nat
  BY DEF WellFormed, Nodes

(* What read_dir lists through a path is found again through that path.    *)
LEMMA EntryOfChild ==
    ASSUME NEW fs, WellFormed(fs), NEW dir \in Path, NEW r \in Children(fs, dir)
    PROVE  /\ Append(dir, Last(r)) \in Path /\ HasName(Append(dir, Last(r)))
           /\ r \in DOMAIN fs /\ Parent(r) = Walk(fs, dir)
           /\ Entry(fs, Append(dir, Last(r))) = r
<1> DEFINE p == Append(dir, Last(r))
<1>1. /\ r \in DOMAIN fs /\ Len(r) > 1 /\ Parent(r) = Walk(fs, dir)
      /\ Walk(fs, dir) # Nowhere /\ fs[Walk(fs, dir)].mode # "none"
  BY DEF Children, is_dir, exists
<1>2. r \in Path /\ r # <<"/">> /\ Last(r) \notin Special
  BY <1>1, NotRoot, WellFormedParts
<1>3. Last(r) \in Component /\ Append(Parent(r), Last(r)) = r
  BY <1>1, <1>2 DEF Last, Parent, Front, Path
<1>4. p \in Path /\ Parent(p) = dir /\ Last(p) = Last(r) /\ p # << >>
  BY <1>3 DEF Last, Parent, Front, Path
<1>5. HasName(p)
  BY <1>2, <1>4 DEF HasName
<1>6. Walk(fs, dir) = WalkFrom(fs, Here(fs), dir)
  BY <1>1 DEF Walk, Nowhere
<1> HIDE DEF p
<1>7. Entry(fs, p) = r
  BY <1>1, <1>3, <1>4, <1>5, <1>6 DEF Entry
<1> QED
  BY <1>1, <1>4, <1>5, <1>7 DEF p

(* What a recursive read_dir sees through a path is found again, and so is *)
(* the directory it is in.                                                 *)
LEMMA EntryBelow ==
    ASSUME NEW fs, WellFormed(fs), NEW root \in Path, exists(fs, root),
           NEW r \in Readable(fs, Walk(fs, root)), r # Walk(fs, root)
    PROVE  LET top == Walk(fs, root)
               p   == root \o SubSeq(r, Len(top) + 1, Len(r))
           IN  /\ p \in Path /\ HasName(p) /\ Last(p) = Last(r) /\ Parent(p) \in Path
               /\ r \in DOMAIN fs /\ IsStrictPrefix(top, r)
               /\ WalkFrom(fs, Here(fs), Parent(p)) = Parent(r)
               /\ Entry(fs, p) = r
<1> DEFINE top  == Walk(fs, root)
           rest == SubSeq(r, Len(top) + 1, Len(r))
           mid  == SubSeq(r, Len(top) + 1, Len(r) - 1)
           p    == root \o rest
<1>1. top = WalkFrom(fs, Here(fs), root) /\ top # Nowhere
  BY DEF exists, Walk
<1>2. top \in DOMAIN fs /\ r \in DOMAIN fs /\ StartsWith(r, top)
  BY <1>1, HereStays, WalkStays DEF Places, Readable, Tree
<1>3. top \in Path /\ r \in Path /\ top # << >>
  BY <1>1, <1>2, WellFormedParts DEF Nowhere
<1>4. Len(top) \in Nat \ {0} /\ Len(r) \in Nat /\ Len(top) < Len(r) /\ AgreeTo(top, r, Len(top))
  <2>1. Len(top) <= Len(r) /\ AgreeTo(top, r, Len(top))
    BY <1>2, <1>3, Prefix
  <2>2. Len(top) # Len(r)
    BY <1>3, <2>1 DEF AgreeTo, Path
  <2> QED
    BY <1>3, <2>1, <2>2 DEF Path
<1> HIDE DEF top
<1>5. r # <<"/">>
  <2>1. Len(r) > 1
    BY <1>4
  <2> QED
    BY <2>1, NotRoot
<1>6. Last(r) \notin Special /\ Parent(r) \in DOMAIN fs
  BY <1>2, <1>5, WellFormedParts
<1>7. /\ rest \in Path /\ Len(rest) > 0 /\ Len(rest) \in Nat /\ Last(rest) = Last(r)
      /\ mid \in Path /\ Parent(rest) = mid
  BY <1>3, <1>4, EndOfSubSeq DEF Path
<1> HIDE DEF rest, mid
<1>8. p \in Path /\ p # << >> /\ Last(p) = Last(r) /\ Parent(p) = root \o mid
  <2>1. /\ p \in Path /\ Len(p) > 0 /\ Last(p) = Last(rest) /\ Parent(p) = root \o Parent(rest)
    BY <1>7, EndOfConcat DEF Path
  <2> QED
    BY <1>7, <2>1, NotEmpty
<1>9. root \o mid \in Path
  BY <1>7 DEF Path
<1>10. WalkFrom(fs, Here(fs), root \o mid) = WalkFrom(fs, top, mid)
  BY <1>1, <1>7, HereStays, WalkConcat
<1>11. WalkFrom(fs, top, mid) = Parent(r)
  BY <1>2, <1>4, WalkDown DEF mid, top, Parent, Front
<1>12. fs[Parent(r)].mode # "none" /\ Append(Parent(r), Last(r)) = r /\ Parent(r) # Nowhere
  <2>1. Len(r) - 1 \in Len(top) .. Len(r) - 1
    BY <1>4
  <2>2. fs[Parent(r)].mode # "none"
    BY <2>1 DEF Readable, top, Parent, Front
  <2>3. Append(Parent(r), Last(r)) = r
    BY <1>3, <1>4 DEF Parent, Front, Last, Path
  <2> QED
    BY <1>6, <2>2, <2>3, WellFormedParts
<1>13. HasName(p)
  BY <1>6, <1>8 DEF HasName
<1> HIDE DEF p
<1>14. Entry(fs, p) = r
  BY <1>2, <1>8, <1>10, <1>11, <1>12, <1>13 DEF Entry
<1>15. IsStrictPrefix(top, r)
  BY <1>2, <1>4 DEF IsStrictPrefix, StartsWith
<1> QED
  BY <1>2, <1>8, <1>9, <1>10, <1>11, <1>13, <1>14, <1>15 DEF p, rest, top

(* What exists beside something is an entry of the same directory.         *)
LEMMA ExistsIn ==
    ASSUME NEW fs, WellFormed(fs), NEW p \in Path, NEW c \in Component \ Special,
           exists(fs, Append(p, c))
    PROVE  Append(WalkFrom(fs, Here(fs), p), c) \in DOMAIN fs
<1>1. Append(p, c) # << >>
  <2>1. Len(Append(p, c)) > 0
    BY DEF Path
  <2> QED
    BY <2>1, NotEmpty
<1>2. Walk(fs, Append(p, c)) = Step(fs, WalkFrom(fs, Here(fs), p), c)
  BY <1>1, HereStays, WalkAppend DEF Walk
<1> QED
  BY <1>2 DEF exists, Step, Lookup, Special

-----------------------------------------------------------------------------
(* Removal.  What may go together is everything in what goes, never "/".   *)
Closed(fs, gone) ==
    /\ gone \subseteq DOMAIN fs \ {<<"/">>}
    /\ \A q \in DOMAIN fs \ {<<"/">>} : Parent(q) \in gone => q \in gone

LEMMA TreeClosed ==
    ASSUME NEW fs, WellFormed(fs), NEW e \in Places(fs), e # <<"/">>
    PROVE  Closed(fs, Tree(fs, e))
<1> SUFFICES ASSUME e # Nowhere PROVE Closed(fs, Tree(fs, e))
  BY DEF Closed, Tree
<1>1. e \in DOMAIN fs /\ e \in Path
  BY WellFormedParts DEF Places
<1>2. Len(e) > 1
  BY <1>1 DEF WellFormed
<1>3. <<"/">> \notin Tree(fs, e)
  <2>1. ~(Len(e) <= Len(<<"/">>))
    BY <1>2
  <2>2. <<"/">> \in Path
    BY DEF Path, Component, Special
  <2>3. ~StartsWith(<<"/">>, e)
    BY <1>1, <2>1, <2>2, Prefix, Zenon
  <2> QED
    BY <2>3 DEF Tree
<1>4. ASSUME NEW q \in DOMAIN fs, q # <<"/">>, Parent(q) \in Tree(fs, e) PROVE q \in Tree(fs, e)
  <2>1. q \in Path /\ Len(q) > 1 /\ Parent(q) \in Path
    BY <1>4, WellFormedParts
  <2>2. Len(Parent(q)) = Len(q) - 1 /\ \A i \in 1 .. Len(q) - 1 : Parent(q)[i] = q[i]
    BY <2>1 DEF Parent, Front, Path
  <2>3. Len(e) <= Len(Parent(q)) /\ AgreeTo(e, Parent(q), Len(e))
    BY <1>1, <1>4, <2>1, Prefix DEF Tree
  <2>4. Len(e) <= Len(q) /\ AgreeTo(e, q, Len(e))
    BY <1>1, <2>1, <2>2, <2>3 DEF AgreeTo, Path
  <2>5. StartsWith(q, e)
    BY <1>1, <2>1, <2>4, Prefix
  <2> QED
    BY <2>5 DEF Tree
<1> QED
  BY <1>3, <1>4 DEF Closed, Tree

LEMMA RemainsAtOnce ==
    ASSUME NEW fs, WellFormed(fs), NEW gone, Closed(fs, gone), NEW now \in Nat
    PROVE  /\ DOMAIN Without(fs, gone, now) = DOMAIN fs \ gone
           /\ Remains(Without(fs, gone, now), fs)
           /\ WellFormed(Without(fs, gone, now))
<1> DEFINE new == Without(fs, gone, now)
           lost(q) == \E g \in gone : g # <<"/">> /\ Parent(g) = q
<1>1. DOMAIN new = DOMAIN fs \ gone
  BY DEF Without
<1>2. \A q \in DOMAIN new : new[q] = IF lost(q) THEN [fs[q] EXCEPT !.mtime = now] ELSE fs[q]
  BY DEF Without
<1> HIDE DEF new
<1>3. ASSUME NEW q \in DOMAIN new
      PROVE  /\ new[q].type = fs[q].type /\ new[q].mode = fs[q].mode /\ new[q].to = fs[q].to
             /\ new[q].len = fs[q].len /\ new[q].alloc = fs[q].alloc
             /\ new[q].type = "dir" \/ new[q].mtime = fs[q].mtime
             /\ new[q] \in Nodes
  <2>1. fs[q] \in Nodes
    BY <1>1, WellFormedParts
  <2>2. CASE lost(q)
    <3>1. fs[q].type = "dir"
      BY <2>2, WellFormedParts DEF Closed
    <3>2. new[q] = [fs[q] EXCEPT !.mtime = now]
      BY <1>2, <2>2
    <3> QED
      BY <2>1, <3>1, <3>2 DEF Nodes
  <2>3. CASE ~lost(q)
    <3>1. new[q] = fs[q]
      BY <1>2, <2>3
    <3> QED
      BY <2>1, <3>1
  <2> QED
    BY <2>2, <2>3
<1>4. Remains(new, fs)
  BY <1>1, <1>3 DEF Remains
<1>5. WellFormed(new)
  <2>1. IsFiniteSet(DOMAIN new)
    BY <1>1, WellFormedParts, FS_Subset
  <2>2. <<"/">> \in DOMAIN new
    BY <1>1, WellFormedParts DEF Closed
  <2>3. ASSUME NEW q \in DOMAIN new, q # <<"/">>
        PROVE  /\ Len(q) > 1 /\ HasName(q)
               /\ Parent(q) \in DOMAIN new /\ new[Parent(q)].type = "dir"
    <3>1. q \in DOMAIN fs /\ q \notin gone
      BY <1>1
    <3>2. Len(q) > 1 /\ HasName(q) /\ Parent(q) \in DOMAIN fs /\ fs[Parent(q)].type = "dir"
      BY <2>3, <3>1 DEF WellFormed
    <3>3. Parent(q) \in DOMAIN new
      BY <1>1, <2>3, <3>1, <3>2 DEF Closed
    <3> QED
      BY <1>3, <3>2, <3>3
  <2>4. \A q \in DOMAIN new : q \in Path /\ new[q] \in Nodes
    BY <1>1, <1>3, WellFormedParts
  <2>5. new \in [DOMAIN new -> Nodes]
    BY <2>4 DEF Without, new
  <2> QED
    BY <2>1, <2>2, <2>3, <2>4, <2>5 DEF WellFormed
<1> QED
  BY <1>1, <1>4, <1>5 DEF new

LEMMA RemainsTransitive ==
    ASSUME NEW a, NEW b, NEW c, Remains(a, b), Remains(b, c)
    PROVE  Remains(a, c)
  BY DEF Remains

LEMMA RemainsReflexive == ASSUME NEW fs PROVE Remains(fs, fs)
  BY DEF Remains

-----------------------------------------------------------------------------
(* Finite sets of numbers.                                                 *)
LEMMA MaxOf ==
    ASSUME NEW T \in SUBSET Nat, IsFiniteSet(T), T # {}
    PROVE  Max(T) \in T /\ \A y \in T : Max(T) >= y
<1> DEFINE A == {n \in Nat : \A S \in SUBSET Nat :
                     IsFiniteSet(S) /\ Cardinality(S) = n /\ S # {} =>
                         \E x \in S : \A y \in S : x >= y}
<1>1. 0 \in A
  BY FS_EmptySet
<1>2. ASSUME NEW n \in Nat, n \in A PROVE n + 1 \in A
  <2> SUFFICES ASSUME NEW S \in SUBSET Nat, IsFiniteSet(S), Cardinality(S) = n + 1, S # {}
               PROVE  \E x \in S : \A y \in S : x >= y
    OBVIOUS
  <2>1. PICK z \in S : TRUE
    OBVIOUS
  <2> DEFINE R == S \ {z}
  <2>2. R \in SUBSET Nat /\ IsFiniteSet(R) /\ Cardinality(R) = n
    <3>1. IsFiniteSet(R) /\ Cardinality(R) = Cardinality(S) - 1
      BY FS_RemoveElement
    <3> QED
      BY <3>1
  <2>3. CASE R = {}
    <3>1. S = {z} /\ z \in Nat
      BY <2>3
    <3> QED
      BY <3>1
  <2>4. CASE R # {}
    <3> HIDE DEF R
    <3>1. PICK x \in R : \A y \in R : x >= y
      BY <1>2, <2>2, <2>4
    <3>2. \A y \in S : y = z \/ y \in R
      BY DEF R
    <3>3. x \in S /\ x \in Nat /\ z \in Nat
      BY <2>2, <3>1 DEF R
    <3>4. CASE x >= z
      BY <3>1, <3>2, <3>3, <3>4
    <3>5. CASE z >= x
      BY <2>2, <3>1, <3>2, <3>3, <3>5
    <3> QED
      BY <3>3, <3>4, <3>5
  <2> QED
    BY <2>3, <2>4
<1> HIDE DEF A
<1>3. Cardinality(T) \in A
  BY <1>1, <1>2, NatInduct, FS_CardinalityType
<1>4. \E x \in T : \A y \in T : x >= y
  BY <1>3 DEF A
<1> QED
  BY <1>4 DEF Max

(* A sum over a finite set, added up one element after the other: g has    *)
(* the sums over its subsets.                                              *)
One(s) == CHOOSE x \in s : TRUE

AddsUp(S, w, g) ==
    g = [s \in SUBSET S |-> IF s = {} THEN 0 ELSE w[One(s)] + g[s \ {One(s)}]]

LEMMA OneIn == ASSUME NEW s, s # {} PROVE One(s) \in s
  BY DEF One

LEMMA SumExists ==
    ASSUME NEW S, IsFiniteSet(S), NEW w \in [S -> Nat]
    PROVE  \E g : AddsUp(S, w, g)
<1> DEFINE n    == Cardinality(S)
           F    == [SUBSET S -> Nat]
           E(g) == [s \in SUBSET S |-> IF s = {} THEN 0 ELSE w[One(s)] + g[s \ {One(s)}]]
           b    == [s \in SUBSET S |-> 0]
           D    == [i \in 1 .. n |-> [g \in F |-> E(g)]]
<1>1. n \in Nat
  BY FS_CardinalityType
<1>2. b \in F
  OBVIOUS
<1>3. ASSUME NEW g \in F PROVE E(g) \in F
  <2>1. ASSUME NEW s \in SUBSET S, s # {} PROVE w[One(s)] + g[s \ {One(s)}] \in Nat
    BY <2>1, OneIn
  <2> QED
    BY <2>1
<1> HIDE DEF E, b, F, n
<1>4. D \in [1 .. n -> [F -> F]] /\ \A i \in 1 .. n : \A g \in F : D[i][g] = E(g)
  BY <1>3
<1> HIDE DEF D
<1>5. Iterated(n, F, b, D)
  BY <1>1, <1>2, <1>4, Recursion
<1>6. PICK f \in [0 .. n -> F] : f[0] = b /\ \A i \in 1 .. n : f[i] = D[i][f[i - 1]]
  BY <1>5 DEF Iterated
<1>7. ASSUME NEW i \in Nat, i + 1 <= n, NEW s \in SUBSET S
      PROVE  /\ s = {} => f[i + 1][s] = 0
             /\ s # {} => f[i + 1][s] = w[One(s)] + f[i][s \ {One(s)}]
  <2>1. i + 1 \in 1 .. n /\ i + 1 - 1 = i /\ i \in 0 .. n
    BY <1>1, <1>7
  <2>2. f[i] \in F
    BY <1>6, <2>1
  <2>3. f[i + 1] = D[i + 1][f[i + 1 - 1]]
    BY <1>6, <2>1
  <2>4. f[i + 1] = E(f[i])
    BY <1>4, <2>1, <2>2, <2>3
  <2> QED
    BY <2>4 DEF E
<1>8. ASSUME NEW s \in SUBSET S PROVE IsFiniteSet(s) /\ Cardinality(s) \in 0 .. n
  BY FS_Subset, FS_CardinalityType DEF n
<1>9. ASSUME NEW s \in SUBSET S, s # {}
      PROVE  s \ {One(s)} \in SUBSET S /\ Cardinality(s \ {One(s)}) = Cardinality(s) - 1
  BY <1>8, <1>9, OneIn, FS_RemoveElement
<1> DEFINE A == {i \in Nat : i + 1 <= n =>
                     \A s \in SUBSET S : Cardinality(s) <= i => f[i + 1][s] = f[i][s]}
<1>10. 0 \in A
  <2> SUFFICES ASSUME 1 <= n, NEW s \in SUBSET S, Cardinality(s) <= 0 PROVE f[1][s] = f[0][s]
    OBVIOUS
  <2>1. s = {}
    BY <1>8, FS_EmptySet
  <2>2. f[0 + 1][s] = 0
    <3>1. 0 \in Nat /\ 0 + 1 <= n
      OBVIOUS
    <3> QED
      BY <1>7, <2>1, <3>1
  <2>3. f[0][s] = 0
    BY <1>6 DEF b
  <2> QED
    BY <2>2, <2>3
<1>11. ASSUME NEW i \in Nat, i \in A PROVE i + 1 \in A
  <2> SUFFICES ASSUME i + 1 + 1 <= n, NEW s \in SUBSET S, Cardinality(s) <= i + 1
               PROVE  f[i + 1 + 1][s] = f[i + 1][s]
    OBVIOUS
  <2>1. i + 1 \in Nat /\ i + 1 <= n
    BY <1>1
  <2>2. CASE s = {}
    <3>1. f[i + 1][s] = 0
      BY <1>7, <2>1, <2>2
    <3>2. f[i + 1 + 1][s] = 0
      BY <1>7, <2>1, <2>2
    <3> QED
      BY <3>1, <3>2
  <2>3. CASE s # {}
    <3> DEFINE r == s \ {One(s)}
    <3>1. r \in SUBSET S /\ Cardinality(r) <= i
      <4>1. Cardinality(r) = Cardinality(s) - 1 /\ Cardinality(s) \in Nat
        BY <1>1, <1>8, <1>9, <2>3
      <4> QED
        BY <4>1
    <3>2. f[i + 1][r] = f[i][r]
      BY <1>11, <2>1, <3>1
    <3>3. f[i + 1 + 1][s] = w[One(s)] + f[i + 1][r]
      BY <1>7, <2>1, <2>3
    <3>4. f[i + 1][s] = w[One(s)] + f[i][r]
      BY <1>7, <2>1, <2>3
    <3> QED
      BY <3>2, <3>3, <3>4
  <2> QED
    BY <2>2, <2>3
<1> HIDE DEF A
<1>12. Nat \subseteq A
  BY <1>10, <1>11, NatInduct
<1>13. f[n] \in F
  BY <1>1, <1>6
<1>14. ASSUME NEW s \in SUBSET S
       PROVE  f[n][s] = IF s = {} THEN 0 ELSE w[One(s)] + f[n][s \ {One(s)}]
  <2>1. CASE n = 0
    <3>1. s = {}
      BY <1>8, <2>1, FS_EmptySet
    <3> QED
      BY <1>6, <2>1, <3>1 DEF b
  <2>2. CASE n # 0 /\ s = {}
    <3>1. PICK m \in Nat : n = m + 1 /\ m + 1 <= n
      <4>1. n - 1 \in Nat /\ n = n - 1 + 1 /\ n - 1 + 1 <= n
        BY <1>1, <2>2
      <4> QED
        BY <4>1
    <3> QED
      BY <1>7, <2>2, <3>1
  <2>3. CASE n # 0 /\ s # {}
    <3> DEFINE r == s \ {One(s)}
    <3>1. PICK m \in Nat : n = m + 1 /\ m + 1 <= n
      <4>1. n - 1 \in Nat /\ n = n - 1 + 1 /\ n - 1 + 1 <= n
        BY <1>1, <2>3
      <4> QED
        BY <4>1
    <3>2. r \in SUBSET S /\ Cardinality(r) <= m
      <4>1. Cardinality(r) = Cardinality(s) - 1 /\ Cardinality(s) \in Nat /\ Cardinality(s) <= n
        BY <1>1, <1>8, <1>9, <2>3, SMTT(20)
      <4> QED
        BY <1>9, <2>3, <3>1, <4>1
    <3>3. f[m + 1][r] = f[m][r]
      BY <1>12, <3>1, <3>2 DEF A
    <3>4. f[m + 1][s] = w[One(s)] + f[m][r]
      BY <1>7, <2>3, <3>1
    <3>5. f[n][s] = w[One(s)] + f[n][r]
      BY <3>1, <3>3, <3>4
    <3> QED
      BY <2>3, <3>5
  <2> QED
    BY <2>1, <2>2, <2>3
<1>15. AddsUp(S, w, f[n])
  BY <1>13, <1>14 DEF AddsUp, F
<1> QED
  BY <1>15

LEMMA SumType ==
    ASSUME NEW S, IsFiniteSet(S), NEW w \in [S -> Nat], NEW g, AddsUp(S, w, g)
    PROVE  \A s \in SUBSET S : g[s] \in Nat
<1> DEFINE A == {n \in Nat : \A s \in SUBSET S : Cardinality(s) = n => g[s] \in Nat}
<1>1. \A s \in SUBSET S : g[s] = IF s = {} THEN 0 ELSE w[One(s)] + g[s \ {One(s)}]
  BY DEF AddsUp
<1>2. \A s \in SUBSET S : IsFiniteSet(s) /\ Cardinality(s) \in Nat
  BY FS_Subset, FS_CardinalityType
<1>3. 0 \in A
  BY <1>1, <1>2, FS_EmptySet
<1>4. ASSUME NEW n \in Nat, n \in A PROVE n + 1 \in A
  <2> SUFFICES ASSUME NEW s \in SUBSET S, Cardinality(s) = n + 1 PROVE g[s] \in Nat
    OBVIOUS
  <2>1. s # {}
    <3>1. n + 1 # 0
      OBVIOUS
    <3> QED
      BY <3>1, FS_EmptySet
  <2>2. One(s) \in s
    BY <2>1, OneIn
  <2>3. Cardinality(s \ {One(s)}) = n
    BY <1>2, <2>2, FS_RemoveElement
  <2>4. g[s \ {One(s)}] \in Nat
    BY <1>4, <2>3
  <2>5. w[One(s)] \in Nat
    BY <2>2
  <2>6. g[s] = w[One(s)] + g[s \ {One(s)}]
    BY <1>1, <2>1
  <2> QED
    BY <2>4, <2>5, <2>6
<1> HIDE DEF A
<1>5. Nat \subseteq A
  BY <1>3, <1>4, NatInduct
<1> QED
  BY <1>2, <1>5 DEF A

(* A sum is there whatever element it is begun with: g[s] and SumFunction  *)
(* take them as CHOOSE does.                                               *)
LEMMA SumBegins ==
    ASSUME NEW S, IsFiniteSet(S), NEW w \in [S -> Nat], NEW g, AddsUp(S, w, g)
    PROVE  \A s \in SUBSET S : \A a \in s : g[s] = w[a] + g[s \ {a}]
<1> DEFINE A == {n \in Nat : \A s \in SUBSET S : Cardinality(s) = n =>
                                 \A a \in s : g[s] = w[a] + g[s \ {a}]}
<1>1. \A s \in SUBSET S : s # {} => g[s] = w[One(s)] + g[s \ {One(s)}]
  BY DEF AddsUp
<1>2. \A s \in SUBSET S : IsFiniteSet(s) /\ Cardinality(s) \in Nat /\ g[s] \in Nat
  BY FS_Subset, FS_CardinalityType, SumType
<1>3. 0 \in A
  BY <1>2, FS_EmptySet
<1>4. ASSUME NEW n \in Nat, n \in A PROVE n + 1 \in A
  <2> SUFFICES ASSUME NEW s \in SUBSET S, Cardinality(s) = n + 1, NEW a \in s
               PROVE  g[s] = w[a] + g[s \ {a}]
    OBVIOUS
  <2> DEFINE x == One(s)
  <2>1. x \in s
    BY OneIn
  <2>2. g[s] = w[x] + g[s \ {x}]
    BY <1>1
  <2>3. ASSUME NEW z \in s PROVE Cardinality(s \ {z}) = n
    BY <1>2, FS_RemoveElement
  <2> HIDE DEF x
  <2>4. CASE x = a
    BY <2>2, <2>4
  <2>5. CASE x # a
    <3>1. a \in s \ {x} /\ x \in s \ {a} /\ s \ {x} \in SUBSET S /\ s \ {a} \in SUBSET S
      BY <2>1, <2>5
    <3>2. g[s \ {x}] = w[a] + g[(s \ {x}) \ {a}]
      BY <1>4, <2>1, <2>3, <3>1
    <3>3. g[s \ {a}] = w[x] + g[(s \ {a}) \ {x}]
      BY <1>4, <2>3, <3>1
    <3>4. (s \ {a}) \ {x} = (s \ {x}) \ {a} /\ (s \ {a}) \ {x} \in SUBSET S
      OBVIOUS
    <3>5. w[a] \in Nat /\ w[x] \in Nat /\ g[(s \ {a}) \ {x}] \in Nat
      BY <1>2, <2>1, <3>4
    <3>6. g[s \ {x}] = w[a] + g[(s \ {a}) \ {x}]
      BY <3>2, <3>4
    <3> QED
      BY <2>2, <3>3, <3>5, <3>6
  <2> QED
    BY <2>4, <2>5
<1> HIDE DEF A
<1>5. Nat \subseteq A
  BY <1>3, <1>4, NatInduct
<1> QED
  BY <1>2, <1>5 DEF A

LEMMA SumRestricted ==
    ASSUME NEW S, IsFiniteSet(S), NEW w \in [S -> Nat], NEW g, AddsUp(S, w, g),
           NEW T \in SUBSET S, NEW v, \A x \in T : v[x] = w[x], NEW h, AddsUp(T, v, h)
    PROVE  \A s \in SUBSET T : h[s] = g[s]
<1> DEFINE A == {n \in Nat : \A s \in SUBSET T : Cardinality(s) = n => h[s] = g[s]}
<1>1. /\ \A s \in SUBSET S : g[s] = IF s = {} THEN 0 ELSE w[One(s)] + g[s \ {One(s)}]
      /\ \A s \in SUBSET T : h[s] = IF s = {} THEN 0 ELSE v[One(s)] + h[s \ {One(s)}]
  BY DEF AddsUp
<1>2. \A s \in SUBSET T : IsFiniteSet(s) /\ Cardinality(s) \in Nat /\ s \in SUBSET S
  BY FS_Subset, FS_CardinalityType
<1>3. 0 \in A
  BY <1>1, <1>2, FS_EmptySet
<1>4. ASSUME NEW n \in Nat, n \in A PROVE n + 1 \in A
  <2> SUFFICES ASSUME NEW s \in SUBSET T, Cardinality(s) = n + 1 PROVE h[s] = g[s]
    OBVIOUS
  <2>1. s # {}
    <3>1. n + 1 # 0
      OBVIOUS
    <3> QED
      BY <3>1, FS_EmptySet
  <2>2. One(s) \in s
    BY <2>1, OneIn
  <2>3. Cardinality(s \ {One(s)}) = n /\ s \ {One(s)} \in SUBSET T
    BY <1>2, <2>2, FS_RemoveElement
  <2>4. h[s \ {One(s)}] = g[s \ {One(s)}]
    BY <1>4, <2>3
  <2>5. v[One(s)] = w[One(s)]
    BY <2>2
  <2> QED
    BY <1>1, <1>2, <2>1, <2>4, <2>5
<1> HIDE DEF A
<1>5. Nat \subseteq A
  BY <1>3, <1>4, NatInduct
<1> QED
  BY <1>2, <1>5 DEF A

(* SumFunction adds up.                                                    *)
LEMMA SumIs ==
    ASSUME NEW S, IsFiniteSet(S), NEW w \in [S -> Nat], NEW g, AddsUp(S, w, g)
    PROVE  SumFunction(w) = g[S]
<1> DEFINE E(f) == [s \in SUBSET S |-> IF s = {} THEN 0 ELSE w[One(s)] + f[s \ {One(s)}]]
           iter == CHOOSE f : f = E(f)
<1>1. DOMAIN w = S
  OBVIOUS
<1>2. SumFunction(w) = iter[S]
  BY <1>1, Zenon DEF SumFunction, SumFunctionOnSet, FoldFunctionOnSet, MapThenFoldSet, One
<1>3. ASSUME NEW f PROVE AddsUp(S, w, f) <=> f = E(f)
  BY DEF AddsUp
<1>4. iter = E(iter)
  <2> HIDE DEF E
  <2> QED
    BY <1>3
<1>5. AddsUp(S, w, iter)
  BY <1>3, <1>4
<1> HIDE DEF iter, E
<1>6. \A s \in SUBSET S : iter[s] = g[s]
  <2>1. \A x \in S : w[x] = w[x]
    OBVIOUS
  <2> QED
    BY <1>5, <2>1, SumRestricted
<1> QED
  BY <1>2, <1>6

LEMMA SumNat ==
    ASSUME NEW S, IsFiniteSet(S), NEW w \in [S -> Nat]
    PROVE  SumFunction(w) \in Nat
<1>1. PICK g : AddsUp(S, w, g)
  BY SumExists
<1> QED
  BY <1>1, SumType, SumIs

LEMMA SumNone == ASSUME NEW w \in [{} -> Nat] PROVE SumFunction(w) = 0
<1>1. IsFiniteSet({})
  BY FS_EmptySet
<1>2. PICK g : AddsUp({}, w, g)
  BY <1>1, SumExists
<1>3. g[{}] = 0
  BY <1>2 DEF AddsUp
<1> QED
  BY <1>1, <1>2, <1>3, SumIs

LEMMA SumAdd ==
    ASSUME NEW S, IsFiniteSet(S), NEW a, a \notin S, NEW w \in [S \cup {a} -> Nat],
           NEW v \in [S -> Nat], \A x \in S : v[x] = w[x]
    PROVE  SumFunction(w) = w[a] + SumFunction(v)
<1> DEFINE T == S \cup {a}
<1>1. IsFiniteSet(T)
  BY FS_AddElement
<1>2. PICK g : AddsUp(T, w, g)
  BY <1>1, SumExists
<1>3. PICK h : AddsUp(S, v, h)
  BY SumExists
<1>4. h[S] = g[S]
  BY <1>1, <1>2, <1>3, SumRestricted
<1>5. g[T] = w[a] + g[T \ {a}]
  BY <1>1, <1>2, SumBegins, SMTT(20)
<1>6. T \ {a} = S
  OBVIOUS
<1> QED
  BY <1>1, <1>2, <1>3, <1>4, <1>5, <1>6, SumIs

LEMMA SumJoin ==
    ASSUME NEW A, NEW B, IsFiniteSet(A), IsFiniteSet(B), A \cap B = {},
           NEW w \in [A \cup B -> Nat], NEW u \in [A -> Nat], NEW v \in [B -> Nat],
           \A x \in A : u[x] = w[x], \A x \in B : v[x] = w[x]
    PROVE  SumFunction(w) = SumFunction(u) + SumFunction(v)
<1> DEFINE On(s) == [x \in s |-> w[x]]
           N == {n \in Nat : \A s \in SUBSET B : Cardinality(s) = n =>
                    SumFunction(On(A \cup s)) = SumFunction(u) + SumFunction(On(s))}
<1>1. \A s \in SUBSET B : IsFiniteSet(s) /\ Cardinality(s) \in Nat
  BY FS_Subset, FS_CardinalityType
<1>2. \A s \in SUBSET (A \cup B) : On(s) \in [s -> Nat] /\ \A x \in s : On(s)[x] = w[x]
  OBVIOUS
<1>3. On(A) = u /\ On(B) = v /\ On(A \cup B) = w
  OBVIOUS
<1>4. SumFunction(u) \in Nat
  BY SumNat
<1> HIDE DEF On
<1>5. 0 \in N
  <2> SUFFICES ASSUME NEW s \in SUBSET B, Cardinality(s) = 0
               PROVE  SumFunction(On(A \cup s)) = SumFunction(u) + SumFunction(On(s))
    OBVIOUS
  <2>1. s = {} /\ A \cup s = A
    BY <1>1, FS_EmptySet
  <2>2. SumFunction(On({})) = 0
    <3>1. On({}) \in [{} -> Nat]
      BY <1>2
    <3> QED
      BY <3>1, SumNone
  <2> QED
    BY <1>3, <1>4, <2>1, <2>2
<1>6. ASSUME NEW n \in Nat, n \in N PROVE n + 1 \in N
  <2> SUFFICES ASSUME NEW s \in SUBSET B, Cardinality(s) = n + 1
               PROVE  SumFunction(On(A \cup s)) = SumFunction(u) + SumFunction(On(s))
    OBVIOUS
  <2>1. PICK a : a \in s
    <3>1. n + 1 # 0
      OBVIOUS
    <3> QED
      BY <3>1, FS_EmptySet
  <2> DEFINE r == s \ {a}
             R == A \cup r
  <2>2. Cardinality(r) = n /\ r \in SUBSET B /\ IsFiniteSet(r) /\ a \notin r /\ s = r \cup {a}
    BY <1>1, <2>1, FS_RemoveElement
  <2>3. IsFiniteSet(R) /\ a \notin R /\ A \cup s = R \cup {a} /\ R \in SUBSET (A \cup B)
        /\ a \in A \cup B
    BY <2>1, <2>2, FS_Union
  <2>4. SumFunction(On(R)) = SumFunction(u) + SumFunction(On(r))
    BY <1>6, <2>2
  <2> HIDE DEF R, r
  <2>5. SumFunction(On(R \cup {a})) = w[a] + SumFunction(On(R))
    <3>1. R \cup {a} \in SUBSET (A \cup B) /\ a \in R \cup {a}
      BY <2>3
    <3>2. On(R \cup {a}) \in [R \cup {a} -> Nat] /\ On(R \cup {a})[a] = w[a]
      BY <1>2, <3>1
    <3>3. On(R) \in [R -> Nat] /\ \A x \in R : On(R)[x] = w[x]
      BY <1>2, <2>3
    <3>4. \A x \in R : On(R)[x] = On(R \cup {a})[x]
      BY <1>2, <3>1, <3>3
    <3> QED
      BY <2>3, <3>2, <3>3, <3>4, SumAdd
  <2>6. SumFunction(On(r \cup {a})) = w[a] + SumFunction(On(r))
    <3>1. On(r \cup {a}) \in [r \cup {a} -> Nat] /\ On(r \cup {a})[a] = w[a]
          /\ On(r) \in [r -> Nat] /\ \A x \in r : On(r)[x] = On(r \cup {a})[x]
      BY <1>2, <2>2, <2>3
    <3>2. IsFiniteSet(r) /\ a \notin r
      BY <2>2
    <3> QED
      BY <3>1, <3>2, SumAdd, SMTT(30)
  <2>7. SumFunction(On(r)) \in Nat /\ w[a] \in Nat
    BY <1>2, <2>2, <2>3, SumNat
  <2>8. SumFunction(On(A \cup s)) = w[a] + (SumFunction(u) + SumFunction(On(r)))
    BY <2>3, <2>4, <2>5
  <2>9. SumFunction(On(s)) = w[a] + SumFunction(On(r))
    BY <2>2, <2>6
  <2> QED
    BY <1>4, <2>7, <2>8, <2>9
<1> HIDE DEF N
<1>7. Nat \subseteq N
  BY <1>5, <1>6, NatInduct
<1> QED
  BY <1>1, <1>3, <1>7 DEF N

(* The same, over subsets of one set of summands.                          *)
SumOver(w, s) == SumFunction([x \in s |-> w[x]])

LEMMA OverNat ==
    ASSUME NEW S, IsFiniteSet(S), NEW w \in [S -> Nat], NEW s \in SUBSET S
    PROVE  SumOver(w, s) \in Nat
<1>1. IsFiniteSet(s) /\ [x \in s |-> w[x]] \in [s -> Nat]
  BY FS_Subset
<1> QED
  BY <1>1, SumNat DEF SumOver

LEMMA OverNone == ASSUME NEW w PROVE SumOver(w, {}) = 0
<1>1. [x \in {} |-> w[x]] \in [{} -> Nat]
  OBVIOUS
<1> QED
  BY <1>1, SumNone DEF SumOver

LEMMA OverAll == ASSUME NEW S, NEW w \in [S -> Nat] PROVE SumOver(w, S) = SumFunction(w)
<1>1. w = [x \in S |-> w[x]]
  OBVIOUS
<1> QED
  BY <1>1 DEF SumOver

LEMMA OverAdd ==
    ASSUME NEW S, IsFiniteSet(S), NEW w \in [S -> Nat], NEW s \in SUBSET S, NEW a \in S \ s
    PROVE  SumOver(w, s \cup {a}) = w[a] + SumOver(w, s)
<1> DEFINE u == [x \in s \cup {a} |-> w[x]]
           v == [x \in s |-> w[x]]
<1>1. IsFiniteSet(s)
  BY FS_Subset
<1>2. /\ u \in [s \cup {a} -> Nat] /\ v \in [s -> Nat] /\ u[a] = w[a]
      /\ \A x \in s : v[x] = u[x]
  OBVIOUS
<1> HIDE DEF u, v
<1>3. SumFunction(u) = u[a] + SumFunction(v)
  BY <1>1, <1>2, SumAdd
<1> QED
  BY <1>2, <1>3 DEF u, v, SumOver

LEMMA OverJoin ==
    ASSUME NEW S, IsFiniteSet(S), NEW w \in [S -> Nat], NEW s \in SUBSET S, NEW t \in SUBSET S,
           s \cap t = {}
    PROVE  SumOver(w, s \cup t) = SumOver(w, s) + SumOver(w, t)
<1> DEFINE f == [x \in s \cup t |-> w[x]]
           u == [x \in s |-> w[x]]
           v == [x \in t |-> w[x]]
<1>1. IsFiniteSet(s) /\ IsFiniteSet(t)
  BY FS_Subset
<1>2. /\ f \in [s \cup t -> Nat] /\ u \in [s -> Nat] /\ v \in [t -> Nat]
      /\ \A x \in s : u[x] = f[x]
      /\ \A x \in t : v[x] = f[x]
  OBVIOUS
<1> HIDE DEF f, u, v
<1>3. SumFunction(f) = SumFunction(u) + SumFunction(v)
  BY <1>1, <1>2, SumJoin, SMTT(20)
<1> QED
  BY <1>3 DEF f, u, v, SumOver

(* A sum taken part by part: G has the sums of the parts, which key tells. *)
PartSums(K, S, w, key, G) ==
    G = [k \in K |-> SumOver(w, {x \in S : key[x] = k})]

LEMMA SumParts ==
    ASSUME NEW K, IsFiniteSet(K), NEW S, IsFiniteSet(S), NEW w \in [S -> Nat],
           NEW key \in [S -> K], NEW G, PartSums(K, S, w, key, G)
    PROVE  SumFunction(w) = SumFunction(G)
<1> DEFINE Of(s)   == {x \in S : key[x] \in s}
           Part(k) == {x \in S : key[x] = k}
           N == {n \in Nat : \A s \in SUBSET K : Cardinality(s) = n =>
                    SumOver(w, Of(s)) = SumOver(G, s)}
<1>1. \A s \in SUBSET K : IsFiniteSet(s) /\ Cardinality(s) \in Nat
  BY FS_Subset, FS_CardinalityType
<1>2. \A k \in K : G[k] = SumOver(w, Part(k))
  BY DEF PartSums
<1>3. /\ Of({}) = {} /\ Of(K) = S
      /\ \A s \in SUBSET K : Of(s) \in SUBSET S
      /\ \A k \in K : Part(k) \in SUBSET S
      /\ \A r \in SUBSET K : \A a \in K : a \notin r =>
             Of(r \cup {a}) = Of(r) \cup Part(a) /\ Of(r) \cap Part(a) = {}
  OBVIOUS
<1> HIDE DEF Of, Part
<1>4. \A k \in K : G[k] \in Nat
  BY <1>2, <1>3, OverNat
<1>5. G \in [K -> Nat]
  BY <1>4 DEF PartSums
<1>6. ASSUME NEW r \in SUBSET K, NEW a \in K, a \notin r, SumOver(w, Of(r)) = SumOver(G, r)
      PROVE  SumOver(w, Of(r \cup {a})) = SumOver(G, r \cup {a})
  <2>1. SumOver(G, r \cup {a}) = G[a] + SumOver(G, r)
    BY <1>5, <1>6, OverAdd
  <2>2. SumOver(w, Of(r) \cup Part(a)) = SumOver(w, Of(r)) + SumOver(w, Part(a))
    <3> DEFINE A == Of(r)
               B == Part(a)
    <3>1. A \in SUBSET S /\ B \in SUBSET S /\ A \cap B = {}
      BY <1>3, <1>6
    <3> HIDE DEF A, B
    <3>2. SumOver(w, A \cup B) = SumOver(w, A) + SumOver(w, B)
      BY <3>1, OverJoin
    <3> QED
      BY <3>2 DEF A, B
  <2>3. SumOver(G, r) \in Nat /\ G[a] \in Nat
    BY <1>4, <1>5, OverNat
  <2>4. Of(r \cup {a}) = Of(r) \cup Part(a)
    BY <1>3, <1>6
  <2>5. SumOver(w, Of(r \cup {a})) = SumOver(G, r) + G[a]
    BY <1>2, <1>6, <2>2, <2>4
  <2> QED
    BY <2>1, <2>3, <2>5
<1>7. 0 \in N
  <2> SUFFICES ASSUME NEW s \in SUBSET K, Cardinality(s) = 0
               PROVE  SumOver(w, Of(s)) = SumOver(G, s)
    OBVIOUS
  <2>1. s = {}
    BY <1>1, FS_EmptySet
  <2> QED
    BY <1>3, <2>1, OverNone
<1>8. ASSUME NEW n \in Nat, n \in N PROVE n + 1 \in N
  <2> SUFFICES ASSUME NEW s \in SUBSET K, Cardinality(s) = n + 1
               PROVE  SumOver(w, Of(s)) = SumOver(G, s)
    OBVIOUS
  <2>1. PICK a : a \in s
    <3>1. n + 1 # 0
      OBVIOUS
    <3> QED
      BY <3>1, FS_EmptySet
  <2> DEFINE r == s \ {a}
  <2>2. Cardinality(r) = n
    <3>1. IsFiniteSet(s) /\ Cardinality(s) \in Nat
      BY <1>1
    <3>2. Cardinality(s \ {a}) = Cardinality(s) - 1
      BY <2>1, <3>1, FS_RemoveElement
    <3> QED
      BY <3>2
  <2>3. r \in SUBSET K /\ a \notin r /\ s = r \cup {a} /\ a \in K
    BY <2>1
  <2>4. SumOver(w, Of(r)) = SumOver(G, r)
    BY <1>8, <2>2, <2>3
  <2> HIDE DEF r, N
  <2> QED
    BY <1>6, <2>3, <2>4
<1> HIDE DEF N
<1>9. Nat \subseteq N
  BY <1>7, <1>8, NatInduct
<1>10. SumOver(w, S) = SumOver(G, K)
  <2>1. SumOver(w, Of(K)) = SumOver(G, K)
    BY <1>1, <1>9 DEF N
  <2> QED
    BY <1>3, <2>1
<1> QED
  BY <1>5, <1>10, OverAll

(* A sum of the same number, 0 or 1, for everything.                       *)
LEMMA SumSame ==
    ASSUME NEW S, IsFiniteSet(S), NEW b \in {0, 1}, NEW w, w = [x \in S |-> b]
    PROVE  SumFunction(w) = IF b = 0 THEN 0 ELSE Cardinality(S)
<1> DEFINE N == {n \in Nat : \A s \in SUBSET S : Cardinality(s) = n =>
                    SumOver(w, s) = IF b = 0 THEN 0 ELSE n}
<1>1. \A s \in SUBSET S : IsFiniteSet(s) /\ Cardinality(s) \in Nat
  BY FS_Subset, FS_CardinalityType
<1>2. w \in [S -> Nat] /\ \A x \in S : w[x] = b
  OBVIOUS
<1>3. 0 \in N
  <2>1. ASSUME NEW s \in SUBSET S, Cardinality(s) = 0 PROVE s = {}
    BY <1>1, <2>1, FS_EmptySet
  <2> QED
    BY <2>1, OverNone
<1>4. ASSUME NEW n \in Nat, n \in N PROVE n + 1 \in N
  <2> SUFFICES ASSUME NEW s \in SUBSET S, Cardinality(s) = n + 1
               PROVE  SumOver(w, s) = IF b = 0 THEN 0 ELSE n + 1
    OBVIOUS
  <2>1. PICK a : a \in s
    <3>1. n + 1 # 0
      OBVIOUS
    <3> QED
      BY <3>1, FS_EmptySet
  <2> DEFINE r == s \ {a}
  <2>2. Cardinality(r) = n
    <3>1. IsFiniteSet(s) /\ Cardinality(s) \in Nat
      BY <1>1
    <3>2. Cardinality(s \ {a}) = Cardinality(s) - 1
      BY <2>1, <3>1, FS_RemoveElement
    <3> QED
      BY <3>2
  <2>3. r \in SUBSET S /\ a \notin r /\ s = r \cup {a} /\ a \in S
    BY <2>1
  <2>4. SumOver(w, r) = IF b = 0 THEN 0 ELSE n
    BY <1>4, <2>2, <2>3
  <2> HIDE DEF r, N
  <2>5. SumOver(w, s) = w[a] + SumOver(w, r)
    BY <1>2, <2>3, OverAdd
  <2> QED
    BY <1>2, <2>3, <2>4, <2>5
<1> HIDE DEF N
<1>5. Nat \subseteq N
  BY <1>3, <1>4, NatInduct
<1>6. SumOver(w, S) = IF b = 0 THEN 0 ELSE Cardinality(S)
  BY <1>1, <1>5 DEF N
<1> QED
  BY <1>2, <1>6, OverAll
=============================================================================
