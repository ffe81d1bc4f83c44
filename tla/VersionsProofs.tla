--------------------------- MODULE VersionsProofs ---------------------------
(* Proofs about Versions, for any number of installs and products, of      *)
(* which any number is kept, and any timing of the tools.                  *)
EXTENDS Versions, FiniteSetTheorems, WellFoundedInduction, TLAPS

LEMMA NameType == Name \subseteq Nat /\ N \in Nat
  BY VersionsAssumption DEF Name

(* A set of naturals with a bound has a greatest element.                  *)
LEMMA Greatest ==
    ASSUME NEW T \in SUBSET Nat, T # {}, NEW b \in Nat, \A x \in T : x <= b
    PROVE  \E x \in T : \A y \in T : y <= x
<1> DEFINE below == {b - x : x \in T}
<1>1. below \subseteq Nat /\ below # {}
  <2>1. \A x \in T : b - x \in Nat
    OBVIOUS
  <2>2. PICK x \in T : TRUE
    OBVIOUS
  <2>3. b - x \in below
    BY <2>2
  <2> QED
    BY <2>1, <2>3
<1>2. \E m \in below : \A n \in below : ~(<<n, m>> \in OpToRel(<, Nat))
  BY <1>1, NatLessThanWellFounded, WFMin
<1>3. PICK m \in below : \A n \in below : ~(n < m)
  BY <1>1, <1>2 DEF OpToRel
<1>4. PICK x \in T : m = b - x
  BY <1>3
<1>5. \A y \in T : ~(b - y < b - x)
  BY <1>3, <1>4
<1> QED
  BY <1>5

LEMMA TypeStep == TypeOK /\ [Next]_vars => TypeOK'
<1> SUFFICES ASSUME TypeOK, Next PROVE TypeOK'
  BY DEF TypeOK, vars, machine, Read
<1> USE VersionsAssumption DEF machine, Time
<1>1. CASE Tick
  BY <1>1 DEF Tick, TypeOK, Read
<1>2. ASSUME NEW v \in Name, Begin(v) \/ Complete(v) \/ Touch(v) PROVE TypeOK'
  BY <1>2 DEF Begin, Complete, Touch, Put, TypeOK, Read
<1>3. ASSUME NEW v \in Name, Uninstall(v) PROVE TypeOK'
  BY <1>3 DEF Uninstall, Clear, TypeOK, Read
<1>4. CASE Start
  BY <1>4 DEF Start, Existing, TypeOK, Read
<1>5. CASE Choose
  BY <1>5 DEF Choose, StaleVersions, TypeOK, Read
<1>6. CASE Finish
  BY <1>6 DEF Finish, TypeOK, Read
<1>7. ASSUME NEW v \in Name, ReadEntry(v) PROVE TypeOK'
  BY <1>7 DEF ReadEntry, TypeOK, Read
<1>8. ASSUME NEW v \in Name, Spare(v) \/ RemoveFails(v) PROVE TypeOK'
  BY <1>8 DEF Spare, RemoveFails, First, TypeOK, Read
<1>9. ASSUME NEW v \in Name, Remove(v) PROVE TypeOK'
  BY <1>9 DEF Remove, First, Put, TypeOK, Read
<1>10. ASSUME NEW v \in Name, Removed(v) PROVE TypeOK'
  BY <1>10 DEF Removed, First, Clear, TypeOK, Read
<1> QED
  BY <1>1, <1>2, <1>3, <1>4, <1>5, <1>6, <1>7, <1>8, <1>9, <1>10 DEF Next, Tools, Run

(* Every variable keeps its type, whatever the tools do between two steps  *)
(* of the run (scan.rs stale_versions, main.rs run).                       *)
THEOREM VersionsTypeCorrect == Spec => []TypeOK
<1>1. Init => TypeOK
  BY VersionsAssumption DEF Init, TypeOK, Read, Time
<1> QED
  BY <1>1, TypeStep, PTL DEF Spec

-----------------------------------------------------------------------------
(* A product that had a whole install, and of which nothing is suspicious. *)
Sound == {g \in had \ unsound : \A v \in left : GroupOf[v] # g}

(* While the directory is read, what was read of a sound product is whole, *)
(* and some whole install of it has been or will be read; later, one that  *)
(* is whole is not stale.                                                  *)
Reading ==
    pc = "list" => \A g \in Sound :
        /\ \A v \in Read : GroupOf[v] = g => state[v] = "whole"
        /\ \E v \in Whole(g) : v \in toRead \cup Read

Chosen == pc \in {"delete", "remove"} => \A g \in Sound : Whole(g) \ stale # {}

InstallInv == Reading /\ Chosen

(* Of what was read, any part has a newest member.                         *)
LEMMA NewestOf ==
    ASSUME TypeOK, NEW S \in SUBSET Read, S # {}
    PROVE  \E top \in S : \A w \in S : ~Newer(w, top)
<1> DEFINE ages == {read[v] : v \in S}
<1>1. ages \in SUBSET Nat /\ ages # {} /\ \A a \in ages : a <= MaxNow
  BY VersionsAssumption DEF TypeOK, Read
<1>2. PICK a \in ages : \A b \in ages : b <= a
  BY <1>1, Greatest, VersionsAssumption
<1> DEFINE latest == {v \in S : read[v] = a}
<1>3. latest \in SUBSET Nat /\ latest # {} /\ \A v \in latest : v <= N
  <2>1. PICK v \in S : read[v] = a
    BY <1>2
  <2>2. \A w \in S : w \in Nat /\ w <= N
    BY NameType DEF Read, Name
  <2> QED
    BY <2>1, <2>2
<1>4. PICK top \in latest : \A v \in latest : v <= top
  BY <1>3, Greatest, NameType
<1>5. ASSUME NEW w \in S, Newer(w, top) PROVE FALSE
  <2>1. read[w] \in ages /\ read[top] = a /\ read[w] <= a
    BY <1>2, <1>4
  <2>2. read[w] \in Nat /\ a \in Nat /\ w \in Nat /\ top \in Nat
    BY <1>1, <1>3, <2>1, NameType DEF Read
  <2>3. read[w] = a /\ w > top
    BY <1>5, <2>1, <2>2 DEF Newer
  <2> QED
    BY <1>4, <2>2, <2>3
<1> QED
  BY <1>4, <1>5

(* The newest of what was read of a product is not stale.                  *)
LEMMA NewestStays ==
    ASSUME TypeOK, NEW g, NEW r \in Read, GroupOf[r] = g
    PROVE  \E v \in Read \ StaleVersions : GroupOf[v] = g
<1> DEFINE mine == {v \in Read : GroupOf[v] = g}
<1>1. PICK top \in mine : \A w \in mine : ~Newer(w, top)
  BY NewestOf
<1>2. Ahead(top) = {}
  BY <1>1 DEF Ahead
<1>3. top \notin StaleVersions
  BY <1>2, FS_EmptySet, VersionsAssumption DEF StaleVersions
<1> QED
  BY <1>1, <1>3

LEMMA InstallStep == TypeOK /\ InstallInv /\ Next => InstallInv'
<1> SUFFICES ASSUME TypeOK, InstallInv, Next PROVE InstallInv'
  OBVIOUS
<1> USE DEF InstallInv, machine
<1>1. CASE Tick
  BY <1>1 DEF Tick, Reading, Chosen, Sound, Whole, Read
<1>2. ASSUME NEW v \in Name, Begin(v) PROVE InstallInv'
  <2>1. /\ UNCHANGED <<pc, read, stale, had, left, unsound>>
        /\ state[v] = "none" /\ \A w \in Name \ {v} : state'[w] = state[w]
        /\ toRead \subseteq toRead'
    BY <1>2 DEF Begin, Put, TypeOK
  <2> QED
    BY <2>1 DEF Reading, Chosen, Sound, Whole, Read
<1>3. ASSUME NEW v \in Name, Complete(v) \/ Touch(v) PROVE InstallInv'
  <2>1. /\ UNCHANGED <<pc, toRead, read, stale, had, left, unsound>>
        /\ \A w \in Name : state[w] = "whole" => state'[w] = "whole"
    BY <1>3 DEF Complete, Touch, Put, TypeOK
  <2> QED
    BY <2>1 DEF Reading, Chosen, Sound, Whole, Read
<1>4. ASSUME NEW v \in Name, Uninstall(v) PROVE InstallInv'
  <2>1. /\ UNCHANGED <<pc, toRead, read, stale, had, unsound>> /\ left \subseteq left'
        /\ pc # "idle" /\ v \notin stale => v \in left'
        /\ \A w \in Name \ {v} : state'[w] = state[w]
    BY <1>4 DEF Uninstall, Clear, TypeOK
  <2>2. pc = "list" => stale = {}
    BY DEF TypeOK
  <2> QED
    BY <2>1, <2>2 DEF Reading, Chosen, Sound, Whole, Read
<1>5. CASE Start
  <2>1. /\ pc' = "list" /\ toRead' = Existing /\ UNCHANGED <<state, read>> /\ Read = {}
        /\ had' = {g \in Group : Whole(g) # {}}
    BY <1>5 DEF Start, TypeOK
  <2> QED
    BY <2>1 DEF Reading, Chosen, Sound, Whole, Read, Existing
<1>6. ASSUME NEW v \in Name, ReadEntry(v) PROVE InstallInv'
  <2>1. /\ pc = "list" /\ pc' = "list" /\ toRead' = toRead \ {v}
        /\ UNCHANGED <<state, mtime, had, left>>
        /\ read' = IF state[v] # "none" THEN [read EXCEPT ![v] = mtime[v]] ELSE read
        /\ unsound' = IF state[v] = "partial" THEN unsound \cup {GroupOf[v]} ELSE unsound
    BY <1>6 DEF ReadEntry
  <2>2. \A w \in Name \ {v} : read'[w] = read[w]
    BY <2>1 DEF TypeOK
  <2>3. state[v] # "none" => read'[v] # 0
    BY <2>1, VersionsAssumption DEF TypeOK, Time
  <2>4. state[v] = "none" => read'[v] = read[v]
    BY <2>1
  <2> SUFFICES ASSUME NEW g \in Sound'
               PROVE  /\ \A w \in Read' : GroupOf[w] = g => state[w] = "whole"
                      /\ \E w \in Whole(g) : w \in toRead' \cup Read'
    BY <2>1 DEF Reading, Chosen, Whole
  <2>5. g \in Sound /\ (GroupOf[v] = g => state[v] # "partial")
    BY <2>1 DEF Sound
  <2>6. \A w \in Read' : GroupOf[w] = g => state[w] = "whole"
    BY <2>1, <2>2, <2>4, <2>5 DEF Reading, Read, TypeOK
  <2>7. \E w \in Whole(g) : w \in toRead' \cup Read'
    <3>1. PICK w \in Whole(g) : w \in toRead \cup Read
      BY <2>1, <2>5 DEF Reading
    <3>2. w \in Name /\ state[w] = "whole"
      BY <3>1 DEF Whole
    <3> QED
      BY <2>1, <2>2, <2>3, <3>1, <3>2 DEF Read
  <2> QED
    BY <2>6, <2>7
<1>7. CASE Choose
  <2>1. /\ pc = "list" /\ toRead = {} /\ pc' = "delete" /\ stale' = StaleVersions
        /\ UNCHANGED <<state, had, left, unsound>>
    BY <1>7 DEF Choose
  <2> SUFFICES ASSUME NEW g \in Sound PROVE Whole(g) \ StaleVersions # {}
    BY <2>1 DEF Reading, Chosen, Sound, Whole
  <2>2. PICK r \in Whole(g) : r \in Read
    BY <2>1 DEF Reading
  <2>3. PICK v \in Read \ StaleVersions : GroupOf[v] = g
    BY <2>2, NewestStays DEF Whole
  <2>4. state[v] = "whole"
    BY <2>1, <2>3 DEF Reading
  <2> QED
    BY <2>3, <2>4 DEF Whole, Read
<1>8. CASE Finish
  BY <1>8 DEF Finish, Reading, Chosen
<1>9. ASSUME NEW v \in Name, Spare(v) \/ RemoveFails(v) PROVE InstallInv'
  BY <1>9 DEF Spare, RemoveFails, Reading, Chosen, Sound, Whole
<1>10. ASSUME NEW v \in Name, Remove(v) PROVE InstallInv'
  <2>1. /\ pc = "delete" /\ pc' = "remove" /\ v \in stale
        /\ UNCHANGED <<stale, had, left, unsound>>
        /\ \A w \in Name \ {v} : state'[w] = state[w]
    BY <1>10 DEF Remove, First, Put, TypeOK
  <2> QED
    BY <2>1 DEF Reading, Chosen, Sound, Whole
<1>11. ASSUME NEW v \in Name, Removed(v) PROVE InstallInv'
  <2>1. /\ pc = "remove" /\ pc' = "delete" /\ v \in stale /\ stale' = stale \ {v}
        /\ UNCHANGED <<had, left, unsound>>
        /\ \A w \in Name \ {v} : state'[w] = state[w]
    BY <1>11 DEF Removed, First, Clear, TypeOK
  <2> QED
    BY <2>1 DEF Reading, Chosen, Sound, Whole
<1> QED
  BY <1>1, <1>2, <1>3, <1>4, <1>5, <1>6, <1>7, <1>8, <1>9, <1>10, <1>11 DEF Next, Tools, Run

(* The last whole install of a product does not go in a run unless a tool  *)
(* removed one of them meanwhile, or the run took an install that was not  *)
(* whole for one (scan.rs stale_versions, main.rs run).                    *)
THEOREM LastInstallExplainedHolds == Spec => []LastInstallExplained
<1>1. Init => InstallInv
  BY DEF Init, InstallInv, Reading, Chosen
<1>2. InstallInv /\ UNCHANGED vars => InstallInv'
  BY DEF vars, machine, InstallInv, Reading, Chosen, Sound, Whole, Read
<1>3. TypeOK /\ InstallInv => LastInstallExplained
  BY DEF TypeOK, InstallInv, Reading, Chosen, Sound, LastInstallExplained
<1> QED
  BY <1>1, <1>2, <1>3, InstallStep, VersionsTypeCorrect, PTL DEF Spec

-----------------------------------------------------------------------------
(* What stays beside an install that is to be deleted.                     *)
Beside(v) == (Peers(v) \cap (Existing \cup left)) \ stale

Standing == pc = "list" => \A v \in Read : v \in left \/ state[v] # "none"

Backed == pc \in {"delete", "remove"} => \A v \in stale : Cardinality(Beside(v)) >= Keep

LEMMA MoreBeside ==
    ASSUME NEW A \in SUBSET Name, NEW B \in SUBSET Name, A \subseteq B, Cardinality(A) >= Keep
    PROVE  Cardinality(B) >= Keep
<1>1. IsFiniteSet(Name)
  BY FS_Interval, NameType DEF Name
<1>2. IsFiniteSet(B)
  BY <1>1, FS_Subset
<1>3. IsFiniteSet(A) /\ Cardinality(A) <= Cardinality(B)
  BY <1>2, FS_Subset
<1>4. Cardinality(A) \in Nat /\ Cardinality(B) \in Nat
  BY <1>2, <1>3, FS_CardinalityType
<1> QED
  BY <1>3, <1>4, VersionsAssumption

(* Nothing is stale that is ahead of the newest stale install of a         *)
(* product, and enough is ahead of that one.                               *)
LEMMA EnoughAhead ==
    ASSUME TypeOK, NEW s \in StaleVersions
    PROVE  \E A \in SUBSET (Read \ StaleVersions) :
               Cardinality(A) >= Keep /\ \A w \in A : GroupOf[w] = GroupOf[s]
<1> DEFINE mine == {v \in StaleVersions : GroupOf[v] = GroupOf[s]}
<1>1. mine \in SUBSET Read /\ mine # {}
  BY DEF StaleVersions
<1>2. PICK top \in mine : \A w \in mine : ~Newer(w, top)
  BY <1>1, NewestOf
<1>3. Ahead(top) \subseteq Read \ StaleVersions
  BY <1>2 DEF Ahead
<1>4. Cardinality(Ahead(top)) >= Keep
  BY <1>2 DEF StaleVersions
<1> QED
  BY <1>2, <1>3, <1>4 DEF Ahead

LEMMA BackedStays ==
    ASSUME TypeOK, Backed, pc \in {"delete", "remove"}, left \subseteq left', stale' \subseteq stale,
           \A w \in Name : w \notin stale /\ state[w] # "none" => state'[w] # "none" \/ w \in left'
    PROVE  Backed'
<1> SUFFICES ASSUME NEW v \in stale' PROVE Cardinality(Beside(v)') >= Keep
  BY DEF Backed
<1>1. Cardinality(Beside(v)) >= Keep
  BY DEF Backed
<1>2. Beside(v) \subseteq Beside(v)' /\ Beside(v) \subseteq Name /\ Beside(v)' \subseteq Name
  BY DEF Beside, Peers, Existing
<1> QED
  BY <1>1, <1>2, MoreBeside

LEMMA KeptStep == TypeOK /\ Standing /\ Backed /\ Next => Standing' /\ Backed'
<1> SUFFICES ASSUME TypeOK, Standing, Backed, Next PROVE Standing' /\ Backed'
  OBVIOUS
<1> USE DEF machine
<1>1. CASE Tools
  <2>1. /\ UNCHANGED <<pc, read, stale>> /\ left \subseteq left'
        /\ \A w \in Name : pc # "idle" /\ w \notin stale /\ state[w] # "none"
                               => state'[w] # "none" \/ w \in left'
    BY <1>1 DEF Tools, Tick, Begin, Complete, Touch, Uninstall, Put, Clear, TypeOK
  <2>2. Standing'
    BY <2>1 DEF Standing, Read, TypeOK
  <2>3. CASE pc \in {"delete", "remove"}
    BY <2>1, <2>2, <2>3, BackedStays
  <2> QED
    BY <2>1, <2>2, <2>3 DEF Backed
<1>2. CASE Start
  BY <1>2 DEF Start, Standing, Backed, TypeOK, Read
<1>3. CASE Finish
  BY <1>3 DEF Finish, Standing, Backed
<1>4. ASSUME NEW v \in Name, ReadEntry(v) PROVE Standing' /\ Backed'
  BY <1>4 DEF ReadEntry, Standing, Backed, Read, TypeOK
<1>5. CASE Choose
  <2>1. /\ pc = "list" /\ pc' = "delete" /\ stale' = StaleVersions
        /\ UNCHANGED <<state, left>>
    BY <1>5 DEF Choose
  <2> SUFFICES ASSUME NEW v \in StaleVersions PROVE Cardinality(Beside(v)') >= Keep
    BY <2>1 DEF Standing, Backed
  <2>2. PICK A \in SUBSET (Read \ StaleVersions) :
            Cardinality(A) >= Keep /\ \A w \in A : GroupOf[w] = GroupOf[v]
    BY EnoughAhead
  <2>3. A \subseteq Beside(v)' /\ Beside(v)' \subseteq Name
    BY <2>1, <2>2 DEF Beside, Peers, Existing, Standing, Read
  <2> QED
    BY <2>2, <2>3, MoreBeside
<1>6. ASSUME NEW v \in Name, Spare(v) \/ Remove(v) \/ Removed(v) \/ RemoveFails(v)
      PROVE  Standing' /\ Backed'
  <2>1. /\ pc \in {"delete", "remove"} /\ pc' \in {"delete", "remove"}
        /\ left' = left /\ stale' \subseteq stale
        /\ \A w \in Name : w \notin stale => state'[w] = state[w]
    BY <1>6 DEF Spare, Remove, Removed, RemoveFails, First, Put, Clear, TypeOK
  <2> QED
    BY <2>1, BackedStays DEF Standing
<1> QED
  BY <1>1, <1>2, <1>3, <1>4, <1>5, <1>6 DEF Next, Run

(* As many installs of a product as are to be kept are there while one of  *)
(* it is deleted, but for those that its tool has removed since the run    *)
(* began (scan.rs stale_versions, main.rs run).                            *)
THEOREM KeptBesideHolds == Spec => []KeptBeside
<1>1. Init => Standing /\ Backed
  BY DEF Init, Standing, Backed
<1>2. Standing /\ Backed /\ UNCHANGED vars => Standing' /\ Backed'
  BY DEF vars, machine, Standing, Backed, Beside, Peers, Existing, Read
<1>3. Backed => KeptBeside
  BY DEF Backed, Beside, KeptBeside
<1> QED
  BY <1>1, <1>2, <1>3, KeptStep, VersionsTypeCorrect, PTL DEF Spec
=============================================================================
