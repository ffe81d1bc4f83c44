--------------------------- MODULE ReclaimProofs ---------------------------
(* Proofs about Reclaim, for every number of candidates, every set of      *)
(* entries and lock names, every age and every bound on the clock.         *)
EXTENDS Reclaim, TLAPS

LEMMA Bounds ==
    /\ MaxNow \in Nat /\ N \in Nat
    /\ 1 \in Time /\ 0 \in 0 .. MaxNow /\ \A t \in Time : t \in 0 .. MaxNow
    /\ 1 \in Cand
BY CandAssumption, TimeAssumption DEF Time, Cand

LEMMA TypeInit == Init => TypeOK
<1> SUFFICES ASSUME Init PROVE TypeOK
  OBVIOUS
<1>1. MachineOK
  BY Bounds DEF Init, MachineOK
<1>2. LoopOK
  BY Bounds DEF Init, LoopOK, Reasons
<1>3. ItemOK
  BY Bounds DEF Init, ItemOK, NoProbe
<1> QED
  BY <1>1, <1>2, <1>3 DEF TypeOK

(* What a stamp changes, and what it leaves alone.                         *)
LEMMA StampEffect ==
    ASSUME MachineOK, ItemOK, NEW c \in Cand, NEW e \in Entry, NEW m \in 0 .. MaxNow,
           Stamp(c, e, m)
    PROVE  /\ mtime' \in [Cand -> [Entry -> 0 .. MaxNow]]
           /\ mtime'[c][e] = m
           /\ \A d \in Cand, f \in Entry :
                  d # c \/ f # e => mtime'[d][f] = mtime[d][f]
           /\ toWalk' \subseteq Entry /\ late' \subseteq Entry
BY DEF MachineOK, ItemOK, Stamp

(* The stamp BeginWork puts on a lock file is a time.                      *)
LEMMA LockStampType ==
    ASSUME MachineOK, NEW c \in Cand
    PROVE  /\ LockOf[c] \in Entry
           /\ (IF c \in Refreshes \/ mtime[c][LockOf[c]] = 0
               THEN now ELSE mtime[c][LockOf[c]]) \in 0 .. MaxNow
BY CacheAssumption, Bounds DEF MachineOK

LEMMA MachineKept == MachineOK /\ UNCHANGED <<now, env>> => MachineOK'
BY DEF MachineOK, env, Present

LEMMA MachineStep == TypeOK /\ Next => MachineOK'
<1> SUFFICES ASSUME MachineOK, LoopOK, ItemOK, Next PROVE MachineOK'
  BY DEF TypeOK
<1>1. CASE Tick \/ StepBack
  BY <1>1, TimeAssumption DEF MachineOK, Tick, StepBack, Time, env, Present
<1>2. ASSUME NEW c \in Cand, NEW e \in Entry, NEW m \in 0 .. MaxNow, Stamp(c, e, m),
             now' = now, dir' = [dir EXCEPT ![c] = TRUE],
             session' \in [Cand -> 0 .. MaxNow]
      PROVE  MachineOK'
  <2>1. /\ mtime' \in [Cand -> [Entry -> 0 .. MaxNow]]
        /\ \A d \in Cand, f \in Entry : d # c => mtime'[d][f] = mtime[d][f]
    BY <1>2, StampEffect
  <2>2. dir' \in [Cand -> BOOLEAN] /\ \A d \in Cand : ~dir'[d] => d # c /\ ~dir[d]
    BY <1>2 DEF MachineOK
  <2>3. \A d \in Cand : ~dir'[d] => Present(d)' = {}
    BY <2>1, <2>2 DEF MachineOK, Present
  <2> QED
    BY <1>2, <2>1, <2>2, <2>3 DEF MachineOK
<1>3. ASSUME NEW c \in Cand, BeginWork(c) PROVE MachineOK'
  <2>1. session' \in [Cand -> 0 .. MaxNow]
    BY <1>3, TimeAssumption DEF BeginWork, MachineOK, Time
  <2> QED
    BY <1>2, <1>3, <2>1, LockStampType DEF BeginWork
<1>4. ASSUME NEW c \in Cand, NEW e \in Entry, WriteEntry(c, e) PROVE MachineOK'
  <2>1. PICK m \in 0 .. MaxNow : Stamp(c, e, m)
    BY <1>4, TimeAssumption DEF WriteEntry, MachineOK, Time
  <2> QED
    BY <1>2, <1>4, <2>1 DEF WriteEntry, MachineOK
<1>5. ASSUME NEW c \in Cand, EndWork(c) PROVE MachineOK'
  <2>1. /\ mtime' \in [Cand -> [Entry -> 0 .. MaxNow]]
        /\ \A d \in Cand : Present(d)' \subseteq Present(d)
    BY <1>5, Bounds, CacheAssumption DEF EndWork, MachineOK, Present
  <2> QED
    BY <1>5, <2>1, TimeAssumption DEF EndWork, Leave, MachineOK
<1>6. ASSUME NEW c \in Cand, Crash(c) PROVE MachineOK'
  BY <1>6, TimeAssumption DEF Crash, Leave, MachineOK, Present
<1>7. ASSUME NEW c \in Cand, OtherClean(c) PROVE MachineOK'
  <2>1. /\ mtime' \in [Cand -> [Entry -> 0 .. MaxNow]]
        /\ \A d \in Cand : Present(d)' = IF d = c THEN {} ELSE Present(d)
    BY <1>7, Bounds DEF OtherClean, NoStamps, MachineOK, Present
  <2> QED
    BY <1>7, <2>1 DEF OtherClean, MachineOK
<1>8. ASSUME NEW e \in Entry, Unlink(e) PROVE MachineOK'
  <2>1. /\ mtime' \in [Cand -> [Entry -> 0 .. MaxNow]]
        /\ \A d \in Cand : Present(d)' \subseteq Present(d)
    BY <1>8, Bounds DEF Unlink, MachineOK, LoopOK, Present
  <2> QED
    BY <1>8, <2>1 DEF Unlink, MachineOK
<1>9. CASE RemoveDir
  BY <1>9 DEF RemoveDir, MachineOK, Present
<1>10. CASE \/ Start \/ ReadPresent \/ ReadExists \/ ProbeLock \/ OpenDir
            \/ \E e \in Entry : WalkEntry(e)
            \/ Skip \/ Decide \/ OpenRemove \/ RemoveFails \/ Retain
  BY <1>10, MachineKept
  DEF Start, ReadPresent, ReadExists, ProbeLock, OpenDir, WalkEntry, Skip, Decide,
      OpenRemove, RemoveFails, Retain
<1> QED
  BY <1>1, <1>3, <1>4, <1>5, <1>6, <1>7, <1>8, <1>9, <1>10 DEF Next, Machine, Run

(* Record fills in an item and moves the loop on.                          *)
LEMMA RecordLoop ==
    ASSUME LoopOK, NEW r \in Reasons, Record(r), UNCHANGED <<t0, seen, lost>>,
           touched' \subseteq Cand
    PROVE  LoopOK'
<1>1. cur' \in Cand
  <2>1. N \in Nat /\ cur \in 1 .. N
    BY CandAssumption DEF LoopOK, Cand
  <2>2. cur' = IF cur < N THEN cur + 1 ELSE cur
    BY DEF Record
  <2> QED
    BY <2>1, <2>2 DEF Cand
<1> QED
  BY <1>1 DEF LoopOK, Record

(* The reason an item is skipped for is one of Verdicts.                   *)
LEMMA VerdictType ==
    ASSUME NEW c \in Cand PROVE Verdict(c) \in Verdicts \cup {"ok"}
BY CacheAssumption DEF Verdict, evaluate, Verdicts

LEMMA LoopStep == TypeOK /\ Next => LoopOK'
<1> SUFFICES ASSUME MachineOK, LoopOK, Next PROVE LoopOK'
  BY DEF TypeOK
<1>1. CASE Machine
  BY <1>1 DEF Machine, Tick, StepBack, BeginWork, EndWork, Crash, OtherClean, WriteEntry,
              LoopOK
<1>2. CASE Start
  BY <1>2 DEF Start, LoopOK, MachineOK, Reasons
<1>3. CASE ReadPresent
  <2>1. TargetOf[cur] \in Target
    BY CacheAssumption DEF LoopOK
  <2> QED
    BY <1>3, <2>1 DEF ReadPresent, LoopOK
<1>4. CASE ReadExists \/ ProbeLock \/ OpenDir \/ (\E e \in Entry : WalkEntry(e)) \/ Decide
  BY <1>4 DEF ReadExists, ProbeLock, OpenDir, WalkEntry, Decide, LoopOK
<1>5. CASE Skip
  <2>1. PICK r \in Reasons : Record(r)
    BY <1>5, VerdictType DEF Skip, Reasons, LoopOK
  <2> QED
    BY <1>5, <2>1, RecordLoop DEF Skip, LoopOK
<1>6. CASE OpenRemove
  <2>1. CASE dir[cur]
    BY <1>6, <2>1 DEF OpenRemove, LoopOK
  <2>2. CASE ~dir[cur]
    BY <1>6, <2>2, RecordLoop DEF OpenRemove, LoopOK, Reasons
  <2> QED
    BY <2>1, <2>2
<1>7. CASE \E e \in Entry : Unlink(e)
  BY <1>7 DEF Unlink, LoopOK
<1>8. CASE RemoveDir
  BY <1>8, RecordLoop DEF RemoveDir, LoopOK, Reasons
<1>9. CASE RemoveFails
  BY <1>9, RecordLoop DEF RemoveFails, LoopOK, Reasons
<1>10. CASE Retain
  <2>1. 1 \in Cand /\ 1 \in Time
    BY CandAssumption, TimeAssumption DEF Cand, Time
  <2> QED
    BY <1>10, <2>1 DEF Retain, LoopOK, Reasons
<1> QED
  BY <1>1, <1>2, <1>3, <1>4, <1>5, <1>6, <1>7, <1>8, <1>9, <1>10 DEF Next, Run

LEMMA ItemKept ==
    ItemOK /\ UNCHANGED <<local, toWalk, probe, late>> => ItemOK'
BY DEF ItemOK, local

(* The locals have gone out of scope.                                      *)
LEMMA RecordItem == ASSUME NEW r, Record(r) PROVE ItemOK'
BY Bounds DEF Record, NoProbe, ItemOK

LEMMA ItemStep == TypeOK /\ Next => ItemOK'
<1> SUFFICES ASSUME MachineOK, LoopOK, ItemOK, Next PROVE ItemOK'
  BY DEF TypeOK
<1>1. CASE \/ Tick \/ StepBack \/ (\E c \in Cand : OtherClean(c))
           \/ Start \/ ReadPresent \/ Decide \/ Retain
  BY <1>1, ItemKept DEF Tick, StepBack, OtherClean, Start, ReadPresent, Decide, Retain
<1>2. ASSUME NEW c \in Cand, BeginWork(c) PROVE ItemOK'
  <2>1. toWalk' \subseteq Entry /\ late' \subseteq Entry
    BY <1>2, LockStampType, StampEffect DEF BeginWork
  <2> QED
    BY <1>2, <2>1 DEF BeginWork, ItemOK, local
<1>3. ASSUME NEW c \in Cand, NEW e \in Entry, WriteEntry(c, e) PROVE ItemOK'
  <2>1. PICK m \in 0 .. MaxNow : Stamp(c, e, m)
    BY <1>3, TimeAssumption DEF WriteEntry, MachineOK, Time
  <2>2. toWalk' \subseteq Entry /\ late' \subseteq Entry
    BY <2>1, StampEffect
  <2> QED
    BY <1>3, <2>2 DEF WriteEntry, ItemOK, local
<1>4. ASSUME NEW c \in Cand, EndWork(c) \/ Crash(c) PROVE ItemOK'
  BY <1>4 DEF EndWork, Crash, Leave, ItemOK, local
<1>5. CASE ReadExists
  BY <1>5 DEF ReadExists, ItemOK, MachineOK, LoopOK
<1>6. CASE ProbeLock
  BY <1>6 DEF ProbeLock, ItemOK, MachineOK, lock_present
<1>7. CASE OpenDir
  BY <1>7 DEF OpenDir, ItemOK, Present, local
<1>8. ASSUME NEW e \in Entry, WalkEntry(e) PROVE ItemOK'
  <2>1. mtime[cur][e] \in 0 .. MaxNow
    BY DEF MachineOK, LoopOK
  <2> QED
    BY <1>8, <2>1 DEF WalkEntry, ItemOK
<1>9. CASE Skip \/ RemoveDir \/ RemoveFails
  BY <1>9, RecordItem DEF Skip, RemoveDir, RemoveFails
<1>10. CASE OpenRemove
  <2>1. CASE dir[cur]
    BY <1>10, <2>1 DEF OpenRemove, ItemOK, Present, local
  <2>2. CASE ~dir[cur]
    BY <1>10, <2>2, RecordItem DEF OpenRemove
  <2> QED
    BY <2>1, <2>2
<1>11. CASE \E e \in Entry : Unlink(e)
  BY <1>11 DEF Unlink, ItemOK, local
<1> QED
  BY <1>1, <1>2, <1>3, <1>4, <1>5, <1>6, <1>7, <1>8, <1>9, <1>10, <1>11
  DEF Next, Machine, Run

LEMMA TypeStep == TypeOK /\ [Next]_vars => TypeOK'
<1>1. TypeOK /\ UNCHANGED vars => TypeOK'
  BY MachineKept, ItemKept DEF vars, env, local, TypeOK, LoopOK
<1> QED
  BY <1>1, MachineStep, LoopStep, ItemStep DEF TypeOK

(* Every variable keeps its type (the state of `run` and of the machine).  *)
THEOREM TypeCorrect == Spec => []TypeOK
BY TypeInit, TypeStep, PTL DEF Spec

-----------------------------------------------------------------------------
(* --min-age-days.  What makes AgeGate inductive: while the walk is under  *)
(* way, `newest` bounds the stamp of every entry that is neither still to  *)
(* be read nor was stamped behind the walk's back.                         *)
WalkBound ==
    pc = "walk" => \A e \in Present(cur) \ (late \cup toWalk) : mtime[cur][e] <= newest

AgeInv == WalkBound /\ AgeGate

(* A stamp leaves every entry it does not make late, and does not queue    *)
(* for reading, as it was.                                                 *)
LEMMA StampAge ==
    ASSUME TypeOK, AgeInv, NEW c \in Cand, NEW e \in Entry, NEW m \in 0 .. MaxNow,
           Stamp(c, e, m), UNCHANGED <<pc, cur, t0, newest>>
    PROVE  AgeInv'
<1>1. \A d \in Cand, f \in Entry : d # c \/ f # e => mtime'[d][f] = mtime[d][f]
  BY StampEffect DEF TypeOK
<1>2. CASE c # cur \/ pc \notin {"walk", "remove", "unlink"}
  <2>1. (late' = late /\ toWalk' = toWalk) \/ pc \notin {"walk", "remove", "unlink"}
    BY <1>2 DEF Stamp
  <2>2. pc \in {"walk", "remove", "unlink"} => Present(cur)' = Present(cur)
    BY <1>1, <1>2 DEF Present, TypeOK, LoopOK
  <2> QED
    BY <1>1, <1>2, <2>1, <2>2 DEF AgeInv, WalkBound, AgeGate, TypeOK, LoopOK, Present
<1>3. CASE c = cur /\ pc = "walk"
  <2>1. toWalk \subseteq toWalk' /\ late \ {e} \subseteq late' /\ (e \in late' \/ e \in toWalk')
    BY <1>3 DEF Stamp
  <2>2. \A f \in (Present(cur) \ (late \cup toWalk))' :
            f \in Present(cur) \ (late \cup toWalk) /\ mtime'[cur][f] = mtime[cur][f]
    BY <1>1, <1>3, <2>1 DEF Present
  <2> QED
    BY <1>3, <2>2 DEF AgeInv, WalkBound, AgeGate
<1>4. CASE c = cur /\ pc \in {"remove", "unlink"}
  <2>1. late' = late \cup {e}
    BY <1>4 DEF Stamp
  <2>2. \A f \in (Present(cur) \ late)' :
            f \in Present(cur) \ late /\ mtime'[cur][f] = mtime[cur][f]
    BY <1>1, <1>4, <2>1 DEF Present
  <2> QED
    BY <1>4, <2>2 DEF AgeInv, WalkBound, AgeGate
<1> QED
  BY <1>2, <1>3, <1>4

(* Entries that disappear cannot break the bound.                          *)
LEMMA FewerEntries ==
    ASSUME AgeInv, UNCHANGED <<pc, cur, t0, newest, toWalk, late>>,
           \A f \in Present(cur)' : f \in Present(cur) /\ mtime'[cur][f] = mtime[cur][f]
    PROVE  AgeInv'
BY DEF AgeInv, WalkBound, AgeGate

LEMMA AgeStep == TypeOK /\ AgeInv /\ Next => AgeInv'
<1> SUFFICES ASSUME TypeOK, AgeInv, Next PROVE AgeInv'
  OBVIOUS
<1>1. CASE Tick \/ StepBack \/ \E c \in Cand : Crash(c)
  BY <1>1, FewerEntries DEF Tick, StepBack, Crash, Leave, env, local, Present
<1>2. ASSUME NEW c \in Cand, BeginWork(c) PROVE AgeInv'
  BY <1>2, StampAge, LockStampType DEF BeginWork, TypeOK, local
<1>3. ASSUME NEW c \in Cand, NEW e \in Entry, WriteEntry(c, e) PROVE AgeInv'
  <2>1. PICK m \in 0 .. MaxNow : Stamp(c, e, m)
    BY <1>3, Bounds DEF WriteEntry, TypeOK, MachineOK
  <2> QED
    BY <1>3, <2>1, StampAge DEF WriteEntry, local
<1>4. ASSUME NEW c \in Cand, EndWork(c) \/ OtherClean(c) PROVE AgeInv'
  <2>1. \A f \in Present(cur)' : f \in Present(cur) /\ mtime'[cur][f] = mtime[cur][f]
    BY <1>4 DEF EndWork, OtherClean, NoStamps, Present, TypeOK, MachineOK, LoopOK
  <2> QED
    BY <1>4, <2>1, FewerEntries DEF EndWork, OtherClean, local
<1>5. CASE Start \/ ReadPresent \/ ProbeLock \/ Retain
  BY <1>5 DEF Start, ReadPresent, ProbeLock, Retain, AgeInv, WalkBound, AgeGate
<1>6. CASE ReadExists
  <2>1. pc' = "walk" => Present(cur)' = {}
    BY <1>6 DEF ReadExists, TypeOK, MachineOK, LoopOK, Present, env
  <2> QED
    BY <1>6, <2>1 DEF ReadExists, AgeInv, WalkBound, AgeGate
<1>7. CASE OpenDir
  BY <1>7 DEF OpenDir, AgeInv, WalkBound, AgeGate, Present, env
<1>8. ASSUME NEW e \in Entry, WalkEntry(e) PROVE AgeInv'
  <2>1. newest' \in Nat /\ newest \in Nat /\ newest <= newest' /\ mtime[cur][e] <= newest'
    BY <1>8, Bounds DEF WalkEntry, TypeOK, MachineOK, LoopOK, ItemOK
  <2>2. \A f \in Present(cur) \ (late \cup toWalk') : mtime[cur][f] <= newest'
    <3> SUFFICES ASSUME NEW f \in Present(cur) \ (late \cup toWalk')
                 PROVE  mtime[cur][f] <= newest'
      OBVIOUS
    <3>1. CASE f = e
      BY <2>1, <3>1
    <3>2. CASE f # e
      <4>1. mtime[cur][f] <= newest /\ mtime[cur][f] \in Nat
        BY <1>8, <3>2, Bounds DEF WalkEntry, AgeInv, WalkBound, Present, TypeOK, MachineOK, LoopOK
      <4> QED
        BY <2>1, <4>1
    <3> QED
      BY <3>1, <3>2
  <2> QED
    BY <1>8, <2>2 DEF WalkEntry, AgeInv, WalkBound, AgeGate, Present, env
<1>9. CASE Skip \/ RemoveDir \/ RemoveFails
  BY <1>9 DEF Skip, RemoveDir, RemoveFails, Record, AgeInv, WalkBound, AgeGate
<1>10. CASE Decide
  <2>1. ~too_new /\ toWalk = {} /\ UNCHANGED <<env, cur, t0, late>> /\ pc = "walk" /\ pc' = "remove"
    BY <1>10 DEF Decide, Verdict
  <2>2. ASSUME MinAge > 0, NEW e \in Present(cur) \ late
        PROVE  mtime[cur][e] + MinAge <= t0
    <3>1. mtime[cur][e] <= newest /\ mtime[cur][e] \in Nat \ {0}
      BY <2>1, Bounds DEF AgeInv, WalkBound, Present, TypeOK, MachineOK, LoopOK
    <3>2. newest \in Nat /\ t0 \in Nat /\ MinAge \in Nat
      BY Bounds, TimeAssumption DEF TypeOK, ItemOK, LoopOK, Time
    <3>3. ~(Age < MinAge)
      BY <2>1, <2>2, <3>1, <3>2 DEF too_new
    <3> QED
      BY <2>2, <3>1, <3>2, <3>3 DEF Age
  <2> QED
    BY <2>1, <2>2 DEF AgeInv, WalkBound, AgeGate, Present, env
<1>11. CASE OpenRemove
  <2>1. CASE dir[cur]
    BY <1>11, <2>1 DEF OpenRemove, AgeInv, WalkBound, AgeGate, Present, env
  <2>2. CASE ~dir[cur]
    BY <1>11, <2>2 DEF OpenRemove, Record, AgeInv, WalkBound, AgeGate
  <2> QED
    BY <2>1, <2>2
<1>12. ASSUME NEW e \in Entry, Unlink(e) PROVE AgeInv'
  <2>1. \A f \in Present(cur)' : f \in Present(cur) /\ mtime'[cur][f] = mtime[cur][f]
    BY <1>12 DEF Unlink, Present, TypeOK, MachineOK, LoopOK
  <2> QED
    BY <1>12, <2>1 DEF Unlink, AgeInv, WalkBound, AgeGate, Present
<1> QED
  BY <1>1, <1>2, <1>3, <1>4, <1>5, <1>6, <1>7, <1>8, <1>9, <1>10, <1>11, <1>12
  DEF Next, Machine, Run

(* --min-age-days holds against the real clock and the real tools: nothing *)
(* a run deletes was stamped within MinAge of the run, save entries that   *)
(* were stamped after the walk had read them (main.rs push_item, too_new). *)
THEOREM AgeGateHolds == Spec => []AgeGate
<1>1. Init => AgeInv
  BY DEF Init, AgeInv, WalkBound, AgeGate
<1>2. TypeOK /\ AgeInv /\ UNCHANGED vars => AgeInv'
  BY DEF vars, AgeInv, WalkBound, AgeGate, Present
<1>3. AgeInv => AgeGate
  BY DEF AgeInv
<1> QED
  BY <1>1, <1>2, <1>3, AgeStep, TypeCorrect, PTL DEF Spec
-----------------------------------------------------------------------------
(* The lock probe.  A tool that stamps its lock holds one stamped with the *)
(* start of its session; if the clock is never set back, no session lies   *)
(* in the future; and the probe's verdict keeps meaning what it meant for  *)
(* as long as the tool it saw is at work.                                  *)
LockStamped ==
    \A c \in Refreshes : session[c] # 0 /\ mtime[c][LockOf[c]] # 0
                            => mtime[c][LockOf[c]] = session[c]

SessionsPast == ~ClockBack => \A c \in Cand : session[c] <= now

(* The tool that held its lock at the probe had worked for LockFresh, or   *)
(* started in what was then the future.                                    *)
LongHeld == \/ session[cur] + LockFresh <= probe.at
            \/ ClockBack /\ probe.at < session[cur]

ProbeTruth ==
    probe.live =>
        /\ session[cur] # 0
        /\ pc \in {"open", "walk", "remove", "unlink"}
        /\ LockOf[cur] \in LockNames /\ cur \in Refreshes /\ ~locked => LongHeld

RemovesUnlocked == pc \in {"remove", "unlink"} => ~locked

LockInv == LockStamped /\ SessionsPast /\ ProbeTruth /\ RemovesUnlocked

LEMMA LockStampedStep == TypeOK /\ LockStamped /\ Next => LockStamped'
<1> SUFFICES ASSUME MachineOK, LoopOK, ItemOK, LockStamped, Next PROVE LockStamped'
  BY DEF TypeOK
<1>1. ASSUME NEW c \in Cand, BeginWork(c) PROVE LockStamped'
  <2> DEFINE m == IF c \in Refreshes \/ mtime[c][LockOf[c]] = 0
                  THEN now ELSE mtime[c][LockOf[c]]
  <2>1. m \in 0 .. MaxNow /\ LockOf[c] \in Entry /\ Stamp(c, LockOf[c], m)
    BY <1>1, LockStampType DEF BeginWork
  <2>2. c \in Refreshes => m = now
    OBVIOUS
  <2> HIDE DEF m
  <2>3. /\ mtime'[c][LockOf[c]] = m
        /\ \A d \in Cand, f \in Entry : d # c => mtime'[d][f] = mtime[d][f]
    BY <2>1, StampEffect
  <2>4. session' = [session EXCEPT ![c] = now]
    BY <1>1 DEF BeginWork
  <2> QED
    BY <2>2, <2>3, <2>4, CacheAssumption DEF LockStamped, MachineOK
<1>2. ASSUME NEW c \in Cand, NEW e \in Entry, WriteEntry(c, e) PROVE LockStamped'
  <2>1. PICK m \in 0 .. MaxNow : Stamp(c, e, m)
    BY <1>2, Bounds DEF WriteEntry, MachineOK
  <2>2. e # LockOf[c] /\ session' = session
    BY <1>2 DEF WriteEntry
  <2>3. \A d \in Cand, f \in Entry : d # c \/ f # e => mtime'[d][f] = mtime[d][f]
    BY <2>1, StampEffect
  <2>4. \A d \in Cand : LockOf[d] \in Entry
    BY CacheAssumption
  <2> QED
    BY <2>2, <2>3, <2>4, CacheAssumption DEF LockStamped
<1>3. ASSUME NEW c \in Cand, EndWork(c) \/ Crash(c) \/ OtherClean(c) PROVE LockStamped'
  BY <1>3, CacheAssumption DEF EndWork, Crash, OtherClean, NoStamps, Leave, LockStamped, MachineOK
<1>4. ASSUME NEW e \in Entry, Unlink(e) PROVE LockStamped'
  BY <1>4, CacheAssumption DEF Unlink, LockStamped, MachineOK, LoopOK
<1>5. CASE UNCHANGED <<mtime, session>>
  BY <1>5 DEF LockStamped
<1>6. CASE \/ Tick \/ StepBack \/ Start \/ ReadPresent \/ ReadExists \/ ProbeLock \/ OpenDir
           \/ (\E e \in Entry : WalkEntry(e))
           \/ Skip \/ Decide \/ OpenRemove \/ RemoveDir \/ RemoveFails \/ Retain
  BY <1>5, <1>6
  DEF Tick, StepBack, Start, ReadPresent, ReadExists, ProbeLock, OpenDir, WalkEntry, Skip,
      Decide, OpenRemove, RemoveDir, RemoveFails, Retain, env
<1> QED
  BY <1>1, <1>2, <1>3, <1>4, <1>6 DEF Next, Machine, Run

LEMMA SessionsPastStep == TypeOK /\ SessionsPast /\ Next => SessionsPast'
<1> SUFFICES ASSUME MachineOK, SessionsPast, Next, ~ClockBack PROVE \A c \in Cand : session'[c] <= now'
  BY DEF TypeOK, SessionsPast
<1>1. now \in Nat /\ \A c \in Cand : session[c] \in Nat /\ session[c] <= now
  BY Bounds DEF MachineOK, SessionsPast
<1>2. now' = now \/ now' = now + 1
  BY ConfigAssumption
  DEF Next, Machine, Run, Tick, StepBack, BeginWork, WriteEntry, EndWork, Crash, OtherClean,
      Start, ReadPresent, ReadExists, ProbeLock, OpenDir, WalkEntry, Skip, Decide, OpenRemove,
      Unlink, RemoveDir, RemoveFails, Retain
<1>3. \A c \in Cand : session'[c] \in {session[c], now, 0}
  BY DEF MachineOK, Next, Machine, Run, Tick, StepBack, BeginWork, WriteEntry, EndWork, Crash,
      OtherClean, Leave, Start, ReadPresent, ReadExists, ProbeLock, OpenDir, WalkEntry, Skip,
      Decide, OpenRemove, Unlink, RemoveDir, RemoveFails, Retain, env
<1> QED
  BY <1>1, <1>2, <1>3

(* Once the item is recorded no tool is being watched.                     *)
LEMMA RecordLock == ASSUME NEW r, Record(r) PROVE ProbeTruth' /\ RemovesUnlocked'
BY DEF Record, NoProbe, ProbeTruth, RemovesUnlocked

LEMMA ProbeTruthStep == TypeOK /\ LockInv /\ Next => (ProbeTruth /\ RemovesUnlocked)'
<1> SUFFICES ASSUME MachineOK, LoopOK, ItemOK, LockInv, Next
             PROVE  ProbeTruth' /\ RemovesUnlocked'
  BY DEF TypeOK
<1>1. CASE UNCHANGED <<probe, locked, cur, pc>> /\ (probe.live => session'[cur] = session[cur])
  BY <1>1 DEF LockInv, ProbeTruth, RemovesUnlocked, LongHeld
<1>2. CASE Tick \/ StepBack \/ \E c \in Cand : OtherClean(c)
                            \/ \E e \in Entry : WriteEntry(c, e)
  BY <1>1, <1>2 DEF Tick, StepBack, OtherClean, WriteEntry, env, local
<1>3. ASSUME NEW c \in Cand, BeginWork(c) PROVE ProbeTruth' /\ RemovesUnlocked'
  <2>1. probe.live => c # cur
    BY <1>3 DEF BeginWork, LockInv, ProbeTruth
  <2> QED
    BY <1>1, <1>3, <2>1 DEF BeginWork, MachineOK, LoopOK, local
<1>4. ASSUME NEW c \in Cand, EndWork(c) \/ Crash(c) PROVE ProbeTruth' /\ RemovesUnlocked'
  <2>1. CASE c = cur
    <3>1. ~probe'.live /\ UNCHANGED <<pc, locked>>
      BY <1>4, <2>1 DEF EndWork, Crash, Leave, ItemOK, local
    <3> QED
      BY <3>1 DEF LockInv, ProbeTruth, RemovesUnlocked
  <2>2. CASE c # cur
    BY <1>1, <1>4, <2>2 DEF EndWork, Crash, Leave, MachineOK, LoopOK, local
  <2> QED
    BY <2>1, <2>2
<1>5. CASE Start \/ ReadPresent \/ ReadExists \/ Retain
  <2>1. ~probe.live /\ probe' = probe /\ pc' \notin {"remove", "unlink"}
    BY <1>5 DEF Start, ReadPresent, ReadExists, Retain, LockInv, ProbeTruth
  <2> QED
    BY <2>1 DEF ProbeTruth, RemovesUnlocked
<1>6. CASE ProbeLock
  <2>1. ASSUME session[cur] # 0, mtime[cur][LockOf[cur]] # 0,
               LockOf[cur] \in LockNames, cur \in Refreshes, ~lock_present(cur)
        PROVE  session[cur] + LockFresh <= now \/ (ClockBack /\ now < session[cur])
    <3>1. mtime[cur][LockOf[cur]] = session[cur]
      BY <2>1 DEF LockInv, LockStamped
    <3>2. ~FreshLock(cur, LockOf[cur])
      BY <2>1 DEF lock_present
    <3>3. session[cur] \in Nat /\ now \in Nat /\ LockFresh \in Nat
      BY Bounds, TimeAssumption DEF MachineOK, LoopOK
    <3>4. ~ClockBack => session[cur] <= now
      BY DEF LockInv, SessionsPast, LoopOK
    <3> QED
      BY <2>1, <3>1, <3>2, <3>3, <3>4, ConfigAssumption DEF FreshLock
  <2>2. /\ probe' = [at |-> now, live |-> session[cur] # 0 /\ mtime[cur][LockOf[cur]] # 0]
        /\ locked' = lock_present(cur) /\ pc' = "open" /\ UNCHANGED <<cur, session>>
    BY <1>6 DEF ProbeLock, env
  <2> QED
    BY <2>1, <2>2 DEF ProbeTruth, RemovesUnlocked, LongHeld
<1>7. CASE OpenDir \/ (\E e \in Entry : WalkEntry(e))
  <2>1. /\ UNCHANGED <<probe, locked, cur, session>>
        /\ pc' = "walk"
    BY <1>7 DEF OpenDir, WalkEntry, env, local
  <2> QED
    BY <2>1 DEF LockInv, ProbeTruth, RemovesUnlocked, LongHeld
<1>8. CASE Skip \/ RemoveDir \/ RemoveFails
  BY <1>8, RecordLock DEF Skip, RemoveDir, RemoveFails
<1>9. CASE Decide
  <2>1. ~locked
    BY <1>9, CacheAssumption DEF Decide, Verdict, evaluate, LoopOK
  <2> QED
    BY <1>9, <2>1 DEF Decide, LockInv, ProbeTruth, RemovesUnlocked, LongHeld, env, local
<1>10. CASE OpenRemove
  <2>1. CASE dir[cur]
    <3>1. /\ UNCHANGED <<probe, locked, cur, session>>
          /\ pc = "remove" /\ pc' = "unlink"
      BY <1>10, <2>1 DEF OpenRemove, env, local
    <3> QED
      BY <3>1 DEF LockInv, ProbeTruth, RemovesUnlocked, LongHeld
  <2>2. CASE ~dir[cur]
    BY <1>10, <2>2, RecordLock DEF OpenRemove
  <2> QED
    BY <2>1, <2>2
<1>11. CASE \E e \in Entry : Unlink(e)
  BY <1>1, <1>11 DEF Unlink, local
<1> QED
  BY <1>2, <1>3, <1>4, <1>5, <1>6, <1>7, <1>8, <1>9, <1>10, <1>11 DEF Next, Machine, Run

(* What the lock probe is worth: a tool that held its lock when it was     *)
(* probed and is still at work loses its cache only for one of the reasons *)
(* WipeExplained lists (scan.rs lock_present, main.rs push_item).          *)
THEOREM WipeExplainedHolds == Spec => []WipeExplained
<1>1. Init => LockInv
  <2> SUFFICES ASSUME Init PROVE LockInv
    OBVIOUS
  <2>1. LockStamped
    BY CacheAssumption DEF Init, LockStamped
  <2>2. SessionsPast
    BY DEF Init, SessionsPast
  <2>3. ProbeTruth /\ RemovesUnlocked
    BY DEF Init, NoProbe, ProbeTruth, RemovesUnlocked
  <2> QED
    BY <2>1, <2>2, <2>3 DEF LockInv
<1>2. TypeOK /\ LockInv /\ Next => LockInv'
  BY LockStampedStep, SessionsPastStep, ProbeTruthStep DEF LockInv
<1>3. LockInv /\ UNCHANGED vars => LockInv'
  BY DEF vars, LockInv, LockStamped, SessionsPast, ProbeTruth, LongHeld, RemovesUnlocked
<1>4. LockInv => WipeExplained
  BY DEF LockInv, ProbeTruth, LongHeld, RemovesUnlocked, WipeExplained
<1> QED
  BY <1>1, <1>2, <1>3, <1>4, TypeCorrect, PTL DEF Spec
-----------------------------------------------------------------------------
(* The report.  While the loop is under way everything removed from lies   *)
(* behind it, except that the deletion under way may have begun; only a    *)
(* candidate that passed every check reaches a deletion.                   *)
Behind ==
    /\ pc \in {"present", "exists", "lock", "open", "walk", "remove"}
           => \A c \in touched : c < cur
    /\ pc = "unlink" => \A c \in touched : c <= cur

Deletable == {c \in Cand : Apply /\ PathVerdict[c] = "ok" /\ c \notin Gated}

Owned == {"deleted", "delete failed"}

Judged == pc \in {"remove", "unlink"} => cur \in Deletable

IdleAtFirst == pc = "idle" => cur = 1

ReportInv == Behind /\ Judged /\ IdleAtFirst /\ RemovalsReported

(* Recording an item that is not the deletion under way, or is its         *)
(* outcome, keeps the report true.                                         *)
LEMMA RecordReport ==
    ASSUME LoopOK, ReportInv, NEW r \in Reasons,
           reason' = [reason EXCEPT ![cur] = r],
           cur' = IF cur < N THEN cur + 1 ELSE cur,
           pc' = IF cur < N THEN "present" ELSE "retain",
           touched' \subseteq touched \cup {cur},
           pc # "idle" /\ pc # "retain",
           cur \in touched' => cur \in Deletable, cur \in touched' => r \in Owned
    PROVE  ReportInv'
<1>1. N \in Nat /\ cur \in 1 .. N /\ touched \subseteq 1 .. N
  BY Bounds DEF LoopOK, Cand
<1>2. \A c \in touched : c <= cur
  <2> SUFFICES ASSUME NEW c \in touched PROVE c <= cur
    OBVIOUS
  <2>1. c \in Int /\ cur \in Int
    BY <1>1
  <2>2. c < cur \/ c <= cur
    BY DEF ReportInv, Behind, LoopOK
  <2> QED
    BY <2>1, <2>2
<1>3. Behind'
  <2>1. CASE cur < N
    <3>1. ASSUME NEW c \in touched' PROVE c < cur'
      <4>1. cur' = cur + 1 /\ c \in 1 .. N /\ c <= cur
        BY <1>1, <1>2, <2>1
      <4> QED
        BY <1>1, <4>1
    <3> QED
      BY <2>1, <3>1 DEF Behind
  <2>2. CASE ~(cur < N)
    BY <2>2 DEF Behind
  <2> QED
    BY <2>1, <2>2
<1>4. Judged' /\ IdleAtFirst'
  BY DEF Judged, IdleAtFirst
<1>5. ASSUME NEW c \in touched'
      PROVE  c \in Deletable /\ reason'[c] \in Owned
  <2>1. CASE c = cur
    BY <1>5, <2>1, <1>1 DEF LoopOK, Cand
  <2>2. CASE c # cur
    <3>1. c \in touched
      BY <1>5, <2>2
    <3>2. c \in Deletable /\ reason[c] \in Owned
      BY <2>2, <3>1 DEF ReportInv, RemovalsReported, Deletable, Owned, LoopOK
    <3> QED
      BY <2>2, <3>1, <3>2 DEF LoopOK
  <2> QED
    BY <2>1, <2>2
<1>6. RemovalsReported'
  BY <1>5 DEF RemovalsReported, Deletable, Owned
<1> QED
  BY <1>3, <1>4, <1>6 DEF ReportInv

LEMMA ReportStep == TypeOK /\ ReportInv /\ Next => ReportInv'
<1> SUFFICES ASSUME LoopOK, ReportInv, Next PROVE ReportInv'
  BY DEF TypeOK
<1>1. CASE Machine
  <2>1. UNCHANGED <<pc, cur, reason, touched>>
    BY <1>1 DEF Machine, Tick, StepBack, BeginWork, WriteEntry, EndWork, Crash, OtherClean
  <2> QED
    BY <2>1 DEF ReportInv, Behind, Judged, IdleAtFirst, RemovalsReported
<1>2. CASE Start
  BY <1>2 DEF Start, ReportInv, Behind, Judged, IdleAtFirst, RemovalsReported
<1>3. CASE ReadPresent \/ ReadExists \/ ProbeLock \/ OpenDir \/ \E e \in Entry : WalkEntry(e)
  <2>1. /\ UNCHANGED <<cur, reason, touched>>
        /\ pc \in {"present", "exists", "lock", "open", "walk"}
        /\ pc' \in {"exists", "lock", "open", "walk"}
    BY <1>3 DEF ReadPresent, ReadExists, ProbeLock, OpenDir, WalkEntry
  <2> QED
    BY <2>1 DEF ReportInv, Behind, Judged, IdleAtFirst, RemovalsReported
<1>4. CASE Decide
  <2>1. /\ UNCHANGED <<cur, reason, touched>>
        /\ pc = "walk" /\ pc' = "remove" /\ Verdict(cur) = "ok" /\ Apply
    BY <1>4 DEF Decide
  <2>2. cur \in Deletable
    BY <2>1, CacheAssumption DEF Verdict, evaluate, Deletable, LoopOK
  <2> QED
    BY <2>1, <2>2 DEF ReportInv, Behind, Judged, IdleAtFirst, RemovalsReported, Deletable
<1>5. ASSUME pc \in {"walk", "remove"}, NEW r \in Reasons, Record(r), touched' = touched
      PROVE  ReportInv'
  <2>1. cur \notin touched
    BY <1>5, Bounds DEF ReportInv, Behind, LoopOK, Cand
  <2> QED
    BY <1>5, <2>1, RecordReport DEF Record
<1>6. CASE Skip
  <2>1. \E r \in Reasons : Record(r)
    BY <1>6, VerdictType DEF Skip, Reasons, LoopOK
  <2> QED
    BY <1>5, <1>6, <2>1 DEF Skip
<1>7. CASE OpenRemove
  <2>1. CASE dir[cur]
    <3>1. /\ UNCHANGED <<cur, reason, touched>> /\ pc = "remove" /\ pc' = "unlink"
      BY <1>7, <2>1 DEF OpenRemove
    <3>2. \A c \in touched : c <= cur
      BY <3>1, Bounds DEF ReportInv, Behind, LoopOK, Cand
    <3> QED
      BY <3>1, <3>2 DEF ReportInv, Behind, Judged, IdleAtFirst, RemovalsReported, Deletable
  <2>2. CASE ~dir[cur]
    BY <1>5, <1>7, <2>2 DEF OpenRemove, Reasons
  <2> QED
    BY <2>1, <2>2
<1>8. ASSUME NEW e \in Entry, Unlink(e) PROVE ReportInv'
  <2>1. /\ UNCHANGED <<cur, reason, pc>> /\ pc = "unlink" /\ touched' = touched \cup {cur}
    BY <1>8 DEF Unlink
  <2>2. cur \in Deletable /\ cur <= cur
    BY <2>1, Bounds DEF ReportInv, Judged, LoopOK, Cand
  <2> QED
    BY <2>1, <2>2 DEF ReportInv, Behind, Judged, IdleAtFirst, RemovalsReported, Deletable
<1>9. CASE RemoveDir
  <2>1. cur \in Deletable
    BY <1>9 DEF RemoveDir, ReportInv, Judged
  <2> QED
    BY <1>9, <2>1, RecordReport DEF RemoveDir, Record, Reasons, Owned
<1>10. CASE RemoveFails
  <2>1. cur \in Deletable
    BY <1>10 DEF RemoveFails, ReportInv, Judged
  <2> QED
    BY <1>10, <2>1, RecordReport DEF RemoveFails, Record, Reasons, Owned
<1>11. CASE Retain
  <2>1. /\ cur' = 1 /\ pc' = "idle" /\ pc = "retain" /\ touched' = touched
        /\ \A c \in Cand : reason[c] # "not present" => reason'[c] = reason[c]
    BY <1>11 DEF Retain
  <2> QED
    BY <2>1 DEF ReportInv, Behind, Judged, IdleAtFirst, RemovalsReported, LoopOK
<1> QED
  BY <1>1, <1>2, <1>3, <1>4, <1>6, <1>7, <1>8, <1>9, <1>10, <1>11 DEF Next, Run

(* Whatever a run removes from was allowed to go, and is reported as       *)
(* deleted or as a failed delete, also when the deletion stopped half way  *)
(* and after the retain (main.rs push_item, remove_path, run).             *)
THEOREM RemovalsReportedHolds == Spec => []RemovalsReported
<1>1. Init => ReportInv
  BY DEF Init, ReportInv, Behind, Judged, IdleAtFirst, RemovalsReported
<1>2. ReportInv /\ UNCHANGED vars => ReportInv'
  BY DEF vars, ReportInv, Behind, Judged, IdleAtFirst, RemovalsReported
<1>3. ReportInv => RemovalsReported
  BY DEF ReportInv
<1> QED
  BY <1>1, <1>2, <1>3, ReportStep, TypeCorrect, PTL DEF Spec

(* An item says "deleted" only when nothing is left at its path, whatever  *)
(* tools and other cleaners did in the meantime (main.rs remove_path).     *)
THEOREM DeletedIsGoneHolds == Spec => DeletedIsGone
<1> DEFINE Gone == \A c \in Cand : reason'[c] = "deleted" /\ reason[c] # "deleted"
                                    => ~dir'[c] /\ \A e \in Entry : mtime'[c][e] = 0
<1>1. ASSUME TypeOK, Next PROVE Gone
  <2>1. CASE RemoveDir
    <3>1. \A c \in Cand \ {cur} : reason'[c] = reason[c]
      BY <1>1, <2>1 DEF RemoveDir, Record, TypeOK, LoopOK
    <3>2. ~dir'[cur] /\ \A e \in Entry : mtime'[cur][e] = 0
      BY <1>1, <2>1 DEF RemoveDir, Present, TypeOK, MachineOK, LoopOK
    <3> QED
      BY <3>1, <3>2
  <2>2. ASSUME NEW r, r # "deleted", Record(r) PROVE Gone
    BY <1>1, <2>2 DEF Record, TypeOK, LoopOK
  <2>3. CASE Skip
    <3>1. \E r \in Verdicts \cup {"dry-run"} : Record(r)
      BY <1>1, <2>3, VerdictType DEF Skip, TypeOK, LoopOK
    <3> QED
      BY <2>2, <3>1 DEF Verdicts
  <2>4. CASE RemoveFails
    BY <2>2, <2>4 DEF RemoveFails
  <2>5. CASE OpenRemove
    BY <2>2, <2>5 DEF OpenRemove
  <2>6. CASE Start \/ Retain
    BY <2>6 DEF Start, Retain
  <2>7. CASE UNCHANGED reason
    BY <2>7
  <2>8. CASE \/ Machine \/ ReadPresent \/ ReadExists \/ ProbeLock \/ OpenDir \/ Decide
             \/ \E e \in Entry : WalkEntry(e) \/ Unlink(e)
    BY <2>7, <2>8
    DEF Machine, Tick, StepBack, BeginWork, WriteEntry, EndWork, Crash, OtherClean,
        ReadPresent, ReadExists, ProbeLock, OpenDir, Decide, WalkEntry, Unlink
  <2> QED
    BY <1>1, <2>1, <2>3, <2>4, <2>5, <2>6, <2>8 DEF Next, Run
<1>2. TypeOK /\ [Next]_vars => [Gone]_vars
  BY <1>1
<1> QED
  BY <1>2, TypeCorrect, PTL DEF Spec, DeletedIsGone
=============================================================================
