---------------------------- MODULE CleanupProofs ----------------------------
(* Reclaim implements Cleanup, for any number of candidates, entries and   *)
(* ticks: what a caller is promised of a run holds of every interleaving   *)
(* of its file-system calls with the tools'.                               *)
EXTENDS ReclaimProofs

(* The loop settles one candidate after the other: those behind it have an *)
(* outcome, those ahead have none, and it ends behind the last.            *)
Settling ==
    pc # "idle" =>
        /\ pc = "retain" => cur = N
        /\ \A c \in Cand : reason[c] = "none" <=> c > cur \/ (c = cur /\ pc # "retain")

LEMMA OutcomeOf ==
    /\ Outcome("none") = "none" /\ Outcome("deleted") = "deleted"
    /\ Outcome("delete failed") = "failed" /\ Outcome("dropped") = "hidden"
    /\ \A r \in Verdicts \cup {"dry-run"} : Outcome(r) = "kept"
    /\ \A r : Outcome(r) = "none" => r = "none"
  BY DEF Outcome, Verdicts

LEMMA RecordSettles ==
    ASSUME LoopOK, Settling, NEW r \in Reasons \ {"none"}, Record(r),
           pc # "idle", pc # "retain"
    PROVE  Settling'
<1>1. N \in Nat /\ cur \in 1 .. N /\ Cand = 1 .. N /\ reason \in [Cand -> Reasons]
  BY Bounds DEF LoopOK, Cand
<1>2. \A c \in Cand : reason'[c] = IF c = cur THEN r ELSE reason[c]
  BY <1>1 DEF Record
<1>3. \A c \in Cand : reason'[c] = "none" <=> c > cur
  BY <1>1, <1>2 DEF Settling
<1>4. CASE cur < N
  BY <1>1, <1>3, <1>4 DEF Settling, Record
<1>5. CASE ~(cur < N)
  BY <1>1, <1>3, <1>5 DEF Settling, Record
<1> QED
  BY <1>4, <1>5

LEMMA SettlingStep == TypeOK /\ ReportInv /\ Settling /\ Next => Settling'
<1> SUFFICES ASSUME LoopOK, IdleAtFirst, Settling, Next PROVE Settling'
  BY DEF TypeOK, ReportInv
<1>1. CASE UNCHANGED <<pc, cur, reason>>
  BY <1>1 DEF Settling
<1>2. CASE Machine \/ \E e \in Entry : WalkEntry(e) \/ Unlink(e)
  BY <1>1, <1>2 DEF Machine, Tick, StepBack, BeginWork, WriteEntry, EndWork, Crash,
                    OtherClean, WalkEntry, Unlink
<1>3. CASE Start
  <2>1. N \in Nat /\ Cand = 1 .. N
    BY Bounds DEF Cand
  <2> QED
    BY <1>3, <2>1 DEF Start, Settling, IdleAtFirst
<1>4. CASE ReadPresent \/ ReadExists \/ ProbeLock \/ OpenDir \/ Decide
  <2>1. UNCHANGED <<cur, reason>> /\ pc \notin {"idle", "retain"} /\ pc' \notin {"idle", "retain"}
    BY <1>4 DEF ReadPresent, ReadExists, ProbeLock, OpenDir, Decide
  <2> QED
    BY <2>1 DEF Settling
<1>5. CASE Skip
  <2>1. PICK r \in Reasons \ {"none"} : Record(r)
    BY <1>5, VerdictType DEF Skip, Reasons, Verdicts, LoopOK
  <2> QED
    BY <1>5, <2>1, RecordSettles DEF Skip
<1>6. CASE OpenRemove
  <2>1. CASE dir[cur]
    BY <1>6, <2>1 DEF OpenRemove, Settling
  <2>2. CASE ~dir[cur]
    BY <1>6, <2>2, RecordSettles DEF OpenRemove, Reasons
  <2> QED
    BY <2>1, <2>2
<1>7. CASE RemoveDir \/ RemoveFails
  BY <1>7, RecordSettles DEF RemoveDir, RemoveFails, Reasons
<1>8. CASE Retain
  BY <1>8 DEF Retain, Settling
<1> QED
  BY <1>2, <1>3, <1>4, <1>5, <1>6, <1>7, <1>8 DEF Next, Run

LEMMA SettlingHolds == Spec => [](TypeOK /\ ReportInv /\ Settling)
<1>1. Init => ReportInv /\ Settling
  BY DEF Init, ReportInv, Behind, Judged, IdleAtFirst, RemovalsReported, Settling
<1>2. ReportInv /\ UNCHANGED vars => ReportInv'
  BY DEF vars, ReportInv, Behind, Judged, IdleAtFirst, RemovalsReported
<1>3. Settling /\ UNCHANGED vars => Settling'
  BY DEF vars, Settling
<1> QED
  BY <1>1, <1>2, <1>3, ReportStep, SettlingStep, TypeCorrect, PTL DEF Spec

-----------------------------------------------------------------------------
(* One lemma for all steps that record an item.                            *)
LEMMA RecordOutcome ==
    ASSUME LoopOK, NEW r, Record(r)
    PROVE  [c \in Cand |-> Outcome(reason'[c])]
               = [[c \in Cand |-> Outcome(reason[c])] EXCEPT ![cur] = Outcome(r)]
  BY DEF Record, LoopOK

LEMMA FailStep ==
    ASSUME LoopOK, Record("delete failed"), pc \in {"remove", "unlink"}, UNCHANGED <<dir, touched>>
    PROVE  Clean!Fail(cur)
  BY RecordOutcome, OutcomeOf DEF Clean!Fail, Clean!Settle, Record

LEMMA CleanupStep == TypeOK /\ ReportInv /\ Settling /\ Next => [Clean!Next]_(Clean!vars)
<1> SUFFICES ASSUME TypeOK, LoopOK, MachineOK, Judged, IdleAtFirst, Settling, Next
             PROVE  [Clean!Next]_(Clean!vars)
  BY DEF TypeOK, ReportInv
<1>1. CASE Machine
  <2>1. UNCHANGED <<pc, cur, reason, touched>>
    BY <1>1 DEF Machine, Tick, StepBack, BeginWork, WriteEntry, EndWork, Crash, OtherClean
  <2>2. Clean!Others
    BY <2>1 DEF Clean!Others
  <2> QED
    BY <2>2 DEF Clean!Next
<1>2. CASE Start
  <2>1. Clean!Begin
    BY <1>2, OutcomeOf DEF Start, env, Clean!Begin
  <2> QED
    BY <2>1 DEF Clean!Next
<1>3. CASE ReadPresent \/ ReadExists \/ ProbeLock \/ OpenDir \/ \E e \in Entry : WalkEntry(e)
  <2>1. /\ UNCHANGED <<dir, cur, reason, touched>>
        /\ pc \in {"present", "exists", "lock", "open", "walk"}
        /\ pc' \in {"exists", "lock", "open", "walk"}
    BY <1>3 DEF ReadPresent, ReadExists, ProbeLock, OpenDir, WalkEntry, env
  <2> QED
    BY <2>1 DEF Clean!vars
<1>4. CASE Decide
  <2>1. /\ pc = "walk" /\ pc' = "remove" /\ UNCHANGED <<dir, cur, reason, touched>>
        /\ Verdict(cur) = "ok" /\ Apply
    BY <1>4 DEF Decide, env
  <2>2. cur \in Cand /\ reason[cur] = "none"
    BY <2>1 DEF Settling, LoopOK
  <2>3. PathVerdict[cur] = "ok" /\ cur \notin Gated
    BY <2>1 DEF Verdict, evaluate
  <2>4. Clean!Commit(cur)
    BY <2>1, <2>2, <2>3, OutcomeOf DEF Clean!Commit, Clean!Unsettled
  <2> QED
    BY <2>2, <2>4 DEF Clean!Next
<1>5. CASE Skip
  <2>1. PICK r \in Verdicts \cup {"dry-run"} : Record(r)
    BY <1>5, VerdictType DEF Skip, LoopOK
  <2>2. /\ pc = "walk" /\ pc' \in {"present", "retain"} /\ UNCHANGED <<dir, touched>>
        /\ cur \in Cand /\ reason[cur] = "none" /\ Outcome(r) = "kept"
    BY <1>5, <2>1, OutcomeOf DEF Skip, Record, env, Settling, LoopOK
  <2>3. Clean!Spare(cur)
    BY <2>1, <2>2, RecordOutcome, OutcomeOf DEF Clean!Spare, Clean!Settle, Clean!Unsettled
  <2> QED
    BY <2>2, <2>3 DEF Clean!Next
<1>6. CASE OpenRemove
  <2>1. CASE dir[cur]
    BY <1>6, <2>1 DEF OpenRemove, env, Clean!vars
  <2>2. CASE ~dir[cur]
    <3>1. Clean!Fail(cur)
      BY <1>6, <2>2, FailStep DEF OpenRemove, env
    <3> QED
      BY <3>1 DEF Clean!Next, LoopOK
  <2> QED
    BY <2>1, <2>2
<1>7. CASE \E e \in Entry : Unlink(e)
  <2>1. Clean!Take(cur)
    BY <1>7 DEF Unlink, Clean!Take
  <2> QED
    BY <2>1 DEF Clean!Next, LoopOK
<1>8. CASE RemoveDir
  <2>1. /\ Record("deleted") /\ pc = "unlink" /\ dir' = [dir EXCEPT ![cur] = FALSE]
        /\ touched' = touched \cup {cur} /\ cur \in Cand
    BY <1>8 DEF RemoveDir, LoopOK
  <2>2. {c \in Cand : dir'[c]} = {c \in Cand : dir[c]} \ {cur}
    BY <2>1 DEF MachineOK
  <2>3. Clean!Succeed(cur)
    BY <2>1, <2>2, RecordOutcome, OutcomeOf DEF Clean!Succeed, Clean!Settle, Record
  <2>4. Clean!Next
    BY <2>1, <2>3 DEF Clean!Next, Clean!Succeed
  <2> QED
    BY <2>4
<1>9. CASE RemoveFails
  <2>1. Record("delete failed") /\ pc = "unlink" /\ UNCHANGED <<dir, touched>>
    BY <1>9 DEF RemoveFails, env
  <2>2. Clean!Fail(cur)
    BY <2>1, FailStep
  <2> QED
    BY <2>2 DEF Clean!Next, LoopOK
<1>10. CASE Retain
  <2> DEFINE hidden == {c \in Cand : reason[c] = "not present" /\ TargetOf[c] \in seen}
             outcome == [c \in Cand |-> Outcome(reason[c])]
  <2>1. /\ pc = "retain" /\ pc' = "idle" /\ UNCHANGED <<dir, touched>>
        /\ reason' = [c \in Cand |-> IF c \in hidden THEN "dropped" ELSE reason[c]]
    BY <1>10 DEF Retain, env
  <2>2. \A c \in Cand : Outcome(reason[c]) # "none"
    <3>1. \A c \in Cand : ~(c > N)
      BY Bounds DEF Cand
    <3>2. \A c \in Cand : reason[c] # "none"
      BY <2>1, <3>1 DEF Settling
    <3>3. \A r : Outcome(r) = "none" => r = "none"
      BY OutcomeOf
    <3> QED
      BY ONLY <3>2, <3>3, Zenon
  <2>3. hidden \in SUBSET {c \in Cand : outcome[c] = "kept"}
    BY OutcomeOf DEF Verdicts
  <2>4. [c \in Cand |-> Outcome(reason'[c])]
            = [c \in Cand |-> IF c \in hidden THEN "hidden" ELSE outcome[c]]
    BY <2>1, OutcomeOf
  <2>5. Clean!End
    BY <2>1, <2>2, <2>3, <2>4 DEF Clean!End, Clean!Unsettled
  <2> QED
    BY <2>5 DEF Clean!Next
<1> QED
  BY <1>1, <1>2, <1>3, <1>4, <1>5, <1>6, <1>7, <1>8, <1>9, <1>10 DEF Next, Run

(* A run commits to one allowed candidate at a time, takes from no other,  *)
(* and owns up to every one it took from, for all constants and all        *)
(* interleavings (main.rs run, push_item, remove_path).                    *)
THEOREM ReclaimImplementsCleanup == Spec => ImplementsCleanup
<1>1. Init => Clean!Init
  BY OutcomeOf DEF Init, Clean!Init
<1>2. TypeOK /\ ReportInv /\ Settling /\ UNCHANGED vars => UNCHANGED Clean!vars
  BY DEF vars, Clean!vars
<1> QED
  BY <1>1, <1>2, CleanupStep, SettlingHolds, PTL DEF Spec, ImplementsCleanup, Clean!Spec

-----------------------------------------------------------------------------
(* The retain after the loop.  A target that was seen present has a        *)
(* candidate whose item it keeps, which push_item has found present, or    *)
(* which vanished between the two looks at it.                             *)
Shown(c) ==
    \/ c \in lost
    \/ reason[c] \notin {"none", "not present", "dropped"}
    \/ c = cur /\ pc \in {"lock", "open", "walk", "remove", "unlink"} /\ exists

SeenInv ==
    /\ \A t \in seen : \E c \in Cand : TargetOf[c] = t /\ Shown(c)
    /\ pc = "idle" => seen = {}
    /\ pc # "idle" => \A c \in Cand : reason[c] # "dropped"

LEMMA RecordShown ==
    ASSUME LoopOK, Settling, SeenInv, pc \notin {"idle", "retain"}, UNCHANGED <<seen, lost>>,
           NEW r \in Reasons \ {"none", "dropped"}, Record(r),
           \/ r # "not present"
           \/ pc \in {"lock", "open", "walk", "remove", "unlink"} /\ ~exists
    PROVE  SeenInv'
<1>1. \A c \in Cand : reason'[c] = IF c = cur THEN r ELSE reason[c]
  BY DEF Record, LoopOK
<1>2. pc' # "idle"
  BY DEF Record
<1>3. ASSUME NEW c \in Cand, Shown(c) PROVE Shown(c)'
  <2>1. reason[cur] = "none"
    BY DEF Settling, LoopOK
  <2> QED
    BY <1>1, <1>3, <2>1 DEF Shown
<1> QED
  BY <1>1, <1>2, <1>3 DEF SeenInv

LEMMA SeenStep ==
    ASSUME TypeOK, ReportInv, Settling, SeenInv, Next PROVE SeenInv'
<1> USE DEF TypeOK, ReportInv
<1>1. CASE Machine
  <2>1. UNCHANGED <<pc, cur, seen, exists, reason, lost>>
    BY <1>1 DEF Machine, Tick, StepBack, BeginWork, WriteEntry, EndWork, Crash, OtherClean, local
  <2> QED
    BY <2>1 DEF SeenInv, Shown
<1>2. CASE Start
  BY <1>2 DEF Start, SeenInv
<1>3. CASE ReadPresent
  <2>1. /\ pc = "present" /\ pc' = "exists" /\ UNCHANGED <<cur, reason>> /\ cur \in Cand
        /\ lost' = IF dir[cur] THEN lost \cup {cur} ELSE lost
        /\ seen' = IF dir[cur] THEN seen \cup {TargetOf[cur]} ELSE seen
    BY <1>3 DEF ReadPresent, LoopOK
  <2>2. ASSUME NEW c \in Cand, Shown(c) PROVE Shown(c)'
    BY <2>1, <2>2 DEF Shown
  <2>3. dir[cur] => Shown(cur)'
    BY <2>1 DEF Shown
  <2> QED
    BY <2>1, <2>2, <2>3 DEF SeenInv
<1>4. CASE ReadExists
  <2>1. /\ UNCHANGED <<cur, seen, reason>> /\ pc = "exists" /\ exists' = dir[cur]
        /\ pc' = IF dir[cur] THEN "lock" ELSE "walk"
        /\ lost' = IF dir[cur] THEN lost \ {cur} ELSE lost
    BY <1>4 DEF ReadExists
  <2>2. ASSUME NEW c \in Cand, Shown(c) PROVE Shown(c)'
    BY <2>1, <2>2 DEF Shown
  <2> QED
    BY <2>1, <2>2 DEF SeenInv
<1>5. CASE ProbeLock \/ OpenDir \/ Decide \/ \E e \in Entry : WalkEntry(e) \/ Unlink(e)
  <2>1. /\ UNCHANGED <<cur, seen, exists, reason, lost>>
        /\ {pc, pc'} \subseteq {"lock", "open", "walk", "remove", "unlink"}
    BY <1>5 DEF ProbeLock, OpenDir, Decide, WalkEntry, Unlink, local
  <2> QED
    BY <2>1 DEF SeenInv, Shown
<1>6. CASE Skip
  <2>1. PICK r \in Verdicts \cup {"dry-run"} : Record(r) /\ (r = "not present" => ~exists)
    <3>1. Verdict(cur) \in Verdicts \cup {"ok"}
      BY VerdictType DEF LoopOK
    <3>2. Verdict(cur) = "not present" => ~exists
      BY CacheAssumption DEF Verdict, evaluate, LoopOK
    <3> QED
      BY <1>6, <3>1, <3>2 DEF Skip
  <2> QED
    BY <1>6, <2>1, RecordShown DEF Skip, Reasons, Verdicts
<1>7. CASE OpenRemove
  <2>1. CASE dir[cur]
    BY <1>7, <2>1 DEF OpenRemove, local, SeenInv, Shown
  <2>2. CASE ~dir[cur]
    BY <1>7, <2>2, RecordShown DEF OpenRemove, Reasons
  <2> QED
    BY <2>1, <2>2
<1>8. CASE RemoveDir \/ RemoveFails
  BY <1>8, RecordShown DEF RemoveDir, RemoveFails, Reasons
<1>9. CASE Retain
  BY <1>9 DEF Retain, SeenInv
<1> QED
  BY <1>1, <1>2, <1>3, <1>4, <1>5, <1>6, <1>7, <1>8, <1>9 DEF Next, Run

LEMMA ReportedStep ==
    ASSUME TypeOK, SeenInv, TargetReported, Next PROVE TargetReported'
<1>1. CASE UNCHANGED <<pc, reason, lost>>
  BY <1>1 DEF TargetReported
<1>2. CASE pc' # "idle"
  BY <1>2 DEF TargetReported
<1>3. CASE Retain
  <2> SUFFICES ASSUME NEW d \in Cand
               PROVE  \E c \in Cand : /\ TargetOf[c] = TargetOf[d]
                                      /\ reason'[c] # "dropped" \/ c \in lost'
    BY DEF TargetReported
  <2>1. lost' = lost
        /\ \A c \in Cand : /\ reason[c] # "dropped"
                           /\ reason'[c] = IF reason[c] = "not present" /\ TargetOf[c] \in seen
                                           THEN "dropped" ELSE reason[c]
    BY <1>3 DEF Retain, SeenInv
  <2>2. CASE TargetOf[d] \in seen
    BY <1>3, <2>1, <2>2 DEF SeenInv, Shown, Retain
  <2>3. CASE TargetOf[d] \notin seen
    BY <2>1, <2>3
  <2> QED
    BY <2>2, <2>3
<1>4. CASE Machine
  BY <1>1, <1>4 DEF Machine, Tick, StepBack, BeginWork, WriteEntry, EndWork, Crash, OtherClean
<1>5. CASE Start \/ (Run /\ ~Retain)
  BY <1>2, <1>5 DEF Start, Run, ReadPresent, ReadExists, ProbeLock, OpenDir, WalkEntry, Skip,
                    Decide, OpenRemove, Unlink, RemoveDir, RemoveFails, Record, TypeOK, LoopOK
<1> QED
  BY <1>3, <1>4, <1>5 DEF Next

(* Whoever else removes caches during a run, a target goes silent only if  *)
(* a path of its own was there at the first look and gone at the second    *)
(* (main.rs run, push_item, comment on "not present").                     *)
THEOREM TargetReportedHolds == Spec => []TargetReported
<1>1. Init => SeenInv /\ TargetReported
  BY DEF Init, SeenInv, TargetReported
<1>2. SeenInv /\ UNCHANGED vars => SeenInv'
  <2> SUFFICES ASSUME SeenInv, UNCHANGED <<pc, cur, seen, exists, reason, lost>> PROVE SeenInv'
    BY DEF vars
  <2>1. \A c \in Cand : Shown(c) => Shown(c)'
    BY DEF Shown
  <2> QED
    BY <2>1 DEF SeenInv
<1>3. TargetReported /\ UNCHANGED vars => TargetReported'
  BY DEF vars, TargetReported
<1>4. TypeOK /\ ReportInv /\ Settling /\ SeenInv /\ Next => SeenInv'
  BY SeenStep
<1>5. TypeOK /\ SeenInv /\ TargetReported /\ Next => TargetReported'
  BY ReportedStep
<1> QED
  BY <1>1, <1>2, <1>3, <1>4, <1>5, SettlingHolds, PTL DEF Spec
=============================================================================
