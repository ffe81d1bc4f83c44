------------------------------ MODULE Reclaim ------------------------------
(***************************************************************************)
(* Phase 3 of `run` (src/main.rs): the loop that probes, sizes, judges and *)
(* deletes one candidate after another, one file-system call per step,     *)
(* while package managers keep working in the caches it looks at.          *)
(*                                                                         *)
(* A candidate is a cache directory with a flat set of entries; an entry   *)
(* is its modification time, 0 when it does not exist.  What phases 1 and  *)
(* 2 and the path checks decide about a candidate (its target, the verdict *)
(* of the lexical and canonical checks, whether its tier is held back) is  *)
(* a constant here: Cachewipe.tla computes it from a concrete file system. *)
(***************************************************************************)
EXTENDS Integers, FiniteSets

CONSTANTS
    N,            \* candidates 1..N, in the order phase 2 kept them
    Entry,        \* the names a cache directory may hold
    LockNames,    \* those lock_present looks for
    LockOf,       \* the lock file the tool of a candidate holds while it works
    Refreshes,    \* candidates whose tool stamps its lock when it takes it
    Target, TargetOf,
    PathVerdict,  \* what is_protected and within_root say of a candidate
    Gated,        \* candidates of a tier the flags do not let us delete
    Apply,        \* --apply
    MinAge,       \* --min-age-days, in ticks of the clock
    LockFresh,    \* the 300 s of lock_present, in ticks
    MaxNow,       \* bound on the clock
    WorkUntil,    \* no tool starts working, or writes, after this time
    ClockBack,    \* the wall clock may be set back
    OtherCleans,  \* someone else may delete caches too
    MayFail       \* an unlink may fail (permissions, I/O)

Cand == 1 .. N
Time == 1 .. MaxNow

ASSUME CandAssumption == N \in Nat \ {0}

ASSUME CacheAssumption ==
    /\ IsFiniteSet(Entry)
    /\ LockNames \subseteq Entry
    /\ LockOf \in [Cand -> Entry]
    /\ Refreshes \subseteq Cand
    /\ TargetOf \in [Cand -> Target]
    /\ PathVerdict \in [Cand -> {"ok", "protected", "outside root"}]
    /\ Gated \subseteq Cand

ASSUME ConfigAssumption ==
    /\ Apply \in BOOLEAN /\ MayFail \in BOOLEAN
    /\ ClockBack \in BOOLEAN /\ OtherCleans \in BOOLEAN

ASSUME TimeAssumption ==
    /\ MaxNow \in Nat \ {0} /\ WorkUntil \in Nat
    /\ MinAge \in Nat /\ LockFresh \in Nat

VARIABLES
    \* the machine
    now,      \* the wall clock
    dir,      \* does the directory of a candidate exist
    mtime,    \* modification time of each of its entries, 0 = no such entry
    session,  \* time at which the tool now working in it started, 0 = none
    \* the run
    pc,       \* the call the run makes next
    t0,       \* `now` of the run
    cur,      \* the candidate being pushed
    seen,     \* targets seen present
    exists, locked, newest,   \* locals of push_item
    toWalk,   \* entries the open directory stream has yet to yield
    reason,   \* the item recorded for each candidate
    \* history
    probe,    \* at the lock probe: its time, and is its lock holder still at work
    late,     \* entries of `cur` stamped after the walk read them
    touched,  \* candidates this run has removed something from
    lost      \* candidates `present` saw and push_item has not found since

env   == <<dir, mtime, session>>
local == <<exists, locked, newest>>
vars  == <<now, dir, mtime, session, pc, t0, cur, seen, exists, locked,
           newest, toWalk, reason, probe, late, touched, lost>>

Verdicts == {"not present", "protected", "outside root", "in use",
             "needs a flag", "newer"}
Reasons  == Verdicts \cup {"none", "dry-run", "deleted", "delete failed", "dropped"}

Present(c) == {e \in Entry : mtime[c][e] # 0}
NoProbe    == [at |-> 1, live |-> FALSE]
NoStamps   == [e \in Entry |-> 0]

Init ==
    /\ now = 1
    /\ dir \in [Cand -> BOOLEAN]
    /\ mtime \in [Cand -> [Entry -> {0, 1}]]
    /\ \A c \in Cand : Present(c) # {} => dir[c]
    /\ session = [c \in Cand |-> 0]
    /\ pc = "idle" /\ t0 = 1 /\ cur = 1 /\ seen = {}
    /\ exists = FALSE /\ locked = FALSE /\ newest = 0
    /\ toWalk = {}
    /\ reason = [c \in Cand |-> "none"]
    /\ probe = NoProbe
    /\ late = {} /\ touched = {} /\ lost = {}

-----------------------------------------------------------------------------
(* The machine: the clock and the tools that own the caches.               *)

Tick == /\ now < MaxNow
        /\ now' = now + 1
        /\ UNCHANGED <<env, pc, t0, cur, seen, local, toWalk, reason, probe, late, touched, lost>>

(* The clock is set back, by hand or by time synchronisation.              *)
StepBack == /\ ClockBack
            /\ \E t \in Time : t < now /\ now' = t
            /\ UNCHANGED <<env, pc, t0, cur, seen, local, toWalk, reason, probe, late, touched, lost>>

(* Entry e of c gets the stamp m.  A directory stream the run has open on  *)
(* c may or may not yield an entry that appears, or is replaced, behind it.*)
Stamp(c, e, m) ==
    /\ mtime' = [mtime EXCEPT ![c][e] = m]
    /\ toWalk' \in IF c = cur /\ pc \in {"walk", "unlink"}
                   THEN {toWalk, toWalk \cup {e}} ELSE {toWalk}
    /\ late' = IF c # cur \/ pc \notin {"walk", "remove", "unlink"} THEN late
               ELSE IF pc = "walk" /\ e \in toWalk' THEN late \ {e}
               ELSE late \cup {e}

(* A tool starts: it creates its cache if need be and takes its lock.  One *)
(* that locks an existing file without writing it leaves the stamp alone.  *)
BeginWork(c) ==
    /\ session[c] = 0 /\ now <= WorkUntil
    /\ session' = [session EXCEPT ![c] = now]
    /\ dir' = [dir EXCEPT ![c] = TRUE]
    /\ Stamp(c, LockOf[c], IF c \in Refreshes \/ mtime[c][LockOf[c]] = 0
                           THEN now ELSE mtime[c][LockOf[c]])
    /\ UNCHANGED <<now, pc, t0, cur, seen, local, reason, probe, touched, lost>>

(* A working tool writes an entry, stamped now or, as when it unpacks an   *)
(* archive, with an old date.                                              *)
WriteEntry(c, e) ==
    /\ session[c] # 0 /\ now <= WorkUntil
    /\ e \notin LockNames \cup {LockOf[c]}
    /\ dir' = [dir EXCEPT ![c] = TRUE]
    /\ \E m \in {1, now} : Stamp(c, e, m)
    /\ UNCHANGED <<now, session, pc, t0, cur, seen, local, reason, probe, touched, lost>>

Leave(c) == /\ session[c] # 0
            /\ session' = [session EXCEPT ![c] = 0]
            /\ probe' = IF c = cur THEN [probe EXCEPT !.live = FALSE] ELSE probe

(* A tool ends and removes its lock file.                                  *)
EndWork(c) ==
    /\ Leave(c)
    /\ mtime' = [mtime EXCEPT ![c][LockOf[c]] = 0]
    /\ UNCHANGED <<now, dir, pc, t0, cur, seen, local, toWalk, reason, late, touched, lost>>

(* A tool crashes, or ends without removing its lock file.                 *)
Crash(c) ==
    /\ Leave(c)
    /\ UNCHANGED <<now, dir, mtime, pc, t0, cur, seen, local, toWalk, reason, late, touched, lost>>

(* Someone else deletes a cache no tool is working in: the user, or a      *)
(* second cachewipe.                                                       *)
OtherClean(c) ==
    /\ OtherCleans /\ session[c] = 0 /\ dir[c]
    /\ dir' = [dir EXCEPT ![c] = FALSE]
    /\ mtime' = [mtime EXCEPT ![c] = NoStamps]
    /\ UNCHANGED <<now, session, pc, t0, cur, seen, local, toWalk, reason, probe, late, touched, lost>>

Machine == \/ Tick \/ StepBack
           \/ \E c \in Cand : \/ BeginWork(c) \/ EndWork(c) \/ Crash(c) \/ OtherClean(c)
                              \/ \E e \in Entry : WriteEntry(c, e)

-----------------------------------------------------------------------------
(* The run.                                                                *)

(* A run is started, by hand or by the weekly schedule; it reads the clock *)
(* once.                                                                   *)
Start ==
    /\ pc = "idle"
    /\ pc' = "present" /\ t0' = now
    /\ reason' = [c \in Cand |-> "none"]
    /\ touched' = {} /\ lost' = {}
    /\ UNCHANGED <<now, env, cur, seen, local, toWalk, probe, late>>

(* Mutant: the target counts as seen present without a look at the path.   *)
ReadPresentBlindly ==
    /\ pc = "present"
    /\ seen' = seen \cup {TargetOf[cur]}
    /\ lost' = IF dir[cur] THEN lost \cup {cur} ELSE lost
    /\ pc' = "exists"
    /\ UNCHANGED <<now, env, t0, cur, local, toWalk, reason, probe, late, touched>>

(* `present`, read before push_item reads the same thing again.            *)
ReadPresent ==
    /\ pc = "present"
    /\ seen' = IF dir[cur] THEN seen \cup {TargetOf[cur]} ELSE seen
    /\ lost' = IF dir[cur] THEN lost \cup {cur} ELSE lost
    /\ pc' = "exists"
    /\ UNCHANGED <<now, env, t0, cur, local, toWalk, reason, probe, late, touched>>

(* `exists`: a missing path is neither probed nor sized.                   *)
ReadExists ==
    /\ pc = "exists"
    /\ exists' = dir[cur]
    /\ lost' = IF dir[cur] THEN lost \ {cur} ELSE lost
    /\ pc' = IF dir[cur] THEN "lock" ELSE "walk"
    /\ UNCHANGED <<now, env, t0, cur, seen, locked, newest, toWalk, reason, probe, late, touched>>

(* Mutants: a lock expires one tick early; a lock never expires.           *)
FreshLockEarly(c, e) == /\ mtime[c][e] # 0
                        /\ mtime[c][e] <= now
                        /\ now - mtime[c][e] < LockFresh - 1

FreshLockForever(c, e) == mtime[c][e] # 0 /\ mtime[c][e] <= now

(* Is e a lock file that counts?  One dated in the future has no age, and  *)
(* does not.                                                               *)
FreshLock(c, e) == /\ mtime[c][e] # 0
                   /\ mtime[c][e] <= now
                   /\ now - mtime[c][e] < LockFresh

lock_present(c) == \E e \in LockNames : FreshLock(c, e)

ProbeLock ==
    /\ pc = "lock"
    /\ locked' = lock_present(cur)
    /\ probe' = [at |-> now,
                 live |-> session[cur] # 0 /\ mtime[cur][LockOf[cur]] # 0]
    /\ pc' = "open"
    /\ UNCHANGED <<now, env, t0, cur, seen, exists, newest, toWalk, reason, late, touched, lost>>

(* size_path opens the directory...                                        *)
OpenDir ==
    /\ pc = "open"
    /\ toWalk' = Present(cur)
    /\ late' = {}
    /\ pc' = "walk"
    /\ UNCHANGED <<now, env, t0, cur, seen, local, reason, probe, touched, lost>>

(* Mutant: the last stamp read wins, not the newest.                       *)
WalkEntryLast(e) ==
    /\ pc = "walk" /\ e \in toWalk
    /\ newest' = mtime[cur][e]
    /\ toWalk' = toWalk \ {e}
    /\ UNCHANGED <<now, env, pc, t0, cur, seen, exists, locked, reason, probe, late, touched, lost>>

(* Mutant: an entry that is gone when it is looked at is looked at again.  *)
WalkEntryRetries(e) ==
    /\ pc = "walk" /\ e \in toWalk
    /\ newest' = IF mtime[cur][e] > newest THEN mtime[cur][e] ELSE newest
    /\ toWalk' = IF mtime[cur][e] # 0 THEN toWalk \ {e} ELSE toWalk
    /\ UNCHANGED <<now, env, pc, t0, cur, seen, exists, locked, reason, probe, late, touched, lost>>

(* ...and stats each entry it yields; one that is gone by then is skipped. *)
WalkEntry(e) ==
    /\ pc = "walk" /\ e \in toWalk
    /\ newest' = IF mtime[cur][e] > newest THEN mtime[cur][e] ELSE newest
    /\ toWalk' = toWalk \ {e}
    /\ UNCHANGED <<now, env, pc, t0, cur, seen, exists, locked, reason, probe, late, touched, lost>>

(* now.saturating_sub(newest)                                              *)
Age == IF t0 > newest THEN t0 - newest ELSE 0

too_new == MinAge > 0 /\ newest > 0 /\ Age < MinAge

evaluate(c) == IF PathVerdict[c] # "ok" THEN PathVerdict[c]
               ELSE IF ~exists THEN "not present"
               ELSE IF locked THEN "in use"
               ELSE "ok"

Verdict(c) == IF evaluate(c) # "ok" THEN evaluate(c)
              ELSE IF c \in Gated THEN "needs a flag"
              ELSE IF too_new THEN "newer"
              ELSE "ok"

(* Mutant: the loop runs one past the last candidate.                      *)
RecordPastEnd(r) ==
    /\ reason' = [reason EXCEPT ![cur] = r]
    /\ cur' = cur + 1
    /\ pc' = IF cur < N THEN "present" ELSE "retain"
    /\ exists' = FALSE /\ locked' = FALSE /\ newest' = 0
    /\ toWalk' = {} /\ late' = {} /\ probe' = NoProbe

(* items.push, and on to the next candidate; the locals of push_item go    *)
(* out of scope.                                                           *)
Record(r) ==
    /\ reason' = [reason EXCEPT ![cur] = r]
    /\ cur' = IF cur < N THEN cur + 1 ELSE cur
    /\ pc' = IF cur < N THEN "present" ELSE "retain"
    /\ exists' = FALSE /\ locked' = FALSE /\ newest' = 0
    /\ toWalk' = {} /\ late' = {} /\ probe' = NoProbe

Skip ==
    /\ pc = "walk" /\ toWalk = {}
    /\ Verdict(cur) # "ok" \/ ~Apply
    /\ Record(IF Verdict(cur) # "ok" THEN Verdict(cur) ELSE "dry-run")
    /\ UNCHANGED <<now, env, t0, seen, touched, lost>>

Decide ==
    /\ pc = "walk" /\ toWalk = {}
    /\ Verdict(cur) = "ok" /\ Apply
    /\ pc' = "remove"
    /\ UNCHANGED <<now, env, t0, cur, seen, local, toWalk, reason, probe, late, touched, lost>>

(* remove_path: is_dir, then remove_dir_all opens the directory; a path    *)
(* that is gone is no directory and remove_file fails on it.               *)
OpenRemove ==
    /\ pc = "remove"
    /\ IF dir[cur]
       THEN /\ pc' = "unlink" /\ toWalk' = Present(cur)
            /\ UNCHANGED <<cur, reason, local, probe, late>>
       ELSE Record("delete failed")
    /\ UNCHANGED <<now, env, t0, seen, touched, lost>>

Unlink(e) ==
    /\ pc = "unlink" /\ e \in toWalk
    /\ mtime' = [mtime EXCEPT ![cur][e] = 0]
    /\ touched' = touched \cup {cur}
    /\ toWalk' = toWalk \ {e}
    /\ UNCHANGED <<now, dir, session, pc, t0, cur, seen, local, reason, probe, late, lost>>

(* The stream is exhausted and the empty directory is removed; that it is  *)
(* gone already is no error for some versions of the standard library.     *)
RemoveDir ==
    /\ pc = "unlink" /\ toWalk = {} /\ Present(cur) = {}
    /\ dir' = [dir EXCEPT ![cur] = FALSE]
    /\ touched' = touched \cup {cur}
    /\ Record("deleted")
    /\ UNCHANGED <<now, mtime, session, t0, seen, lost>>

(* Mutant: the error of remove_path is ignored.                            *)
RemoveFailsUnnoticed ==
    /\ pc = "unlink" /\ MayFail
    /\ Record("deleted")
    /\ UNCHANGED <<now, env, t0, seen, touched, lost>>

(* An unlink fails, an entry or the directory is gone already, or the      *)
(* directory is not empty when the stream is exhausted: what has been      *)
(* unlinked so far stays unlinked.                                         *)
RemoveFails ==
    /\ pc = "unlink"
    /\ \/ MayFail
       \/ ~dir[cur]
       \/ \E e \in toWalk : e \notin Present(cur)
       \/ toWalk = {} /\ Present(cur) # {}
    /\ Record("delete failed")
    /\ UNCHANGED <<now, env, t0, seen, touched, lost>>

(* Mutant: failures of a target that was seen present are dropped as well. *)
RetainSuccesses ==
    /\ pc = "retain"
    /\ reason' = [c \in Cand |->
                     IF reason[c] \in {"not present", "delete failed"} /\ TargetOf[c] \in seen
                     THEN "dropped" ELSE reason[c]]
    /\ pc' = "idle" /\ t0' = 1 /\ cur' = 1 /\ seen' = {}
    /\ UNCHANGED <<now, env, local, toWalk, probe, late, touched, lost>>

(* The retain after the loop: "not present" is dropped from the report for *)
(* every target that was seen present; the run ends.                       *)
Retain ==
    /\ pc = "retain"
    /\ reason' = [c \in Cand |-> IF reason[c] = "not present" /\ TargetOf[c] \in seen
                                 THEN "dropped" ELSE reason[c]]
    /\ pc' = "idle" /\ t0' = 1 /\ cur' = 1 /\ seen' = {}
    /\ UNCHANGED <<now, env, local, toWalk, probe, late, touched, lost>>

Run == \/ ReadPresent \/ ReadExists \/ ProbeLock \/ OpenDir
       \/ \E e \in Entry : WalkEntry(e)
       \/ Skip \/ Decide \/ OpenRemove
       \/ \E e \in Entry : Unlink(e)
       \/ RemoveDir \/ RemoveFails \/ Retain

Next == Machine \/ Start \/ Run

Spec == Init /\ [][Next]_vars

(* The clock advances, the schedule keeps starting runs, and a run that    *)
(* has started is never suspended for ever.  Nothing is asked of the tools.*)
FairSpec == Spec /\ WF_vars(Tick) /\ WF_vars(Start) /\ WF_vars(Run)

-----------------------------------------------------------------------------
(* Properties.                                                             *)

(* Every variable has its type, and a directory that is gone is empty.     *)
MachineOK ==
    /\ now \in Time
    /\ dir \in [Cand -> BOOLEAN]
    /\ mtime \in [Cand -> [Entry -> 0 .. MaxNow]]
    /\ session \in [Cand -> 0 .. MaxNow]
    /\ \A c \in Cand : ~dir[c] => Present(c) = {}

LoopOK ==
    /\ pc \in {"idle", "present", "exists", "lock", "open", "walk",
               "remove", "unlink", "retain"}
    /\ t0 \in Time
    /\ cur \in Cand
    /\ seen \subseteq Target
    /\ reason \in [Cand -> Reasons]
    /\ touched \subseteq Cand /\ lost \subseteq Cand

ItemOK ==
    /\ exists \in BOOLEAN /\ locked \in BOOLEAN
    /\ newest \in 0 .. MaxNow
    /\ toWalk \subseteq Entry /\ late \subseteq Entry
    /\ probe \in [at : Time, live : BOOLEAN]

TypeOK == MachineOK /\ LoopOK /\ ItemOK

(* The cache of a tool that held its lock when the lock was probed, and is *)
(* still at work, is only deleted when the lock is none that cachewipe     *)
(* knows or its stamp says nothing about the tool, when the tool had then  *)
(* been working for the 300 s of lock_present, or when the clock was       *)
(* behind the tool's start (src/scan.rs lock_present, main.rs push_item).  *)
WipeExplained ==
    pc \in {"remove", "unlink"} /\ probe.live =>
        \/ LockOf[cur] \notin LockNames
        \/ cur \notin Refreshes
        \/ session[cur] + LockFresh <= probe.at
        \/ ClockBack /\ probe.at < session[cur]

(* --min-age-days: when the deletion starts, and for as long as it lasts,  *)
(* every entry that was not stamped behind the walk's back is at least     *)
(* MinAge older than the run, whatever happened to the clock (README "skip *)
(* anything you've touched recently"; push_item's too_new).                *)
AgeGate ==
    pc \in {"remove", "unlink"} /\ MinAge > 0 =>
        \A e \in Present(cur) \ late : mtime[cur][e] + MinAge <= t0

(* What a run removes from, its report owns up to: once judged, such a     *)
(* candidate was in bounds, of a tier the flags let it delete, under       *)
(* --apply, and is reported as deleted or as a failed delete, also after   *)
(* the retain has dropped items (main.rs push_item, run).                  *)
RemovalsReported ==
    \A c \in touched :
        /\ Apply /\ PathVerdict[c] = "ok" /\ c \notin Gated
        /\ \/ reason[c] \in {"deleted", "delete failed"}
           \/ c = cur /\ pc = "unlink"

(* An item becomes "deleted", and its bytes are credited, only in a step   *)
(* that leaves neither the directory nor any entry of it (remove_path).    *)
DeletedIsGone ==
    [][\A c \in Cand : reason'[c] = "deleted" /\ reason[c] # "deleted"
                          => ~dir'[c] /\ \A e \in Entry : mtime'[c][e] = 0]_vars

(* A finished run is silent about a target, all of whose items the retain  *)
(* has dropped, only if the two looks at one of its own paths (main.rs 292 *)
(* and 410) disagreed: it was there, and then it was gone (main.rs,        *)
(* comment on "not present").                                              *)
TargetReported ==
    pc = "idle" /\ reason # [c \in Cand |-> "none"] =>
        \A t \in Target : (\E c \in Cand : TargetOf[c] = t) =>
            \E c \in Cand : TargetOf[c] = t /\ (reason[c] # "dropped" \/ c \in lost)

(* Stale locks of crashed processes do not block cleanup for ever (comment *)
(* in lock_present): once no tool works any more, every candidate the      *)
(* flags let us delete is deleted by some weekly run, and stays deleted.   *)
EventuallyReclaimed ==
    \A c \in Cand :
        Apply /\ PathVerdict[c] = "ok" /\ c \notin Gated
        /\ <>[](\A d \in Cand : session[d] = 0)  =>  <>[](~dir[c])

(* A run as its caller sees it: from Start to Retain it is under way, the  *)
(* candidate it has decided to remove is the one it is committed to.       *)
Outcome(r) == CASE r = "none"          -> "none"
                [] r = "deleted"       -> "deleted"
                [] r = "delete failed" -> "failed"
                [] r = "dropped"       -> "hidden"
                [] OTHER               -> "kept"

Clean == INSTANCE Cleanup WITH
    Allowed <- {c \in Cand : Apply /\ PathVerdict[c] = "ok" /\ c \notin Gated},
    phase   <- IF pc = "idle" THEN "idle" ELSE "running",
    active  <- IF pc \in {"remove", "unlink"} THEN {cur} ELSE {},
    outcome <- [c \in Cand |-> Outcome(reason[c])],
    holds   <- {c \in Cand : dir[c]}

(* Step for step the loop does what Cleanup promises, between any moves of *)
(* the tools: one committed, allowed candidate at a time, no other cache   *)
(* affected, no removal left out of the report (main.rs run, push_item).   *)
ImplementsCleanup == Clean!Spec

(* Every run ends, whatever the tools did to the caches while it walked    *)
(* and emptied them, once they have stopped.                               *)
EveryRunEnds == Clean!RunsEnd

(* README: "A fresh package-manager lockfile means in use - declined       *)
(* rather than corrupted."  No deletion starts in a cache whose known lock *)
(* is fresh at that moment.                                                *)
FreshLockDeclined ==
    [][pc # "unlink" /\ pc' = "unlink" => ~lock_present(cur)]_vars
=============================================================================
