------------------------------ MODULE Versions ------------------------------
(***************************************************************************)
(* Versioned installs: stale_versions (src/scan.rs) reads a directory      *)
(* entry by entry in phase 1, and phase 3 of `run` (src/main.rs) deletes   *)
(* what was stale then, while the tools that own the installs come and go: *)
(* an install takes time, can be abandoned half-way, and can be removed by *)
(* its tool at any moment.                                                 *)
(*                                                                         *)
(* Installs are numbered in the order of their names, which is the order   *)
(* of the deletions and decides between two of one age.                    *)
(***************************************************************************)
EXTENDS Integers, FiniteSets

CONSTANTS
    N,               \* the names of installs, 1..N
    Group, GroupOf,  \* version_group of a name
    Keep,            \* how many of a group are kept
    MaxNow,          \* bound on the clock
    Quiet            \* no tool works and no removal fails after this time

Name == 1 .. N
Time == 1 .. MaxNow

ASSUME VersionsAssumption ==
    /\ N \in Nat \ {0}
    /\ GroupOf \in [Name -> Group]
    /\ Keep \in Nat \ {0}
    /\ MaxNow \in Nat /\ MaxNow > 1 /\ Quiet \in Nat

VARIABLES
    \* the machine
    now,
    state,    \* of an install: none, partial (unfinished or half-removed), whole
    mtime,    \* of its directory
    \* the run
    pc,
    toRead,   \* entries the open directory stream has yet to yield
    read,     \* the mtimes read so far, 0 = not read
    stale,    \* installs that are left to delete
    \* history
    had,      \* groups with a whole install when the run started
    left,     \* installs a tool has removed since, but for those that were stale
    unsound   \* groups of which the run read an install that was not whole

machine == <<now, state, mtime>>
vars    == <<machine, pc, toRead, read, stale, had, left, unsound>>

Peers(v)  == {w \in Name : GroupOf[w] = GroupOf[v]}
Whole(g)  == {v \in Name : GroupOf[v] = g /\ state[v] = "whole"}
Existing  == {v \in Name : state[v] # "none"}

(* Installs of this second, and older ones.                                *)
Init ==
    /\ now = 2
    /\ state \in [Name -> {"none", "partial", "whole"}]
    /\ mtime \in [Name -> {1, 2}]
    /\ \A v \in Name : state[v] = "none" => mtime[v] = 1
    /\ pc = "idle" /\ toRead = {} /\ read = [v \in Name |-> 0] /\ stale = {}
    /\ had = {} /\ left = {} /\ unsound = {}

-----------------------------------------------------------------------------
(* The tools.                                                              *)

Tick == /\ now < MaxNow /\ now' = now + 1
        /\ UNCHANGED <<state, mtime, pc, toRead, read, stale, had, left, unsound>>

Put(v, s) == /\ state' = [state EXCEPT ![v] = s]
             /\ mtime' = [mtime EXCEPT ![v] = now]

Clear(v) == /\ state' = [state EXCEPT ![v] = "none"]
            /\ mtime' = [mtime EXCEPT ![v] = 1]

(* The directory of an install appears.  A stream that is being read may   *)
(* or may not yield it, but yields no name twice.                          *)
Begin(v) ==
    /\ now <= Quiet /\ state[v] = "none"
    /\ Put(v, "partial")
    /\ toRead' \in IF pc = "list" /\ read[v] = 0 THEN {toRead, toRead \cup {v}} ELSE {toRead}
    /\ UNCHANGED <<now, pc, read, stale, had, left, unsound>>

First(v) == v \in stale /\ \A w \in stale : v <= w

(* An install is finished, or one that was abandoned is repaired; not from *)
(* under a removal, which has already taken a part of it.                  *)
Complete(v) ==
    /\ now <= Quiet /\ state[v] = "partial"
    /\ ~(pc = "remove" /\ First(v))
    /\ Put(v, "whole")
    /\ UNCHANGED <<now, pc, toRead, read, stale, had, left, unsound>>

(* A tool writes in the directory of an install.                           *)
Touch(v) ==
    /\ now <= Quiet /\ state[v] # "none"
    /\ Put(v, state[v])
    /\ UNCHANGED <<now, pc, toRead, read, stale, had, left, unsound>>

Uninstall(v) ==
    /\ now <= Quiet /\ state[v] # "none"
    /\ Clear(v)
    /\ left' = IF pc = "idle" THEN left ELSE left \cup ({v} \ stale)
    /\ UNCHANGED <<now, pc, toRead, read, stale, had, unsound>>

Tools == Tick \/ \E v \in Name : Begin(v) \/ Complete(v) \/ Touch(v) \/ Uninstall(v)

-----------------------------------------------------------------------------
(* The run.                                                                *)

(* read_dir of the directory.                                              *)
Start ==
    /\ pc = "idle" /\ pc' = "list"
    /\ toRead' = Existing
    /\ had' = {g \in Group : Whole(g) # {}} /\ left' = {} /\ unsound' = {}
    /\ UNCHANGED <<machine, read, stale>>

(* One entry and its metadata; one that is gone by then is skipped.        *)
ReadEntry(v) ==
    /\ pc = "list" /\ v \in toRead
    /\ toRead' = toRead \ {v}
    /\ read' = IF state[v] # "none" THEN [read EXCEPT ![v] = mtime[v]] ELSE read
    /\ unsound' = IF state[v] = "partial" THEN unsound \cup {GroupOf[v]} ELSE unsound
    /\ UNCHANGED <<machine, pc, stale, had, left>>

Newer(w, v) == read[w] > read[v] \/ (read[w] = read[v] /\ w > v)

Read     == {v \in Name : read[v] # 0}

(* Mutant: one group for all.                                              *)
AheadOfAll(v) == {w \in Read : Newer(w, v)}

Ahead(v) == {w \in Read : GroupOf[w] = GroupOf[v] /\ Newer(w, v)}

(* Mutants: one too few is kept, one too many.                             *)
TooFewKept  == {v \in Read : Cardinality(Ahead(v)) >= Keep - 1}
TooManyKept == {v \in Read : Cardinality(Ahead(v)) > Keep}

StaleVersions == {v \in Read : Cardinality(Ahead(v)) >= Keep}

(* Sort each group and skip the newest; later phases only see the rest.    *)
Choose ==
    /\ pc = "list" /\ toRead = {}
    /\ stale' = StaleVersions
    /\ read' = [v \in Name |-> 0]
    /\ pc' = "delete"
    /\ UNCHANGED <<machine, toRead, had, left, unsound>>

(* push_item finds it gone, in use or too new, or fails at once.           *)
Spare(v) ==
    /\ pc = "delete" /\ First(v)
    /\ state[v] = "none" \/ now <= Quiet
    /\ stale' = stale \ {v}
    /\ UNCHANGED <<machine, pc, toRead, read, had, left, unsound>>

(* remove_dir_all has removed its first entry...                           *)
Remove(v) ==
    /\ pc = "delete" /\ First(v) /\ state[v] # "none"
    /\ Put(v, "partial")
    /\ pc' = "remove"
    /\ UNCHANGED <<now, toRead, read, stale, had, left, unsound>>

(* ...and has removed everything, or fails.                                *)
Removed(v) ==
    /\ pc = "remove" /\ First(v)
    /\ Clear(v)
    /\ stale' = stale \ {v} /\ pc' = "delete"
    /\ UNCHANGED <<now, toRead, read, had, left, unsound>>

RemoveFails(v) ==
    /\ pc = "remove" /\ First(v) /\ now <= Quiet
    /\ stale' = stale \ {v} /\ pc' = "delete"
    /\ UNCHANGED <<machine, toRead, read, had, left, unsound>>

(* Mutant: the loop stops early.                                           *)
FinishEarly ==
    /\ pc = "delete" /\ pc' = "idle"
    /\ UNCHANGED <<machine, toRead, read, stale, had, left, unsound>>

Finish ==
    /\ pc = "delete" /\ stale = {}
    /\ pc' = "idle"
    /\ had' = {} /\ left' = {} /\ unsound' = {}
    /\ UNCHANGED <<machine, toRead, read, stale>>

Run == \/ Choose \/ Finish
       \/ \E v \in Name : \/ ReadEntry(v) \/ Spare(v) \/ Remove(v) \/ Removed(v) \/ RemoveFails(v)

Next == Tools \/ Start \/ Run

Spec == Init /\ [][Next]_vars

(* The clock advances, runs keep being scheduled, and one that has started *)
(* is never suspended for ever.  Nothing is asked of the tools.            *)
FairSpec == Spec /\ WF_vars(Tick) /\ WF_vars(Start) /\ WF_vars(Run)

-----------------------------------------------------------------------------
(* Properties.                                                             *)

(* Every variable has its type; what was read is forgotten once it is      *)
(* known what is stale.                                                    *)
TypeOK ==
    /\ now \in Time
    /\ state \in [Name -> {"none", "partial", "whole"}] /\ mtime \in [Name -> Time]
    /\ pc \in {"idle", "list", "delete", "remove"}
    /\ toRead \subseteq Name /\ read \in [Name -> 0 .. MaxNow]
    /\ stale \subseteq Name /\ (pc \in {"idle", "list"} => stale = {})
    /\ (pc = "remove" => stale # {})
    /\ (pc # "list" => toRead = {} /\ Read = {})
    /\ had \subseteq Group /\ left \subseteq Name /\ unsound \subseteq Group

(* The last whole install of a product that had one when the run started   *)
(* only disappears if its tool removed one of them during the run, or if   *)
(* one that was unfinished or half-removed when the run read it passed for *)
(* a newer install (stale_versions, run; "keep the newest `keep` of each   *)
(* product, reclaim the rest").                                            *)
LastInstallExplained ==
    pc # "idle" => \A g \in had :
        g \in unsound \/ Whole(g) # {} \/ \E v \in left : GroupOf[v] = g

(* While a stale install is being deleted, as many of its product as are   *)
(* to be kept are there beside it, but for those that tools have removed   *)
(* themselves since the run began: the choice made in phase 1, out of date *)
(* by then, costs a product no install beyond these (run, stale_versions). *)
KeptBeside ==
    pc = "remove" => \A v \in stale :
        Cardinality((Peers(v) \cap (Existing \cup left)) \ stale) >= Keep

(* Once the tools are at rest and nothing stands in the way of a removal,  *)
(* the weekly runs get every product down to what is to be kept.           *)
EventuallyTrimmed ==
    \A v \in Name : <>[](v \in Existing => Cardinality(Peers(v) \cap Existing) <= Keep)
=============================================================================
