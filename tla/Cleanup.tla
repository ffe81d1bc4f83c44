------------------------------- MODULE Cleanup -------------------------------
(***************************************************************************)
(* What a cleaning run promises, whoever else works in the caches.  It     *)
(* commits to one candidate at a time, and only to one the guards and the  *)
(* flags allow; it takes from no other; a cache goes with the step that    *)
(* reports it as deleted; and the report owns up to every candidate it     *)
(* took from.  Reclaim implements it.                                      *)
(***************************************************************************)
CONSTANTS Cand, Allowed

VARIABLES
    phase,     \* is a run under way
    active,    \* the candidate the run has committed to, if any
    outcome,   \* what the run, or the last one, says of each candidate
    holds,     \* the caches that exist
    touched    \* candidates this run has taken something from

vars == <<phase, active, outcome, holds, touched>>

Unsettled == {c \in Cand : outcome[c] = "none"}

Init ==
    /\ phase = "idle" /\ active = {}
    /\ outcome = [c \in Cand |-> "none"]
    /\ holds \in SUBSET Cand /\ touched = {}

(* Tools create caches, users and other cleaners remove them.              *)
Others == /\ holds' \in SUBSET Cand
          /\ UNCHANGED <<phase, active, outcome, touched>>

Begin == /\ phase = "idle" /\ phase' = "running"
         /\ outcome' = [c \in Cand |-> "none"]
         /\ touched' = {}
         /\ UNCHANGED <<active, holds>>

Settle(c, o) == outcome' = [outcome EXCEPT ![c] = o]

Spare(c) == /\ phase = "running" /\ active = {} /\ c \in Unsettled
            /\ Settle(c, "kept")
            /\ UNCHANGED <<phase, active, holds, touched>>

Commit(c) == /\ phase = "running" /\ active = {} /\ c \in Unsettled \cap Allowed
             /\ active' = {c}
             /\ UNCHANGED <<phase, outcome, holds, touched>>

Take(c) == /\ active = {c}
           /\ touched' = touched \cup {c}
           /\ UNCHANGED <<phase, active, outcome, holds>>

Succeed(c) == /\ active = {c} /\ active' = {}
              /\ holds' = holds \ {c} /\ touched' = touched \cup {c}
              /\ Settle(c, "deleted")
              /\ UNCHANGED phase

Fail(c) == /\ active = {c} /\ active' = {}
           /\ Settle(c, "failed")
           /\ UNCHANGED <<phase, holds, touched>>

(* The report may leave out candidates that were spared, no others.        *)
End == /\ phase = "running" /\ active = {} /\ Unsettled = {}
       /\ phase' = "idle"
       /\ \E hidden \in SUBSET {c \in Cand : outcome[c] = "kept"} :
              outcome' = [c \in Cand |-> IF c \in hidden THEN "hidden" ELSE outcome[c]]
       /\ UNCHANGED <<active, holds, touched>>

Next == \/ Others \/ Begin \/ End
        \/ \E c \in Cand : Spare(c) \/ Commit(c) \/ Take(c) \/ Succeed(c) \/ Fail(c)

Spec == Init /\ [][Next]_vars

(* Every run that begins comes to its end.                                 *)
RunsEnd == []<>(phase = "idle")
=============================================================================
