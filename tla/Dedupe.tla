------------------------------- MODULE Dedupe -------------------------------
(***************************************************************************)
(* `dedupe_nested` (src/main.rs): phase 2 of a run.  The candidates of all *)
(* targets are sorted by path and those inside another one are dropped, so *)
(* that no byte is counted or deleted twice.                               *)
(*                                                                         *)
(* Paths are abstract.  Before is the order of Path::cmp and Inside the    *)
(* relation of Path::starts_with, both reflexive: <<p, q>> \in Inside says *)
(* that q.starts_with(p).                                                  *)
(***************************************************************************)
EXTENDS Naturals, Sequences

CONSTANTS
    Path, Before, Inside,
    Candidate,    \* what phase 1 resolves: a target and a path
    PathOf,
    Inputs        \* the lists of candidates phase 1 may produce

ASSUME CandidateAssumption ==
    /\ PathOf \in [Candidate -> Path]
    /\ Inputs \subseteq Seq(Candidate)

(* Path::cmp is a total order...                                           *)
ASSUME OrderAssumption ==
    /\ Before \subseteq Path \X Path
    /\ \A p, q \in Path : <<p, q>> \in Before \/ <<q, p>> \in Before
    /\ \A p, q \in Path : <<p, q>> \in Before /\ <<q, p>> \in Before => p = q
    /\ \A p, q, r \in Path :
           <<p, q>> \in Before /\ <<q, r>> \in Before => <<p, r>> \in Before

(* ...starts_with a partial one, which agrees with it: a directory sorts   *)
(* before all that is in it, and only what is in it sorts in between.      *)
ASSUME InsideAssumption ==
    /\ Inside \subseteq Before
    /\ \A p \in Path : <<p, p>> \in Inside
    /\ \A p, q, r \in Path :
           <<p, q>> \in Inside /\ <<q, r>> \in Inside => <<p, r>> \in Inside
    /\ \A p, q, r \in Path :
           <<p, r>> \in Inside /\ <<p, q>> \in Before /\ <<q, r>> \in Before
               => <<p, q>> \in Inside

VARIABLES
    input,   \* `candidates` as phase 1 leaves it
    cands,   \* `candidates`, sorted by the first step
    next,    \* the loop's position in cands, 0 before the sort
    kept     \* `kept`

vars == <<input, cands, next, kept>>

starts_with(q, p) == <<p, q>> \in Inside

(* Mutant: a sort that is not stable.                                      *)
UnstableSort(t, s, f) ==
    /\ s = [i \in 1 .. Len(t) |-> t[f[i]]]
    /\ \A i \in 1 .. Len(t) : \E j \in 1 .. Len(t) : f[j] = i
    /\ \A i, j \in 1 .. Len(t) : f[i] = f[j] => i = j
    /\ \A i, j \in 1 .. Len(t) : i < j => <<PathOf[s[i]], PathOf[s[j]]>> \in Before

(* The permutation f rearranges t into s, equal paths in their order.      *)
StableSort(t, s, f) ==
    /\ s = [i \in 1 .. Len(t) |-> t[f[i]]]
    /\ \A i \in 1 .. Len(t) : \E j \in 1 .. Len(t) : f[j] = i
    /\ \A i, j \in 1 .. Len(t) : f[i] = f[j] => i = j
    /\ \A i, j \in 1 .. Len(t) :
           i < j => /\ <<PathOf[s[i]], PathOf[s[j]]>> \in Before
                    /\ PathOf[s[i]] = PathOf[s[j]] => f[i] < f[j]

Init == /\ input \in Inputs
        /\ cands = input
        /\ next = 0
        /\ kept = << >>

(* Mutant: the sort is left out.                                           *)
SortNot ==
    /\ next = 0
    /\ next' = 1
    /\ UNCHANGED <<input, cands, kept>>

(* candidates.sort_by(|a, b| a.path.cmp(&b.path)), which is stable.        *)
Sort ==
    /\ next = 0
    /\ \E f \in [1 .. Len(input) -> 1 .. Len(input)] :
           cands' = [i \in 1 .. Len(input) |-> input[f[i]]] /\ StableSort(input, cands', f)
    /\ next' = 1
    /\ UNCHANGED <<input, kept>>

(* Mutant: a second candidate with the path of a kept one is not nested.   *)
NestedProperly(c) ==
    \E k \in 1 .. Len(kept) :
        /\ starts_with(PathOf[c], PathOf[kept[k]])
        /\ PathOf[c] # PathOf[kept[k]]

(* The candidate is inside the last kept one, or, with another path,       *)
(* inside any kept one.                                                    *)
Nested(c) ==
    \E k \in 1 .. Len(kept) :
        /\ starts_with(PathOf[c], PathOf[kept[k]])
        /\ k = Len(kept) \/ PathOf[c] # PathOf[kept[k]]

Looping == next \in 1 .. Len(cands)

(* Mutant: a dropped candidate takes the one after it along.               *)
DropTwo == /\ Looping /\ Nested(cands[next])
           /\ next' = next + 2
           /\ UNCHANGED <<input, cands, kept>>

Drop == /\ Looping /\ Nested(cands[next])
        /\ next' = next + 1
        /\ UNCHANGED <<input, cands, kept>>

Keep == /\ Looping /\ ~Nested(cands[next])
        /\ kept' = Append(kept, cands[next])
        /\ next' = next + 1
        /\ UNCHANGED <<input, cands>>

Next == Sort \/ Drop \/ Keep

Spec == Init /\ [][Next]_vars
-----------------------------------------------------------------------------
(* Properties.                                                             *)

Paths(s) == {PathOf[s[i]] : i \in 1 .. Len(s)}
Done     == next = Len(cands) + 1

(* Nothing is chosen until the loop is through; then it is what was kept.  *)
Outer == INSTANCE Outermost WITH done <- Done, result <- IF Done THEN kept ELSE << >>

(* Every variable has its type.                                            *)
TypeOK == /\ input \in Inputs
          /\ cands \in Seq(Candidate) /\ Len(cands) = Len(input)
          /\ next \in 0 .. Len(cands) + 1
          /\ kept \in Seq(Candidate)

(* What is left at the end are the outermost candidates, each path once:   *)
(* the definition the two checks of the loop have to add up to (comment on *)
(* dedupe_nested, "the outer path wins").                                  *)
KeptIsOutermost ==
    Done => /\ Paths(kept) = {p \in Paths(input) :
                                 \A q \in Paths(input) : <<q, p>> \in Inside => q = p}
            /\ \A j, k \in 1 .. Len(kept) : PathOf[kept[j]] = PathOf[kept[k]] => j = k

(* At no point is one kept candidate inside another, and no candidate is   *)
(* passed over unless a kept one holds it: deleting what is kept deletes   *)
(* every candidate, and none of them twice.                                *)
KeptCoversOnce ==
    /\ \A j, k \in 1 .. Len(kept) :
           j # k => <<PathOf[kept[j]], PathOf[kept[k]]>> \notin Inside
    /\ \A i \in 1 .. Len(cands) : i < next =>
           \E k \in 1 .. Len(kept) : <<PathOf[kept[k]], PathOf[cands[i]]>> \in Inside

(* The comment on the second check says that the sort makes only the       *)
(* immediate predecessor a possible ancestor; it does, and the last kept   *)
(* candidate always decides.                                               *)
LastDecides ==
    Looping /\ Nested(cands[next]) =>
        starts_with(PathOf[cands[next]], PathOf[kept[Len(kept)]])

(* Of two targets that resolve to one path, the catalog's first names it.  *)
FirstTargetWins ==
    \A k \in 1 .. Len(kept) : \A i \in 1 .. Len(input) :
        PathOf[input[i]] = PathOf[kept[k]] =>
            \E j \in 1 .. i : input[j] = kept[k]

(* The sort and the loop together are one choice of the outermost          *)
(* candidates, each by the first target that found it, in path order.      *)
ImplementsOutermost == Outer!Spec
=============================================================================
