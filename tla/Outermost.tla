------------------------------ MODULE Outermost ------------------------------
(***************************************************************************)
(* What phase 2 of a run promises (src/main.rs, comment on dedupe_nested), *)
(* in one step: of all candidates the outermost ones, each path once, in   *)
(* the order of the paths.  Dedupe implements it.                          *)
(***************************************************************************)
EXTENDS Naturals, Sequences

CONSTANTS Before, Inside, Candidate, PathOf, Inputs

VARIABLES input, done, result

vars == <<input, done, result>>

SamePath(i, j) == PathOf[input[i]] = PathOf[input[j]]

(* The positions to keep: nothing else holds the path, and nothing before  *)
(* it has the same one.                                                    *)
Chosen == {i \in 1 .. Len(input) : \A j \in 1 .. Len(input) :
              /\ <<PathOf[input[j]], PathOf[input[i]]>> \in Inside => SamePath(i, j)
              /\ SamePath(i, j) => i <= j}

Init == input \in Inputs /\ done = FALSE /\ result = << >>

Choose ==
    /\ ~done /\ done'
    /\ result' \in Seq(Candidate)
    /\ \A i \in Chosen : \E k \in 1 .. Len(result') : result'[k] = input[i]
    /\ \A k \in 1 .. Len(result') : \E i \in Chosen : result'[k] = input[i]
    /\ \A j, k \in 1 .. Len(result') : j < k =>
           /\ PathOf[result'[j]] # PathOf[result'[k]]
           /\ <<PathOf[result'[j]], PathOf[result'[k]]>> \in Before
    /\ UNCHANGED input

Spec == Init /\ [][Choose]_vars
=============================================================================
