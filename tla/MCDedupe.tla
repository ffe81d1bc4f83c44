------------------------------ MODULE MCDedupe ------------------------------
(* Dedupe over real paths: sequences of at most MaxDepth names, compared   *)
(* name by name, and lists of at most MaxCands candidates of two targets.  *)
EXTENDS Dedupe, SequencesExt

CONSTANTS Name, MaxDepth, MaxCands

MCPath == UNION {[1 .. n -> Name] : n \in 1 .. MaxDepth}

Precedes(p, q) ==
    \/ IsPrefix(p, q)
    \/ \E i \in 1 .. Len(p) :
           /\ i <= Len(q) /\ p[i] < q[i]
           /\ \A j \in 1 .. i - 1 : p[j] = q[j]

MCBefore == {pair \in MCPath \X MCPath : Precedes(pair[1], pair[2])}
MCInside == {pair \in MCPath \X MCPath : IsPrefix(pair[1], pair[2])}

MCCandidate == [target : {1, 2}, path : MCPath]
MCPathOf    == [c \in MCCandidate |-> c.path]
MCInputs    == UNION {[1 .. n -> MCCandidate] : n \in 0 .. MaxCands}
=============================================================================
