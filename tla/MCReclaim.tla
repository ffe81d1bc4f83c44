----------------------------- MODULE MCReclaim -----------------------------
(* Small instances of Reclaim for TLC: the constants that are functions.   *)
EXTENDS Reclaim

CONSTANTS lock, file, cargoLock, uv, pip

AllOk == [c \in Cand |-> "ok"]
AllUv == [c \in Cand |-> uv]
KnownLocks == [c \in Cand |-> lock]

(* Two locations of one target, then one of another that is held back.     *)
TwoAndOne == [c \in Cand |-> IF c < 3 THEN uv ELSE pip]
SecondRefused == [c \in Cand |-> IF c = 2 THEN "outside root" ELSE "ok"]
=============================================================================
