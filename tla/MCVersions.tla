----------------------------- MODULE MCVersions -----------------------------
(* Installs of one product; the name of another sorts among theirs.        *)
EXTENDS Versions

CONSTANTS chromium, firefox

SecondOther == [v \in Name |-> IF v = 2 THEN firefox ELSE chromium]
=============================================================================
