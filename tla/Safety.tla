------------------------------- MODULE Safety -------------------------------
(* src/safety.rs: the checks every candidate passes before it is deleted.  *)
EXTENDS FileSystem

(* Mutant: home is protected, what it is in is not.                        *)
HomeOnly(path, home) == path = <<"/">> \/ path = home \/ Depth(path) < 2

(* Purely on the text of the paths: nothing is resolved.                   *)
is_protected(path, home) ==
    \/ path = <<"/">> \/ path = home
    \/ Depth(path) < 2
    \/ StartsWith(home, path)

(* The longest prefix that exists is made canonical, the rest is appended  *)
(* to it, without its "..".                                                *)
canonicalize_lenient(fs, p) ==
    LET found == {i \in DOMAIN p : exists(fs, SubSeq(p, 1, i))}
        n     == Max(found)
    IN  IF found = {} THEN p
        ELSE canonicalize(fs, SubSeq(p, 1, n))
             \o SelectSeq(SubSeq(p, n + 1, Len(p)), LAMBDA c : c \notin Special)

within_root(fs, candidate, root) ==
    StartsWith(canonicalize_lenient(fs, candidate), canonicalize_lenient(fs, root))

evaluate(fs, candidate, root, home, present, locked) ==
    CASE is_protected(candidate, home)          -> "protected"
      [] ~is_protected(candidate, home)
         /\ ~within_root(fs, candidate, root)   -> "outside root"
      [] OTHER -> IF ~present THEN "missing" ELSE IF locked THEN "in use" ELSE "ok"
=============================================================================
