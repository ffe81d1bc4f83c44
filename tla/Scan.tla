-------------------------------- MODULE Scan --------------------------------
(***************************************************************************)
(* src/scan.rs: sizing, the lock probe, and the two ways of finding        *)
(* candidates that are not fixed paths.  The recursive walks are stated by *)
(* what they visit.                                                        *)
(***************************************************************************)
EXTENDS Catalog

LockFresh == 300
LockNames == {".lock", "lock", ".package-lock"}

(* Mutant: only the entries of the directory itself are looked at.         *)
SizeTopLevel(fs, path) ==
    LET top == {r \in Children(fs, path) : fs[r].type = "file"}
    IN  [bytes  |-> SumFunction([r \in top |-> fs[r].len]),
         newest |-> Max({0} \cup {fs[r].mtime : r \in top})]

(* Files count wherever they are in the tree, with their length, if the    *)
(* walk gets there; links below it have neither size nor age, and are not  *)
(* followed.  A path that is itself a file or a link counts with the space *)
(* allocated for it.                                                       *)
size_path(fs, path) ==
    LET q       == Entry(fs, path)
        counted == {r \in Readable(fs, q) : \/ fs[r].type = "file"
                                            \/ r = q /\ fs[r].type = "link"}
    IN  [bytes  |-> SumFunction([r \in counted |-> IF r = q THEN fs[r].alloc ELSE fs[r].len]),
         newest |-> Max({0} \cup {fs[r].mtime : r \in counted})]

(* A lock from the future has no age and does not count.                   *)
lock_present(fs, dir, now) ==
    \E name \in LockNames :
        LET lp == Append(dir, name)
            m  == fs[Walk(fs, lp)].mtime
        IN  exists(fs, lp) /\ m <= now /\ now - m < LockFresh

has_sibling(fs, dir, names) == \E n \in names : exists(fs, Append(Parent(dir), n))

(* Mutant: the name alone is enough.                                       *)
NameAlone(fs, root, name, siblings) ==
    {root \o SubSeq(r, Len(Walk(fs, root)) + 1, Len(r)) :
        r \in {m \in Tree(fs, Walk(fs, root)) : fs[m].type = "dir" /\ Last(m) = name}}

(* Every directory below root with the name and, where it is required, the *)
(* sibling that proves it, outside any other such directory.               *)
find_named_dirs(fs, root, name, siblings) ==
    LET top      == Walk(fs, root)
        seen(r)  == root \o SubSeq(r, Len(top) + 1, Len(r))
        below    == {r \in Readable(fs, top) : r # top /\ fs[r].type = "dir"}
        match(r) == /\ Last(r) = name
                    /\ siblings = {} \/ has_sibling(fs, seen(r), siblings)
        matches  == {r \in below : match(r)}
    IN  IF ~is_dir(fs, root) THEN {}
        ELSE {seen(r) : r \in {m \in matches : \A a \in matches : StartsWith(m, a) => a = m}}

(* Mutants: the newest go; only one goes, the oldest.                      *)
NewestGo(fs, dir, keep) ==
    LET versions == {r \in Children(fs, dir) : fs[r].type = "dir"}
    IN  {Append(dir, Last(s)) : s \in {v \in versions :
            \E r \in versions : /\ version_group(Last(r)) = version_group(Last(v))
                                /\ fs[r].mtime < fs[v].mtime}}

OldestGoes(fs, dir, keep) ==
    LET versions   == {r \in Children(fs, dir) : fs[r].type = "dir"}
        peers(s)   == {r \in versions : version_group(Last(r)) = version_group(Last(s))}
        older(r, s) == \/ fs[r].mtime < fs[s].mtime
                       \/ fs[r].mtime = fs[s].mtime /\ Rank(Last(r)) < Rank(Last(s))
    IN  {Append(dir, Last(s)) : s \in {v \in versions :
            Cardinality(peers(v)) > keep /\ ~\E r \in peers(v) : older(r, v)}}

(* The directories below dir that at least keep newer ones of their group  *)
(* outlive; of two with one mtime the later name is the newer.             *)
stale_versions(fs, dir, keep) ==
    LET versions    == {r \in Children(fs, dir) : fs[r].type = "dir"}
        group(r)    == version_group(Last(r))
        newer(r, s) == \/ fs[r].mtime > fs[s].mtime
                       \/ fs[r].mtime = fs[s].mtime /\ Rank(Last(r)) > Rank(Last(s))
        ahead(s)    == {r \in versions : group(r) = group(s) /\ newer(r, s)}
    IN  {Append(dir, Last(s)) : s \in {v \in versions : Cardinality(ahead(v)) >= keep}}
=============================================================================
