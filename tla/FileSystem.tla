----------------------------- MODULE FileSystem -----------------------------
(***************************************************************************)
(* std::path and std::fs, as far as cachewipe uses them.                   *)
(*                                                                         *)
(* A path is the sequence of its components: "/" first if it is absolute,  *)
(* then names, "." (only in front) and "..".  A file system is a function  *)
(* from the canonical paths that exist to nodes: a node has a type, a      *)
(* length, the space allocated for it, a modification time, a mode, and a  *)
(* link the path it points to.  A directory of mode "r" keeps its entries, *)
(* one of mode "none" cannot even be looked into.                          *)
(***************************************************************************)
EXTENDS Integers, Sequences, SequencesExt, FiniteSetsExt

CONSTANTS
    Cwd,     \* the working directory
    Names    \* every name that occurs, in the order of their bytes

ASSUME NamesAssumption == Names \in Seq(STRING)

Nowhere == << >>

Node(type, len, mtime, to) == [type |-> type, len |-> len, alloc |-> len, mtime |-> mtime,
                               mode |-> "rw", to |-> to]
Dir(mtime)       == Node("dir", 0, mtime, Nowhere)
File(len, mtime) == Node("file", len, mtime, Nowhere)
Link(to)         == Node("link", 0, 1, to)

Sparse(len, alloc, mtime) == [File(len, mtime) EXCEPT !.alloc = alloc]
Guarded(mode, mtime)      == [Dir(mtime) EXCEPT !.mode = mode]

(* Path: parent, file_name, join, components, starts_with.  The parent of  *)
(* a path of one component is the empty path, the root has none.           *)
Special    == {"/", ".", ".."}
Component  == Special \cup {Names[i] : i \in DOMAIN Names}
Path       == Seq(Component)
Parent(p)  == Front(p)
HasName(p) == p # << >> /\ Last(p) \notin Special
StartsWith(p, q) == IsPrefix(q, p)
Depth(p)   == Cardinality({i \in DOMAIN p : p[i] \notin Special})

(* Path::cmp compares component by component; RootDir, CurDir and          *)
(* ParentDir come before every name.                                       *)
Rank(c) == CASE c = "/" -> 0 [] c = "." -> 1 [] c = ".." -> 2
             [] OTHER -> 2 + CHOOSE i \in DOMAIN Names : Names[i] = c

Precedes(p, q) ==
    \/ IsStrictPrefix(p, q)
    \/ \E i \in DOMAIN p \cap DOMAIN q :
           /\ SubSeq(p, 1, i - 1) = SubSeq(q, 1, i - 1)
           /\ Rank(p[i]) < Rank(q[i])

(* One name further, through a link if it is one.                          *)
Lookup(fs, d, name) ==
    LET q == Append(d, name)
    IN  IF q \notin DOMAIN fs \/ fs[d].mode = "none" THEN Nowhere
        ELSE IF fs[q].type # "link" THEN q
        ELSE IF fs[q].to \in DOMAIN fs THEN fs[q].to ELSE Nowhere

Step(fs, at, c) ==
    IF c = "/" THEN <<"/">>
    ELSE IF at = Nowhere \/ c = "." THEN at
    ELSE IF c = ".." THEN (IF at = <<"/">> THEN at ELSE Parent(at))
    ELSE Lookup(fs, at, c)

(* The kernel's walk along a path; Nowhere once the way is lost.           *)
WalkFrom(fs, start, p) ==
    LET at[i \in 0 .. Len(p)] == IF i = 0 THEN start ELSE Step(fs, at[i - 1], p[i])
    IN  at[Len(p)]

Here(fs)    == IF Cwd \in DOMAIN fs THEN Cwd ELSE Nowhere
Walk(fs, p) == IF p = << >> THEN Nowhere ELSE WalkFrom(fs, Here(fs), p)

(* Where lstat looks: as Walk, but a link at the end is not followed.      *)
Entry(fs, p) ==
    IF ~HasName(p) THEN Walk(fs, p)
    ELSE LET d == WalkFrom(fs, Here(fs), Parent(p))
             q == Append(d, Last(p))
         IN  IF d # Nowhere /\ q \in DOMAIN fs /\ fs[d].mode # "none" THEN q ELSE Nowhere

exists(fs, p)       == Walk(fs, p) # Nowhere
is_dir(fs, p)       == exists(fs, p) /\ fs[Walk(fs, p)].type = "dir"
canonicalize(fs, p) == Walk(fs, p)

(* What is at and below a canonical path.                                  *)
Tree(fs, q) == {r \in DOMAIN fs : q # Nowhere /\ StartsWith(r, q)}

(* read_dir: the names in a directory, seen through the path p.            *)
Children(fs, p) ==
    IF ~is_dir(fs, p) \/ fs[Walk(fs, p)].mode = "none" THEN {}
    ELSE {r \in DOMAIN fs : Len(r) > 1 /\ Parent(r) = Walk(fs, p)}

(* The part of a tree that a recursive read_dir gets to see.               *)
Readable(fs, q) ==
    {r \in Tree(fs, q) : \A i \in Len(q) .. Len(r) - 1 : fs[SubSeq(r, 1, i)].mode # "none"}

(* What cannot be removed: the entries of a directory that may not be      *)
(* written, a directory that may not be opened, and all that is in one.    *)
Held(fs, q) == \/ q # <<"/">> /\ fs[Parent(q)].mode # "rw"
               \/ \E i \in 1 .. Len(q) : fs[SubSeq(q, 1, i)].mode = "none"

(* Removing entries is a change to the directories they were in.           *)
Without(fs, gone, now) ==
    [q \in DOMAIN fs \ gone |->
        IF \E g \in gone : g # <<"/">> /\ Parent(g) = q
        THEN [fs[q] EXCEPT !.mtime = now] ELSE fs[q]]

(* What remove_dir_all or remove_file removes: a link itself, never what   *)
(* it points to.                                                           *)
RemovalTree(fs, p) == Tree(fs, Entry(fs, p))

(* A file system is well formed: its paths are canonical, and every entry  *)
(* is in a directory.                                                      *)
Nodes == [type : {"dir", "file", "link"}, len : Nat, alloc : Nat, mtime : Nat,
          mode : {"rw", "r", "none"}, to : Path]

WellFormed(fs) ==
    /\ IsFiniteSet(DOMAIN fs)
    /\ <<"/">> \in DOMAIN fs
    /\ fs \in [DOMAIN fs -> Nodes]
    /\ \A q \in DOMAIN fs :
           /\ q \in Path
           /\ q # <<"/">> => /\ Len(q) > 1 /\ HasName(q)
                             /\ Parent(q) \in DOMAIN fs /\ fs[Parent(q)].type = "dir"
=============================================================================
