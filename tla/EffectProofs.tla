---------------------------- MODULE EffectProofs ----------------------------
(* Proofs about what the calls of Cachewipe leave on the disk, and what    *)
(* they report of it.                                                      *)
EXTENDS CachewipeProofs

-----------------------------------------------------------------------------
(* Where paths are no aliases, a candidate is what its path says.          *)
LEMMA StraightRemains ==
    ASSUME NEW disk, WellFormed(disk), NEW old, WellFormed(old), Remains(disk, old), NEW p \in Path,
           Straight(old, p)
    PROVE  Straight(disk, p)
<1>1. CASE p = << >> \/ WalkFrom(disk, Here(disk), p) = Nowhere
  BY <1>1 DEF Straight, Walk
<1>2. CASE p # << >> /\ WalkFrom(disk, Here(disk), p) # Nowhere
  BY <1>2, WalkRemains DEF Straight, Walk
<1> QED
  BY <1>1, <1>2

LEMMA ParentPath ==
    ASSUME NEW p \in Path, HasName(p)
    PROVE  Parent(p) \in Path /\ Append(Parent(p), Last(p)) = p
  BY DEF Parent, Front, Last, HasName, Path

LEMMA NoAliasRemains ==
    ASSUME HomeIs, NEW disk, WellFormed(disk), NEW old, WellFormed(old), Remains(disk, old),
           NEW c \in Config, NoAlias(old, home, c)
    PROVE  NoAlias(disk, home, c)
<1>1. ASSUME NEW idx \in DOMAIN catalog, NEW k \in DOMAIN catalog[idx].subs
      PROVE  LET dir == home_path(home, catalog[idx].subs[k])
             IN  Straight(disk, IF catalog[idx].kind = "HomeDirs" THEN Parent(dir) ELSE dir)
  <2> DEFINE dir == home_path(home, catalog[idx].subs[k])
             p   == IF catalog[idx].kind = "HomeDirs" THEN Parent(dir) ELSE dir
  <2>1. dir \in Path /\ HasName(dir)
    BY LocationPath
  <2>2. p \in Path
    BY <2>1, ParentPath
  <2>3. Straight(old, p)
    BY DEF NoAlias
  <2> HIDE DEF p
  <2>4. Straight(disk, p)
    BY <2>2, <2>3, StraightRemains
  <2> QED
    BY <2>4 DEF p
<1>2. ASSUME NEW k \in DOMAIN c.scan_roots PROVE Straight(disk, c.scan_roots[k])
  <2>1. c.scan_roots \in Seq(Path)
    BY DEF Config
  <2>2. c.scan_roots[k] \in Path
    BY <2>1
  <2> QED
    BY <2>2, StraightRemains DEF NoAlias
<1> QED
  BY <1>1, <1>2 DEF NoAlias

LEMMA StraightEntry ==
    ASSUME NEW disk, NEW p \in Path, HasName(p), Straight(disk, Parent(p)), Parent(p) # << >>
    PROVE  Entry(disk, p) \in {p, Nowhere}
<1>1. WalkFrom(disk, Here(disk), Parent(p)) \in {Parent(p), Nowhere}
  BY DEF Straight, Walk
<1>2. Append(Parent(p), Last(p)) = p
  BY ParentPath
<1> QED
  BY <1>1, <1>2 DEF Entry

LEMMA StraightLocation ==
    ASSUME HomeIs, NEW disk, NEW c, NoAlias(disk, home, c),
           NEW idx \in DOMAIN catalog, catalog[idx].kind = "HomeDirs",
           NEW k \in DOMAIN catalog[idx].subs
    PROVE  LET dir == home \o catalog[idx].subs[k] IN Entry(disk, dir) \in {dir, Nowhere}
<1> DEFINE sub == catalog[idx].subs[k]
           dir == home \o sub
<1>1. dir = home_path(home, sub)
  BY DEF home_path
<1>2. dir \in Path /\ HasName(dir)
  BY <1>1, LocationPath
<1>3. sub \in Path /\ HasName(sub) /\ Len(sub) > 0
  BY CatalogIs DEF Sound, AllNamed, Placed, HasName, Path
<1>4. Straight(disk, Parent(dir))
  BY <1>1 DEF NoAlias
<1> HIDE DEF sub
<1>5. Parent(dir) = home \o Parent(sub) /\ Parent(sub) \in Path
  BY <1>3, EndOfConcat, ParentPath DEF HomeIs, Path
<1>6. Parent(dir) # << >>
  BY <1>5 DEF HomeIs, Path, Nowhere
<1> HIDE DEF dir
<1>7. Entry(disk, dir) \in {dir, Nowhere}
  BY <1>2, <1>4, <1>6, StraightEntry
<1> QED
  BY <1>7 DEF dir, sub

LEMMA StraightHomeCandidate ==
    ASSUME HomeIs, NEW disk, NEW c, NoAlias(disk, home, c),
           NEW idx \in DOMAIN catalog, catalog[idx].kind = "HomeDirs", NEW x \in HomeCandidates(home, idx)
    PROVE  Entry(disk, x.path) \in {x.path, Nowhere}
<1>1. PICK k \in DOMAIN catalog[idx].subs : x.path = home \o catalog[idx].subs[k]
  BY DEF HomeCandidates, Found, home_path
<1> QED
  BY <1>1, StraightLocation

LEMMA StraightVersionCandidate ==
    ASSUME HomeIs, NEW disk, WellFormed(disk), NEW c, NoAlias(disk, home, c),
           NEW idx \in DOMAIN catalog, catalog[idx].kind = "VersionedDirs",
           NEW x \in VersionCandidates(disk, home, idx)
    PROVE  Entry(disk, x.path) \in {x.path, Nowhere}
<1>1. PICK k \in DOMAIN catalog[idx].subs :
          x.path \in stale_versions(disk, home_path(home, catalog[idx].subs[k]), catalog[idx].keep)
  BY DEF VersionCandidates, Found
<1> DEFINE dir == home_path(home, catalog[idx].subs[k])
<1>2. \E s \in Children(disk, dir) : x.path = Append(dir, Last(s))
  BY <1>1 DEF stale_versions
<1>3. dir \in Path /\ HasName(dir)
  BY LocationPath
<1>4. Straight(disk, dir)
  BY DEF NoAlias
<1> HIDE DEF dir
<1>5. x.path \in Path /\ HasName(x.path)
  BY <1>2, <1>3, EntryOfChild
<1>6. Parent(x.path) = dir
  BY <1>2, <1>3 DEF Parent, Front, Path
<1> QED
  BY <1>3, <1>4, <1>5, <1>6, StraightEntry DEF HasName

LEMMA StraightNamedCandidate ==
    ASSUME NEW disk, WellFormed(disk), NEW c \in Config, NoAlias(disk, home, c),
           NEW idx \in DOMAIN catalog, NEW x \in NamedCandidates(disk, idx, c.scan_roots)
    PROVE  Entry(disk, x.path) \in {x.path, Nowhere}
<1>1. PICK k \in DOMAIN c.scan_roots :
          x.path \in find_named_dirs(disk, c.scan_roots[k], catalog[idx].name, catalog[idx].siblings)
  BY DEF NamedCandidates, Found
<1> DEFINE root == c.scan_roots[k]
           top  == Walk(disk, root)
<1>2. root \in Path
  <2>1. c.scan_roots \in Seq(Path)
    BY DEF Config
  <2> QED
    BY <2>1
<1>3. /\ exists(disk, root)
      /\ \E r \in Readable(disk, top) :
             r # top /\ x.path = root \o SubSeq(r, Len(top) + 1, Len(r))
  BY <1>1 DEF find_named_dirs, is_dir
<1>4. top = root
  BY <1>3 DEF NoAlias, Straight, exists
<1> HIDE DEF root
<1>5. PICK r \in Readable(disk, top) :
          r # top /\ x.path = root \o SubSeq(r, Len(top) + 1, Len(r))
  BY <1>3
<1>6. r \in DOMAIN disk /\ IsStrictPrefix(top, r) /\ Entry(disk, x.path) = r
  <2> DEFINE p == root \o SubSeq(r, Len(top) + 1, Len(r))
  <2>1. r \in DOMAIN disk /\ IsStrictPrefix(top, r) /\ Entry(disk, p) = r
    BY <1>2, <1>3, <1>5, EntryBelow, Zenon
  <2>2. x.path = p
    BY <1>5
  <2> QED
    BY <2>1, <2>2
<1>7. r \in Path
  BY <1>6, WellFormedParts
<1> HIDE DEF top
<1>8. Len(root) <= Len(r) /\ AgreeTo(root, r, Len(root))
  BY <1>2, <1>4, <1>6, <1>7, Prefix DEF IsStrictPrefix, StartsWith
<1>9. root \o SubSeq(r, Len(root) + 1, Len(r)) = r
  BY <1>2, <1>7, <1>8 DEF AgreeTo, Path
<1> QED
  BY <1>4, <1>5, <1>6, <1>9

LEMMA CandidatesStraight ==
    ASSUME HomeIs, NEW disk, WellFormed(disk), NEW c \in Config, NoAlias(disk, home, c),
           NEW x \in Candidates(disk, c, home)
    PROVE  Entry(disk, x.path) \in {x.path, Nowhere}
<1>1. PICK idx \in DOMAIN catalog :
          x \in CASE catalog[idx].kind = "HomeDirs"      -> HomeCandidates(home, idx)
                  [] catalog[idx].kind = "VersionedDirs" -> VersionCandidates(disk, home, idx)
                  [] catalog[idx].kind = "NamedDirUnder" -> NamedCandidates(disk, idx, c.scan_roots)
                  [] catalog[idx].kind = "External"      -> {}
  BY DEF Candidates, Considered
<1>2. catalog[idx].kind \in {"HomeDirs", "VersionedDirs", "NamedDirUnder", "External"}
  BY CatalogIs DEF Sound
<1>3. CASE catalog[idx].kind = "HomeDirs"
  BY <1>1, <1>3, StraightHomeCandidate
<1>4. CASE catalog[idx].kind = "VersionedDirs"
  BY <1>1, <1>4, StraightVersionCandidate
<1>5. CASE catalog[idx].kind = "NamedDirUnder"
  BY <1>1, <1>5, StraightNamedCandidate
<1> QED
  BY <1>1, <1>2, <1>3, <1>4, <1>5

-----------------------------------------------------------------------------
(* What is listed and what is still to come are apart: no path is inside   *)
(* another, and none is an alias of another where the scene is direct.     *)
Away(it, x) == it.path # Nowhere => ~StartsWith(it.path, x.path) /\ ~StartsWith(x.path, it.path)

Alike(a, b) ==
    a.path # Nowhere /\ b.path # Nowhere /\ StartsWith(a.path, b.path) => a = b

AsSpelled(p) == Entry(before, p) \in {p, Nowhere}

Apart ==
    /\ pc = "resolve" => items = << >>
    /\ \A i, j \in 1 .. Len(items) : Alike(items[i], items[j])
    /\ \A i \in 1 .. Len(items) : \A k \in 1 .. Len(kept) : Away(items[i], kept[k])

Spelled ==
    /\ Remains(before, scene.disk)
    /\ Direct(scene) => /\ \A i \in 1 .. Len(items) : AsSpelled(items[i].path)
                        /\ \A k \in 1 .. Len(kept) : AsSpelled(kept[k].path)

Living == Direct(scene) /\ OneHome(scene) => HomeSurvives

LEMMA NeverBack ==
    ASSUME NEW list \in Seq(Candidate), Ordered(list), NEW i \in 1 .. Len(list), NEW j \in 1 .. i - 1
    PROVE  ~StartsWith(list[i].path, list[j].path) /\ ~StartsWith(list[j].path, list[i].path)
<1>1. i \in Nat /\ j \in 1 .. Len(list)
  OBVIOUS
<1>2. list[i].path \in Path /\ list[j].path \in Path
  <2>1. list[i] \in Candidate /\ list[j] \in Candidate
    BY <1>1, ElementType
  <2> QED
    BY <2>1 DEF Candidate
<1>3. ~StartsWith(list[i].path, list[j].path) /\ SortsBefore(list[j], list[i])
  BY DEF Ordered
<1> DEFINE p == list[i].path
           q == list[j].path
<1> HIDE DEF p, q
<1>4. p \in Path /\ q \in Path /\ ~StartsWith(p, q)
  BY <1>2, <1>3 DEF p, q
<1>5. Precedes(q, p) \/ q = p
  BY <1>3 DEF SortsBefore, p, q
<1>6. q # p
  <2>1. StartsWith(p, p)
    BY <1>4, Prefix DEF AgreeTo, Path
  <2> QED
    BY <1>4, <2>1
<1>7. ASSUME StartsWith(q, p) PROVE FALSE
  <2>1. Precedes(p, q)
    BY <1>6, <1>7 DEF Precedes, IsStrictPrefix, StartsWith
  <2>2. Less(p, q) /\ Less(q, p)
    BY <1>4, <1>5, <1>6, <2>1, PrecedesIsLess
  <2> QED
    BY <1>4, <2>2, LessTransitive, LessIrreflexive
<1> QED
  BY <1>3, <1>7 DEF p, q

(* One more candidate judged.                                              *)
LEMMA ApartJudged ==
    ASSUME IInv, Apart, pc = "judge", kept # << >>, NEW it \in ItemSet, it.path = Head(kept).path,
           Judged(it)
    PROVE  Apart'
<1>1. /\ kept \in Seq(Candidate) /\ Ordered(kept) /\ items \in Seq(ItemSet)
      /\ items' = Append(items, it) /\ kept' = Tail(kept) /\ pc' = pc
  BY DEF IInv, Phases, Reported, Judged
<1>2. /\ Len(kept) \in Nat /\ Len(kept) > 0 /\ Head(kept) = kept[1] /\ 1 \in 1 .. Len(kept)
      /\ kept' \in Seq(Candidate) /\ Len(kept') = Len(kept) - 1
      /\ \A k \in 1 .. Len(kept) - 1 : k + 1 \in 1 .. Len(kept) /\ kept'[k] = kept[k + 1]
                                       /\ 1 \in 1 .. (k + 1) - 1
  BY <1>1
<1>3. it.path = kept[1].path
  BY <1>2
<1> DEFINE last == Len(items) + 1
<1>4. \A i \in 1 .. Len(items') : \/ i \in 1 .. Len(items) /\ items'[i] = items[i]
                                  \/ items'[i] = it
  BY <1>1, OneItemMore
<1>5. \A i \in 1 .. Len(items) : Away(items[i], kept[1])
  BY <1>2 DEF Apart
<1>6. \A i, j \in 1 .. Len(items') : Alike(items'[i], items'[j])
  BY <1>3, <1>4, <1>5 DEF Apart, Alike, Away
<1>7. \A k \in 1 .. Len(kept') : Away(it, kept'[k])
  BY <1>1, <1>2, <1>3, NeverBack DEF Away
<1>8. \A i \in 1 .. Len(items) : \A k \in 1 .. Len(kept') : Away(items[i], kept'[k])
  BY <1>2 DEF Apart
<1>9. \A i \in 1 .. Len(items') : \A k \in 1 .. Len(kept') : Away(items'[i], kept'[k])
  BY <1>4, <1>7, <1>8
<1> QED
  BY <1>1, <1>6, <1>9 DEF Apart, Away, Alike

LEMMA SpelledJudged ==
    ASSUME IInv, Spelled, pc = "judge", kept # << >>, NEW it \in ItemSet, it.path = Head(kept).path,
           Judged(it)
    PROVE  Spelled'
<1>1. /\ kept \in Seq(Candidate) /\ items \in Seq(ItemSet)
      /\ items' = Append(items, it) /\ kept' = Tail(kept)
  BY DEF IInv, Phases, Reported, Judged
<1>2. /\ Len(kept) \in Nat /\ Len(kept) > 0 /\ Head(kept) = kept[1] /\ 1 \in 1 .. Len(kept)
      /\ kept' \in Seq(Candidate) /\ Len(kept') = Len(kept) - 1
      /\ \A k \in 1 .. Len(kept) - 1 : k + 1 \in 1 .. Len(kept) /\ kept'[k] = kept[k + 1]
  BY <1>1
<1>3. before' = before /\ scene' = scene
  BY SameCall DEF Judged
<1>4. \A i \in 1 .. Len(items') : \/ i \in 1 .. Len(items) /\ items'[i] = items[i]
                                  \/ items'[i] = it
  BY <1>1, OneItemMore
<1>5. ASSUME Direct(scene)
      PROVE  /\ \A i \in 1 .. Len(items') : AsSpelled(items'[i].path)
             /\ \A k \in 1 .. Len(kept') : AsSpelled(kept'[k].path)
  BY <1>2, <1>4, <1>5 DEF Spelled
<1> QED
  BY <1>3, <1>5 DEF Spelled, AsSpelled

JInv == IInv /\ Apart /\ Spelled /\ Living

(* Where nothing is listed or removed, nothing changes.                    *)
LEMMA QuietApart ==
    ASSUME JInv, UNCHANGED call, fs' = fs, items' = items, kept' = kept, pc' # "resolve"
    PROVE  Apart' /\ Spelled' /\ Living'
<1>1. before' = before /\ scene' = scene
  BY SameCall
<1>2. Apart'
  BY DEF JInv, Apart, Away, Alike
<1>3. Spelled'
  BY <1>1 DEF JInv, Spelled, AsSpelled
<1>4. Living'
  BY <1>1 DEF JInv, Living, HomeSurvives, Homes
<1> QED
  BY <1>2, <1>3, <1>4

LEMMA InitApart == ASSUME Init PROVE Apart /\ Spelled /\ Living
<1>1. /\ items = << >> /\ kept = << >> /\ pc = "called"
      /\ fs = scene.disk /\ before = scene.disk
  BY DEF Init
<1>2. \A i : i \notin 1 .. Len(items) /\ i \notin 1 .. Len(kept)
  BY <1>1, EmptyList
<1> QED
  BY <1>1, <1>2, RemainsReflexive DEF Apart, Spelled, Living, HomeSurvives

LEMMA CallApart == ASSUME JInv, Call PROVE Apart' /\ Spelled' /\ Living'
<1>1. before' = fs /\ items' = << >> /\ fs' = fs /\ scene' = scene /\ kept' = kept /\ pc = "called"
  BY DEF Call
<1>2. kept' = << >>
  BY <1>1 DEF JInv, IInv, Phases
<1>3. \A i : i \notin 1 .. Len(items') /\ i \notin 1 .. Len(kept')
  BY <1>1, <1>2, EmptyList
<1>4. Remains(fs, scene.disk)
  BY RemainsTransitive DEF JInv, Spelled, IInv, Basics
<1>5. Apart' /\ Spelled'
  BY <1>1, <1>3, <1>4 DEF Apart, Spelled
<1>6. Living'
  BY <1>1 DEF JInv, Living, HomeSurvives, Homes
<1> QED
  BY <1>5, <1>6

LEMMA CallDirect ==
    ASSUME IInv, Spelled, Direct(scene), Asked
    PROVE  NoAlias(scene.disk, home, cfg) /\ NoAlias(before, home, cfg)
<1>1. scene \in Scenes /\ WellFormed(before) /\ cfg \in Config /\ HomeIs
  BY DEF IInv, Basics, Asked
<1>2. WellFormed(scene.disk) /\ scene.calls \in Seq([home : Path, args : Seq(DOMAIN Paths)])
  BY <1>1, SystemAssumption
<1>3. nth \in DOMAIN scene.calls
  <2>1. nth \in 0 .. Len(scene.calls) /\ nth > 0
    BY DEF IInv, Basics, Asked
  <2> QED
    BY <1>2, <2>1
<1>4. NoAlias(scene.disk, home, cfg)
  BY <1>3 DEF Direct, Asked, HomeIs, home, args
<1> QED
  BY <1>1, <1>2, <1>4, NoAliasRemains DEF Spelled

LEMMA ResolveApart == ASSUME JInv, Resolve PROVE Apart' /\ Spelled' /\ Living'
<1>1. /\ pc = "resolve" /\ kept' = Listing(fs, cfg, home) /\ pc' = "judge"
      /\ UNCHANGED call /\ fs' = fs /\ items' = items
  BY DEF Resolve
<1>2. before' = before /\ scene' = scene
  BY <1>1, SameCall
<1>3. items' = << >> /\ \A i : i \notin 1 .. Len(items')
  BY <1>1, EmptyList DEF JInv, Apart
<1>4. Asked /\ fs = before /\ WellFormed(before) /\ cfg \in Config /\ HomeIs
  BY <1>1 DEF JInv, IInv, Phases, Basics, Asked
<1> DEFINE found == Candidates(before, cfg, home)
<1>5. Sortable(found)
  BY <1>4, CandidatesAre
<1>6. kept' = dedupe_nested(found)
  BY <1>1, <1>4 DEF Listing
<1>7. ASSUME Direct(scene), NEW x \in found PROVE AsSpelled(x.path)
  <2>1. NoAlias(before, home, cfg)
    BY <1>4, <1>7, CallDirect DEF JInv
  <2> QED
    BY <1>4, <2>1, CandidatesStraight DEF AsSpelled
<1> HIDE DEF found
<1>8. kept' \in Seq(found)
  BY <1>5, <1>6, DedupeKeeps DEF Outer
<1>9. ASSUME Direct(scene), NEW k \in 1 .. Len(kept') PROVE AsSpelled(kept'[k].path)
  BY <1>7, <1>8, <1>9, ElementType
<1>10. Spelled'
  BY <1>2, <1>3, <1>9 DEF JInv, Spelled, AsSpelled
<1>11. Apart'
  BY <1>1, <1>3 DEF Apart
<1>12. Living'
  BY <1>1, <1>2 DEF JInv, Living, HomeSurvives, Homes
<1> QED
  BY <1>10, <1>11, <1>12

LEMMA SkipApart == ASSUME JInv, Skip \/ WouldDelete PROVE Apart' /\ Spelled' /\ Living'
<1>1. /\ pc = "judge" /\ kept # << >> /\ fs' = fs
      /\ \E reason \in Reasons : Judged(Item(Head(kept), reason))
  BY ReasonIs DEF Skip, WouldDelete, Reasons
<1>2. PICK reason \in Reasons : Judged(Item(Head(kept), reason))
  BY <1>1
<1>3. Item(Head(kept), reason) \in ItemSet /\ Item(Head(kept), reason).path = Head(kept).path
  BY <1>1, HeadIs, ItemType DEF JInv, IInv, Basics
<1>4. Apart' /\ Spelled'
  BY <1>1, <1>2, <1>3, ApartJudged, SpelledJudged DEF JInv
<1>5. scene' = scene
  BY <1>2, SameCall DEF Judged
<1>6. Living'
  BY <1>1, <1>5 DEF JInv, Living, HomeSurvives, Homes
<1> QED
  BY <1>4, <1>6

LEMMA DeleteTakes ==
    ASSUME Delete
    PROVE  /\ pc = "judge" /\ kept # << >> /\ Reason(Head(kept)) = "ok"
           /\ \E reason \in {"deleted", "delete failed"} : Judged(Item(Head(kept), reason))
           /\ \A q \in DOMAIN fs : q \in DOMAIN fs' \/ q \in Tree(fs, Entry(fs, Head(kept).path))
<1> DEFINE tree == Tree(fs, Entry(fs, Head(kept).path))
<1>1. remove_path(Head(kept).path) = tree
  BY DEF remove_path, RemovalTree
<1>2. \E gone, reason : /\ reason \in {"deleted", "delete failed"} /\ gone \subseteq tree
                        /\ fs' = Without(fs, gone, Now) /\ Judged(Item(Head(kept), reason))
  BY <1>1 DEF Delete, Partial
<1>3. PICK gone, reason : /\ reason \in {"deleted", "delete failed"} /\ gone \subseteq tree
                          /\ fs' = Without(fs, gone, Now) /\ Judged(Item(Head(kept), reason))
  BY <1>2
<1>4. DOMAIN fs' = DOMAIN fs \ gone
  BY <1>3 DEF Without
<1> QED
  BY <1>3, <1>4 DEF Delete

LEMMA HeadFirst ==
    ASSUME NEW S, NEW s \in Seq(S), s # << >> PROVE 1 \in 1 .. Len(s) /\ Head(s) = s[1]
  OBVIOUS

LEMMA Indexes == ASSUME NEW S, NEW s \in Seq(S) PROVE Len(s) \in Nat /\ DOMAIN s = 1 .. Len(s)
  OBVIOUS

LEMMA AboveZero == ASSUME NEW n \in Nat, NEW i \in 0 .. n, i > 0 PROVE i \in 1 .. n
  OBVIOUS

LEMMA UpTo ==
    ASSUME NEW h \in Path, NEW i \in 1 .. Len(h)
    PROVE  LET q == SubSeq(h, 1, i) IN q \in Path /\ Len(q) = i /\ StartsWith(h, q)
<1> DEFINE q == SubSeq(h, 1, i)
<1>1. q \in Path /\ Len(q) = i /\ i \in Nat /\ i <= Len(h) /\ \A j \in 1 .. i : q[j] = h[j]
  BY DEF Path
<1> HIDE DEF q
<1>2. StartsWith(h, q)
  BY <1>1, Prefix DEF AgreeTo
<1> QED
  BY <1>1, <1>2 DEF q

LEMMA InsideTwice ==
    ASSUME NEW p \in Path, NEW q \in Path, NEW r \in Path, StartsWith(r, q), StartsWith(q, p)
    PROVE  StartsWith(r, p)
<1>1. /\ Len(p) \in Nat /\ Len(q) \in Nat /\ Len(r) \in Nat
      /\ Len(p) <= Len(q) /\ Len(q) <= Len(r)
      /\ AgreeTo(p, q, Len(p)) /\ AgreeTo(q, r, Len(q))
  BY Prefix DEF Path
<1>2. AgreeTo(p, r, Len(p))
  BY <1>1 DEF AgreeTo
<1> QED
  BY <1>1, <1>2, Prefix

LEMMA DeleteApart == ASSUME JInv, Delete PROVE Apart' /\ Spelled' /\ Living'
<1> DEFINE c == Head(kept)
           e == Entry(fs, c.path)
<1>1. /\ pc = "judge" /\ kept # << >> /\ Reason(c) = "ok"
      /\ \E reason \in {"deleted", "delete failed"} : Judged(Item(c, reason))
      /\ \A q \in DOMAIN fs : q \in DOMAIN fs' \/ q \in Tree(fs, e)
  BY DeleteTakes
<1>2. PICK reason \in {"deleted", "delete failed"} : Judged(Item(c, reason))
  BY <1>1
<1>3. /\ c \in Candidate /\ c.path \in Path /\ WellFormed(fs) /\ WellFormed(before)
      /\ Remains(fs, before) /\ scene \in Scenes /\ nth \in 0 .. Len(scene.calls)
  BY <1>1, HeadIs DEF JInv, IInv, Basics
<1>4. Item(c, reason) \in ItemSet /\ Item(c, reason).path = c.path
  <2>1. reason \in Reasons
    BY DEF Reasons
  <2> HIDE DEF c
  <2> QED
    BY <1>3, <2>1, ItemType
<1>5. Apart' /\ Spelled'
  BY <1>1, <1>2, <1>4, ApartJudged, SpelledJudged DEF JInv
<1>6. scene' = scene
  BY <1>2, SameCall DEF Judged
<1>7. HomeIs /\ nth > 0
  BY <1>1 DEF JInv, IInv, Phases, Asked
<1>8. home = scene.calls[nth].home /\ nth \in DOMAIN scene.calls
  <2>1. scene.calls \in Seq([home : Path, args : Seq(DOMAIN Paths)])
    BY <1>3, SystemAssumption
  <2>2. Len(scene.calls) \in Nat /\ DOMAIN scene.calls = 1 .. Len(scene.calls)
    BY <2>1, Indexes
  <2>3. nth \in 1 .. Len(scene.calls)
    <3>1. nth \in 0 .. Len(scene.calls) /\ nth > 0
      BY <1>3, <1>7
    <3> QED
      BY <2>2, <3>1, AboveZero
  <2> QED
    BY <2>2, <2>3 DEF home
<1>9. AsSpelled(c.path) \/ ~Direct(scene)
  <2>1. kept \in Seq(Candidate)
    BY DEF JInv, IInv, Phases
  <2>2. 1 \in 1 .. Len(kept) /\ c = kept[1]
    BY <1>1, <2>1, HeadFirst
  <2> HIDE DEF c
  <2> QED
    BY <2>2 DEF JInv, Spelled
<1> HIDE DEF c
<1>10. ASSUME Direct(scene), OneHome(scene), NEW h \in Homes, NEW i \in DOMAIN h,
              SubSeq(h, 1, i) \in DOMAIN scene.disk
       PROVE  SubSeq(h, 1, i) \in DOMAIN fs'
  <2> DEFINE q == SubSeq(h, 1, i)
  <2>1. h = home
    BY <1>7, <1>8, <1>10 DEF Homes, OneHome, HomeIs
  <2>2. q \in DOMAIN fs
    BY <1>10 DEF JInv, Living, HomeSurvives
  <2>3. ASSUME q \in Tree(fs, e) PROVE FALSE
    <3>1. e # Nowhere /\ StartsWith(q, e)
      BY <2>3 DEF Tree
    <3>2. e = c.path
      BY <1>3, <1>9, <1>10, <3>1, EntryRemains DEF AsSpelled
    <3>3. q \in Path /\ StartsWith(home, q) /\ home \in Path
      <4>1. home \in Path /\ i \in 1 .. Len(home)
        BY <1>7, <2>1, Indexes DEF HomeIs, Path
      <4> QED
        BY <2>1, <4>1, UpTo
    <3> HIDE DEF q, e
    <3>4. StartsWith(home, c.path)
      BY <1>3, <3>1, <3>2, <3>3, InsideTwice
    <3>7. is_protected(c.path, home)
      BY <3>4 DEF is_protected
    <3>8. verdict(fs, home, c) = "protected"
      BY <3>7 DEF verdict, evaluate
    <3> QED
      BY <1>1, <3>8 DEF Reason, ReasonAt
  <2> QED
    BY <1>1, <2>2, <2>3
<1>11. Living'
  BY <1>6, <1>10 DEF Living, HomeSurvives, Homes
<1> QED
  BY <1>5, <1>11

LEMMA RetainApart == ASSUME JInv, Retain PROVE Apart' /\ Spelled' /\ Living'
<1> DEFINE stays == {n \in DOMAIN items : ~(Matched(items[n].id) /\ items[n].reason = "missing")}
<1>1. /\ kept = << >> /\ kept' = kept /\ items' = Retained(stays) /\ pc' = "delegate"
      /\ UNCHANGED call /\ fs' = fs
  BY DEF Retain
<1>2. before' = before /\ scene' = scene
  BY <1>1, SameCall
<1>3. items \in Seq(ItemSet)
  BY DEF JInv, IInv, Reported
<1> HIDE DEF stays
<1>4. \A i \in 1 .. Len(items') : \E l \in 1 .. Len(items) : items'[i] = items[l]
  <2>1. Picks(ItemSet, items', stays, Len(items))
    BY <1>1, <1>3, RetainedIs
  <2> QED
    BY <2>1 DEF Picks
<1>5. \A k : k \notin 1 .. Len(kept')
  BY <1>1, EmptyList
<1>6. \A i, j \in 1 .. Len(items') : Alike(items'[i], items'[j])
  <2>1. ASSUME NEW i \in 1 .. Len(items'), NEW j \in 1 .. Len(items')
        PROVE  Alike(items'[i], items'[j])
    <3>1. PICK l \in 1 .. Len(items) : items'[i] = items[l]
      BY <1>4
    <3>2. PICK m \in 1 .. Len(items) : items'[j] = items[m]
      BY <1>4
    <3> QED
      BY <3>1, <3>2 DEF JInv, Apart
  <2> QED
    BY <2>1
<1>7. ASSUME Direct(scene), NEW i \in 1 .. Len(items') PROVE AsSpelled(items'[i].path)
  BY <1>4, <1>7 DEF JInv, Spelled
<1>8. Apart'
  BY <1>1, <1>5, <1>6 DEF Apart, Alike
<1>9. Spelled'
  BY <1>2, <1>5, <1>7 DEF JInv, Spelled, AsSpelled
<1>10. Living'
  BY <1>1, <1>2 DEF JInv, Living, HomeSurvives, Homes
<1> QED
  BY <1>8, <1>9, <1>10

LEMMA AppendIs ==
    ASSUME NEW S, NEW s \in Seq(S), NEW x, NEW i \in 1 .. Len(Append(s, x))
    PROVE  (i \in 1 .. Len(s) /\ Append(s, x)[i] = s[i]) \/ Append(s, x)[i] = x
  OBVIOUS

LEMMA HandleExternalApart == ASSUME JInv, handle_external PROVE Apart' /\ Spelled' /\ Living'
<1> DEFINE t             == catalog[Min(delegated)]
           it(v, reason) == [id |-> t.id, tier |-> t.tier, path |-> Nowhere,
                             verdict |-> v, reason |-> reason, bytes |-> 0]
<1>1. /\ pc = "delegate" /\ UNCHANGED call /\ fs' = fs /\ pc' = pc /\ kept' = kept
      /\ \E v, reason : items' = Append(items, it(v, reason))
  BY DEF handle_external
<1>2. PICK v, reason : items' = Append(items, it(v, reason))
  BY <1>1
<1> DEFINE new == it(v, reason)
<1>3. new.path = Nowhere /\ items' = Append(items, new)
  BY <1>2
<1> HIDE DEF new
<1>4. items \in Seq(ItemSet)
  BY DEF JInv, IInv, Reported
<1>5. \A i \in 1 .. Len(items') : \/ i \in 1 .. Len(items) /\ items'[i] = items[i]
                                  \/ items'[i] = new
  BY <1>3, <1>4, AppendIs
<1>6. before' = before /\ scene' = scene
  BY <1>1, SameCall
<1>7. kept' = << >> /\ \A k : k \notin 1 .. Len(kept')
  BY <1>1, EmptyList DEF JInv, IInv, Phases
<1>8. \A i, j \in 1 .. Len(items') : Alike(items'[i], items'[j])
  BY <1>3, <1>5 DEF JInv, Apart, Alike
<1>9. AsSpelled(new.path)
  BY <1>3 DEF AsSpelled, Entry, HasName, Walk, Nowhere
<1>10. ASSUME Direct(scene), NEW i \in 1 .. Len(items') PROVE AsSpelled(items'[i].path)
  BY <1>5, <1>9, <1>10 DEF JInv, Spelled
<1>11. Apart'
  BY <1>1, <1>7, <1>8 DEF Apart, Alike
<1>12. Spelled'
  BY <1>6, <1>7, <1>10 DEF JInv, Spelled, AsSpelled
<1>13. Living'
  BY <1>1, <1>6 DEF JInv, Living, HomeSurvives, Homes
<1> QED
  BY <1>11, <1>12, <1>13

LEMMA NextApart == ASSUME JInv, [Next]_vars PROVE JInv'
<1>1. IInv'
  BY NextKeeps DEF JInv
<1>2. ASSUME Finish PROVE Apart' /\ Spelled' /\ Living'
  BY <1>2, QuietApart DEF Finish
<1>3. ASSUME UNCHANGED vars PROVE Apart' /\ Spelled' /\ Living'
  <2>1. UNCHANGED call /\ fs' = fs /\ items' = items /\ kept' = kept /\ pc' = pc
    BY <1>3 DEF vars
  <2>2. CASE pc # "resolve"
    BY <2>1, <2>2, QuietApart
  <2>3. CASE pc = "resolve"
    <3>1. before' = before /\ scene' = scene
      BY <2>1, SameCall
    <3> QED
      BY <2>1, <3>1 DEF JInv, Apart, Away, Alike, Spelled, AsSpelled, Living, HomeSurvives, Homes
  <2> QED
    BY <2>2, <2>3
<1> QED
  BY <1>1, <1>2, <1>3, CallApart, ResolveApart, SkipApart, DeleteApart, RetainApart,
     HandleExternalApart DEF Next, JInv

LEMMA ApartHolds == Spec => []JInv
<1>1. Init => JInv
  BY InitKeeps, InitApart DEF JInv
<1>2. JInv /\ [Next]_vars => JInv'
  BY NextApart
<1> QED
  BY <1>1, <1>2, PTL DEF Spec

-----------------------------------------------------------------------------
LEMMA OneInOther ==
    ASSUME NEW p \in Path, NEW q \in Path, NEW r \in Path, StartsWith(r, p), StartsWith(r, q)
    PROVE  StartsWith(p, q) \/ StartsWith(q, p)
<1>1. /\ Len(p) \in Nat /\ Len(q) \in Nat
      /\ AgreeTo(p, r, Len(p)) /\ AgreeTo(q, r, Len(q))
  BY Prefix DEF Path
<1>2. Len(p) <= Len(q) => AgreeTo(p, q, Len(p))
  BY <1>1 DEF AgreeTo
<1>3. Len(q) <= Len(p) => AgreeTo(q, p, Len(q))
  BY <1>1 DEF AgreeTo
<1> QED
  BY <1>1, <1>2, <1>3, Prefix

LEMMA InParent == ASSUME NEW p \in Path, p # << >> PROVE StartsWith(p, Parent(p))
<1>1. Len(p) \in Nat /\ Len(p) > 0
  BY DEF Path
<1>2. Parent(p) = SubSeq(p, 1, Len(p) - 1) /\ p \in Seq(Component)
  BY DEF Parent, Front, Path
<1> DEFINE q == SubSeq(p, 1, Len(p) - 1)
<1>3. q \in Seq(Component) /\ Len(q) = Len(p) - 1 /\ \A i \in 1 .. Len(p) - 1 : q[i] = p[i]
  <2> DEFINE m == Len(p) - 1
  <2>1. m \in Nat /\ m <= Len(p)
    BY <1>1
  <2> HIDE DEF m
  <2>2. LET s == SubSeq(p, 1, m) IN s \in Seq(Component) /\ Len(s) = m /\ \A i \in 1 .. m : s[i] = p[i]
    BY <1>1, <1>2, <2>1
  <2> QED
    BY <2>2 DEF m
<1> HIDE DEF q
<1>4. Parent(p) = q /\ q \in Path
  BY <1>2, <1>3 DEF q, Path
<1> QED
  BY <1>1, <1>3, <1>4, Prefix DEF AgreeTo

LEMMA LocationInside ==
    ASSUME HomeIs, NEW idx \in DOMAIN catalog, NEW k \in DOMAIN catalog[idx].subs
    PROVE  LET dir == home \o catalog[idx].subs[k] IN dir \in Path /\ StartsWith(dir, home)
<1> DEFINE sub == catalog[idx].subs[k]
<1>1. sub \in Path /\ home \in Path
  BY CatalogIs DEF HomeIs
<1> HIDE DEF sub
<1>2. /\ home \o sub \in Path /\ Len(home) <= Len(home \o sub) /\ Len(home) \in Nat
      /\ \A i \in 1 .. Len(home) : (home \o sub)[i] = home[i]
  BY <1>1 DEF Path
<1>3. StartsWith(home \o sub, home)
  BY <1>1, <1>2, Prefix DEF AgreeTo
<1> QED
  BY <1>2, <1>3 DEF sub

(* What the report refuses or holds back is there to the last file, where  *)
(* no location or scan root is an alias: phase 2 leaves no path inside     *)
(* another, so no removal reaches into what another candidate was refused  *)
(* for (dedupe_nested, push_item and remove_path).                         *)
THEOREM RefusedSurvive == Spec => [](Direct(scene) => RefusedIntact)
<1>1. JInv => (Direct(scene) => RefusedIntact)
  <2> SUFFICES ASSUME JInv, Direct(scene), NEW i \in DOMAIN items,
                      items[i].reason \in {"protected", "outside root", "in use", "needs a flag", "too new"},
                      NEW q \in Tree(before, Entry(before, items[i].path)), q \notin DOMAIN fs
               PROVE  FALSE
    BY DEF RefusedIntact
  <2>1. items \in Seq(ItemSet) /\ AllowlistOnly /\ WellFormed(before)
    BY DEF JInv, IInv, Reported, Basics
  <2>2. DOMAIN items = 1 .. Len(items)
    BY <2>1, Indexes
  <2>3. q \in DOMAIN before /\ Entry(before, items[i].path) # Nowhere
    BY DEF Tree
  <2>4. PICK j \in Removals : q \in Tree(before, Entry(before, items[j].path))
    BY <2>1, <2>3 DEF AllowlistOnly, Gone
  <2>5. j \in DOMAIN items /\ items[j].reason # items[i].reason
    BY <2>4 DEF Removals
  <2>6. /\ Entry(before, items[i].path) = items[i].path /\ items[i].path # Nowhere
        /\ Entry(before, items[j].path) = items[j].path /\ items[j].path # Nowhere
    BY <2>2, <2>3, <2>4, <2>5 DEF JInv, Spelled, AsSpelled, Tree
  <2>7. items[i].path \in Path /\ items[j].path \in Path /\ q \in Path
    <3>1. items[i] \in ItemSet /\ items[j] \in ItemSet
      BY <2>1, <2>2, <2>5, ElementType
    <3> QED
      BY <2>1, <2>3, <3>1, WellFormedParts DEF ItemSet
  <2>8. StartsWith(q, items[i].path) /\ StartsWith(q, items[j].path)
    BY <2>4, <2>6 DEF Tree
  <2>9. StartsWith(items[i].path, items[j].path) \/ StartsWith(items[j].path, items[i].path)
    BY <2>7, <2>8, OneInOther
  <2>10. items[i] = items[j]
    BY <2>2, <2>5, <2>6, <2>9 DEF JInv, Apart, Alike
  <2> QED
    BY <2>5, <2>10
<1> QED
  BY <1>1, ApartHolds, PTL

(* However many calls there are under one home, it and the directories it  *)
(* is in stay, where no location or scan root is an alias (is_protected,   *)
(* which compares paths as they are spelled).                              *)
THEOREM KeepsHome == Spec => [](Direct(scene) /\ OneHome(scene) => HomeSurvives)
<1>1. JInv => (Direct(scene) /\ OneHome(scene) => HomeSurvives)
  BY DEF JInv, Living
<1> QED
  BY <1>1, ApartHolds, PTL

(* Nothing outside home and the scan roots is deleted, where no location   *)
(* is an alias; below a scan root there may be any links (run, size_into   *)
(* and find_named_dirs, which follow none).                                *)
THEOREM StaysHome == Spec => [](Direct(scene) => StaysInside)
<1>1. JInv => (Direct(scene) => StaysInside)
  <2> SUFFICES ASSUME JInv, Direct(scene), NEW q \in Gone
               PROVE  \/ StartsWith(q, home)
                      \/ \E k \in DOMAIN cfg.scan_roots : StartsWith(q, Walk(before, cfg.scan_roots[k]))
    BY DEF StaysInside
  <2>1. AllowlistOnly /\ WellFormed(before) /\ cfg \in Config
    BY DEF JInv, IInv, Basics
  <2>2. Asked /\ HomeIs /\ NoAlias(before, home, cfg)
    BY CallDirect DEF JInv, IInv, Phases, Asked
  <2>3. PICK j \in Removals : /\ q \in Tree(before, Entry(before, items[j].path))
                              /\ Listed(Entry(before, items[j].path))
    BY <2>1 DEF AllowlistOnly
  <2> DEFINE e == Entry(before, items[j].path)
  <2>4. q \in DOMAIN before /\ e # Nowhere /\ StartsWith(q, e)
    BY <2>3 DEF Tree
  <2>5. PICK idx \in DOMAIN catalog : Grounds(before, cfg, catalog[idx], e)
    BY <2>3, ListedIs
  <2>6. e \in Path /\ q \in Path /\ e \in DOMAIN before
    <3>1. items[j].path \in Path
      <4>1. items \in Seq(ItemSet) /\ j \in DOMAIN items
        BY DEF JInv, IInv, Reported, Removals
      <4>2. items[j] \in ItemSet
        BY <4>1
      <4> QED
        BY <4>2 DEF ItemSet
    <3>2. e \in DOMAIN before
      BY <2>1, <2>4, <3>1, EntryPlace DEF Places
    <3> QED
      BY <2>1, <2>4, <3>2, WellFormedParts
  <2> HIDE DEF e
  <2>7. CASE catalog[idx].kind = "HomeDirs"
    <3>1. PICK k \in DOMAIN catalog[idx].subs : e = Entry(before, home \o catalog[idx].subs[k])
      BY <2>5, <2>7 DEF Grounds
    <3>2. /\ home \o catalog[idx].subs[k] \in Path /\ StartsWith(home \o catalog[idx].subs[k], home)
          /\ Entry(before, home \o catalog[idx].subs[k]) \in {home \o catalog[idx].subs[k], Nowhere}
      BY <2>2, <2>7, StraightLocation, LocationInside
    <3>3. StartsWith(e, home)
      BY <2>4, <3>1, <3>2
    <3> QED
      BY <2>2, <2>4, <2>6, <3>3, InsideTwice DEF HomeIs
  <2>8. CASE catalog[idx].kind = "VersionedDirs"
    <3>1. PICK k \in DOMAIN catalog[idx].subs, r \in DOMAIN before :
              /\ Parent(e) = Walk(before, home \o catalog[idx].subs[k])
              /\ Parent(r) = Parent(e) /\ r # e
      BY <2>5, <2>8 DEF Grounds
    <3> DEFINE dir == home \o catalog[idx].subs[k]
    <3>2. dir \in Path /\ StartsWith(dir, home) /\ Walk(before, dir) \in {dir, Nowhere}
      <4>1. dir = home_path(home, catalog[idx].subs[k])
        BY DEF home_path
      <4>2. Walk(before, dir) \in {dir, Nowhere}
        BY <2>2, <2>8, <4>1 DEF NoAlias, Straight
      <4> QED
        BY <2>2, <4>2, LocationInside
    <3> HIDE DEF dir
    <3>3. Parent(e) # Nowhere /\ e # <<"/">>
      <4>1. e # <<"/">> => Parent(e) # Nowhere
        BY <2>1, <2>6, WellFormedParts
      <4>2. r # <<"/">> => Parent(r) # Nowhere
        BY <2>1, WellFormedParts
      <4>3. Parent(<<"/">>) = Nowhere
        BY DEF Parent, Front, Nowhere
      <4> QED
        BY <3>1, <4>1, <4>2, <4>3
    <3>4. Parent(e) = dir
      BY <3>1, <3>2, <3>3 DEF dir
    <3>5. StartsWith(e, dir)
      BY <2>4, <2>6, <3>2, <3>4, InParent DEF Nowhere
    <3> QED
      BY <2>2, <2>4, <2>6, <3>2, <3>5, InsideTwice DEF HomeIs
  <2>9. CASE catalog[idx].kind = "NamedDirUnder"
    <3>1. PICK k \in DOMAIN cfg.scan_roots : IsStrictPrefix(Walk(before, cfg.scan_roots[k]), e)
      BY <2>5, <2>9 DEF Grounds
    <3> DEFINE top == Walk(before, cfg.scan_roots[k])
    <3>2. top \in Path
      <4>1. cfg.scan_roots \in Seq(Path)
        BY <2>1 DEF Config
      <4>2. cfg.scan_roots[k] \in Path
        BY <4>1
      <4>3. top \in Places(before)
        BY <2>1, <4>2, HereStays, WalkStays DEF Walk, Places
      <4> QED
        BY <2>1, <4>3, WellFormedParts, EmptyList DEF Places, Nowhere, Path
    <3>3. StartsWith(e, top)
      BY <3>1 DEF IsStrictPrefix, StartsWith
    <3> HIDE DEF top
    <3>4. StartsWith(q, top)
      BY <2>4, <2>6, <3>2, <3>3, InsideTwice
    <3> QED
      BY <3>4 DEF top
  <2>10. catalog[idx].kind \in {"HomeDirs", "VersionedDirs", "NamedDirUnder"}
    BY <2>5 DEF Grounds
  <2> QED
    BY <2>7, <2>8, <2>9, <2>10
<1> QED
  BY <1>1, ApartHolds, PTL

-----------------------------------------------------------------------------
(* What the report credits.  What exists is an entry, where lstat looks.   *)
LEMMA ExistsEntry ==
    ASSUME NEW disk, WellFormed(disk), NEW p \in Path, exists(disk, p)
    PROVE  Entry(disk, p) # Nowhere /\ Entry(disk, p) \in DOMAIN disk
<1>1. Entry(disk, p) \in Places(disk)
  BY EntryPlace
<1>2. CASE ~HasName(p)
  BY <1>1, <1>2 DEF Entry, exists, Places
<1>3. CASE HasName(p)
  <2> DEFINE c == Last(p)
             h == Parent(p)
             d == WalkFrom(disk, Here(disk), h)
             q == Append(d, c)
  <2>1. h \in Path /\ Append(h, c) = p /\ c \notin Special /\ p # << >>
    BY <1>3, ParentPath DEF HasName
  <2>2. c \in Component
    BY <1>3 DEF HasName, Last, Path
  <2> HIDE DEF c, h
  <2>3. Walk(disk, Append(h, c)) = Step(disk, d, c)
    <3>1. Here(disk) \in Places(disk) /\ h \in Path
      BY <2>1, HereStays
    <3> HIDE DEF d
    <3>2. WalkFrom(disk, Here(disk), Append(h, c)) = Step(disk, WalkFrom(disk, Here(disk), h), c)
      BY <3>1, WalkAppend
    <3>3. Append(h, c) # << >>
      BY <2>1
    <3> QED
      BY <3>2, <3>3 DEF Walk, d
  <2>4. Step(disk, d, c) # Nowhere
    BY <2>1, <2>3 DEF exists
  <2> HIDE DEF d
  <2>5. d # Nowhere /\ q \in DOMAIN disk /\ disk[d].mode # "none"
    BY <2>1, <2>4 DEF Step, Lookup, Special
  <2>6. Entry(disk, p) = q
    BY <1>3, <2>5 DEF Entry, c, h, d
  <2>7. q # Nowhere
    <3>1. q \in Path /\ (q = <<"/">> \/ Len(q) > 1)
      BY <2>5, WellFormedParts
    <3>2. Len(<<"/">>) > 0
      OBVIOUS
    <3>3. Len(q) > 0
      BY <3>1, <3>2
    <3> HIDE DEF q
    <3> QED
      BY <3>3, NotEmpty DEF Nowhere
  <2> QED
    BY <2>5, <2>6, <2>7
<1> QED
  BY <1>2, <1>3

Counted(disk, q) == {r \in Readable(disk, q) : \/ disk[r].type = "file"
                                               \/ r = q /\ disk[r].type = "link"}

LEMMA SizeSum ==
    ASSUME NEW disk, NEW p
    PROVE  size_path(disk, p).bytes = Bytes(disk, Entry(disk, p), Counted(disk, Entry(disk, p)))
<1> DEFINE q == Entry(disk, p)
           n == Max({0} \cup {disk[r].mtime : r \in Counted(disk, q)})
<1>1. size_path(disk, p) = [bytes |-> Bytes(disk, q, Counted(disk, q)), newest |-> n]
  BY DEF size_path, Bytes, Counted
<1> HIDE DEF n
<1> QED
  BY <1>1

(* The bytes that went, when G is gone and S was a candidate itself.       *)
Tally(disk, G, S) ==
    Freed(disk, {q \in S : disk[q].type # "dir"}) + Length(disk, {q \in G \ S : disk[q].type = "file"})

LEMMA TallyGrows ==
    ASSUME NEW disk, WellFormed(disk), NEW G \in SUBSET DOMAIN disk, NEW g \in SUBSET DOMAIN disk,
           G \cap g = {}, NEW S \in SUBSET G, NEW e \in g
    PROVE  Tally(disk, G \cup g, S \cup {e}) = Tally(disk, G, S) +
               Bytes(disk, e, {r \in g : disk[r].type = "file" \/ (r = e /\ disk[r].type = "link")})
<1> DEFINE D == DOMAIN disk
           a == [r \in D |-> disk[r].alloc]
           l == [r \in D |-> disk[r].len]
           A == {q \in S : disk[q].type # "dir"}
           L == {q \in G \ S : disk[q].type = "file"}
           B == {q \in {e} : disk[q].type # "dir"}
           M == {q \in g \ {e} : disk[q].type = "file"}
           C == {r \in g : disk[r].type = "file" \/ (r = e /\ disk[r].type = "link")}
           w == [r \in D |-> IF r = e THEN disk[r].alloc ELSE disk[r].len]
<1>1. IsFiniteSet(D) /\ \A r \in D : disk[r].alloc \in Nat /\ disk[r].len \in Nat
  BY WellFormedParts, NodeParts
<1>2. a \in [D -> Nat] /\ l \in [D -> Nat] /\ w \in [D -> Nat]
  BY <1>1
<1>3. \A s \in SUBSET D : Freed(disk, s) = SumOver(a, s) /\ Length(disk, s) = SumOver(l, s)
  <2>1. ASSUME NEW s \in SUBSET D
        PROVE  [q \in s |-> disk[q].alloc] = [x \in s |-> a[x]]
               /\ [q \in s |-> disk[q].len] = [x \in s |-> l[x]]
    OBVIOUS
  <2> HIDE DEF a, l
  <2> QED
    BY <2>1 DEF Freed, Length, SumOver
<1>4. \A s \in SUBSET D : Bytes(disk, e, s) = SumOver(w, s)
  <2>1. ASSUME NEW s \in SUBSET D
        PROVE  [r \in s |-> IF r = e THEN disk[r].alloc ELSE disk[r].len] = [x \in s |-> w[x]]
    OBVIOUS
  <2> HIDE DEF w
  <2> QED
    BY <2>1 DEF Bytes, SumOver
<1>5. \A s \in SUBSET D : e \notin s => SumOver(w, s) = SumOver(l, s)
  <2>1. ASSUME NEW s \in SUBSET D, e \notin s PROVE [x \in s |-> w[x]] = [x \in s |-> l[x]]
    BY <2>1
  <2> HIDE DEF w, l
  <2> QED
    BY <2>1 DEF SumOver
<1>6. \A s \in SUBSET {e} : SumOver(w, s) = SumOver(a, s)
  <2>1. ASSUME NEW s \in SUBSET {e} PROVE [x \in s |-> w[x]] = [x \in s |-> a[x]]
    OBVIOUS
  <2> HIDE DEF w, a
  <2> QED
    BY <2>1 DEF SumOver
<1>7. /\ {q \in S \cup {e} : disk[q].type # "dir"} = A \cup B
      /\ {q \in (G \cup g) \ (S \cup {e}) : disk[q].type = "file"} = L \cup M
      /\ A \cap B = {} /\ L \cap M = {} /\ B \cap M = {}
      /\ A \in SUBSET D /\ B \in SUBSET D /\ L \in SUBSET D /\ M \in SUBSET D
      /\ B \in SUBSET {e} /\ e \notin M
  OBVIOUS
<1>8. C = B \cup M
  <2>1. disk[e].type \in {"dir", "file", "link"}
    BY NodeParts
  <2> QED
    BY <2>1
<1> HIDE DEF D, a, l, w, A, B, C, L, M
<1>9. Tally(disk, G \cup g, S \cup {e}) = SumOver(a, A \cup B) + SumOver(l, L \cup M)
  <2>1. A \cup B \in SUBSET D /\ L \cup M \in SUBSET D
    BY <1>7
  <2> QED
    BY <1>3, <1>7, <2>1 DEF Tally
<1>10. Tally(disk, G, S) = SumOver(a, A) + SumOver(l, L)
  BY <1>3, <1>7 DEF Tally, A, L
<1>11. SumOver(a, A \cup B) = SumOver(a, A) + SumOver(a, B)
  BY <1>1, <1>2, <1>7, OverJoin
<1>12. SumOver(l, L \cup M) = SumOver(l, L) + SumOver(l, M)
  BY <1>1, <1>2, <1>7, OverJoin
<1>13. SumOver(w, B \cup M) = SumOver(w, B) + SumOver(w, M)
  BY <1>1, <1>2, <1>7, OverJoin
<1>14. Bytes(disk, e, C) = SumOver(a, B) + SumOver(l, M)
  <2>1. C \in SUBSET D
    BY <1>7, <1>8
  <2> QED
    BY <1>4, <1>5, <1>6, <1>7, <1>8, <1>13, <2>1
<1>15. /\ SumOver(a, A) \in Nat /\ SumOver(a, B) \in Nat
       /\ SumOver(l, L) \in Nat /\ SumOver(l, M) \in Nat
  BY <1>1, <1>2, <1>7, OverNat
<1>16. Tally(disk, G \cup g, S \cup {e}) = Tally(disk, G, S) + Bytes(disk, e, C)
  BY <1>9, <1>10, <1>11, <1>12, <1>14, <1>15
<1> QED
  BY <1>16 DEF C

(* The total of the items with one reason, item by item.                   *)
LEMMA TotalAppend ==
    ASSUME NEW list \in Seq(ItemSet), NEW it \in ItemSet, NEW reason
    PROVE  /\ Total(list, Because(list, reason)) \in Nat
           /\ Total(Append(list, it), Because(Append(list, it), reason)) =
                  Total(list, Because(list, reason)) + (IF it.reason = reason THEN it.bytes ELSE 0)
<1> DEFINE n == Len(list)
           m == n + 1
           t == Append(list, it)
           s == Because(list, reason)
           v == [i \in s |-> list[i].bytes]
<1>1. n \in Nat /\ DOMAIN list = 1 .. n /\ \A i \in 1 .. n : list[i] \in ItemSet
  OBVIOUS
<1>2. /\ DOMAIN t = (1 .. n) \cup {m} /\ t[m] = it /\ m \notin 1 .. n
      /\ \A i \in 1 .. n : t[i] = list[i]
  OBVIOUS
<1> HIDE DEF n, m, t
<1>3. s \in SUBSET (1 .. n) /\ IsFiniteSet(s)
  <2>1. IsFiniteSet(1 .. n)
    BY <1>1, FS_Interval
  <2>2. s \in SUBSET (1 .. n)
    BY <1>1 DEF Because
  <2> QED
    BY <2>1, <2>2, FS_Subset
<1>4. \A i \in 1 .. n : list[i].bytes \in Nat
  BY <1>1 DEF ItemSet
<1>5. v \in [s -> Nat] /\ m \notin s
  BY <1>2, <1>3, <1>4
<1>6. Because(t, reason) = IF it.reason = reason THEN s \cup {m} ELSE s
  BY <1>1, <1>2 DEF Because
<1>7. it.bytes \in Nat
  BY DEF ItemSet
<1> HIDE DEF s
<1>8. SumFunction(v) \in Nat /\ Total(list, s) = SumFunction(v)
  BY <1>3, <1>5, SumNat DEF Total
<1>9. CASE it.reason # reason
  <2>1. [i \in s |-> t[i].bytes] = v
    BY <1>2, <1>3
  <2> HIDE DEF v
  <2>2. Total(t, s) = SumFunction(v)
    BY <2>1 DEF Total
  <2> QED
    BY <1>6, <1>8, <1>9, <2>2 DEF t, s
<1>10. CASE it.reason = reason
  <2> DEFINE u == [i \in s \cup {m} |-> t[i].bytes]
  <2>1. u \in [s \cup {m} -> Nat] /\ u[m] = it.bytes /\ \A i \in s : v[i] = u[i]
    BY <1>2, <1>3, <1>4, <1>7
  <2>2. Total(t, s \cup {m}) = SumFunction(u)
    BY DEF Total
  <2> HIDE DEF u, v
  <2>3. SumFunction(u) = u[m] + SumFunction(v)
    <3>1. IsFiniteSet(s) /\ m \notin s
      BY <1>3, <1>5
    <3>2. u \in [s \cup {m} -> Nat] /\ v \in [s -> Nat] /\ \A i \in s : v[i] = u[i]
      BY <1>5, <2>1
    <3> QED
      BY <3>1, <3>2, SumAdd, SMTT(30)
  <2> QED
    BY <1>6, <1>7, <1>8, <1>10, <2>1, <2>2, <2>3 DEF t, s
<1> QED
  BY <1>8, <1>9, <1>10 DEF s

LEMMA RetainedTotal ==
    ASSUME items \in Seq(ItemSet), NEW stays, NEW reason,
           \A i \in 1 .. Len(items) : items[i].reason = reason => i \in stays
    PROVE  Total(Retained(stays), Because(Retained(stays), reason)) = Total(items, Because(items, reason))
<1> DEFINE n == Len(items)
           f == [i \in 1 .. n |-> items[i].bytes]
           s(m) == {i \in 1 .. m : items[i].reason = reason}
<1>1. n \in Nat /\ DOMAIN items = 1 .. n /\ \A i \in 1 .. n : items[i] \in ItemSet
  OBVIOUS
<1>2. IsFiniteSet(1 .. n) /\ f \in [1 .. n -> Nat]
  <2>1. \A i \in 1 .. n : items[i].bytes \in Nat
    BY <1>1 DEF ItemSet
  <2>2. f \in [1 .. n -> Nat]
    BY <2>1
  <2>3. IsFiniteSet(1 .. n)
    <3>1. 1 \in Int /\ n \in Int
      BY <1>1
    <3> HIDE DEF n
    <3> QED
      BY <3>1, FS_Interval
  <2> QED
    BY <2>2, <2>3
<1>3. PICK of : Built(stays, of)
  BY RetainedBuilt
<1> DEFINE A == {m \in Nat : m <= n => /\ of[m] \in Seq(ItemSet)
                                       /\ Total(of[m], Because(of[m], reason)) = SumOver(f, s(m))}
<1>4. Total(items, Because(items, reason)) = SumOver(f, s(n))
  <2>1. Because(items, reason) = s(n)
    BY <1>1 DEF Because
  <2>2. [i \in s(n) |-> items[i].bytes] = [i \in s(n) |-> f[i]]
    BY <1>1
  <2> HIDE DEF f, s
  <2> QED
    BY <2>1, <2>2 DEF Total, SumOver
<1>5. /\ s(0) = {}
      /\ \A m \in Nat : m < n => /\ s(m) \in SUBSET (1 .. n) /\ m + 1 \in (1 .. n) \ s(m)
                                 /\ s(m + 1) = IF items[m + 1].reason = reason THEN s(m) \cup {m + 1} ELSE s(m)
                                 /\ f[m + 1] = items[m + 1].bytes
  <2>1. ASSUME NEW m \in Nat, m < n PROVE \A i : i \in 1 .. m + 1 <=> i \in 1 .. m \/ i = m + 1
    OBVIOUS
  <2>2. ASSUME NEW m \in Nat, m < n PROVE m + 1 \in 1 .. n /\ m + 1 \notin 1 .. m /\ 1 .. m \subseteq 1 .. n
    BY <1>1, <2>2
  <2>3. \A i : i \notin 1 .. 0
    OBVIOUS
  <2> QED
    BY <2>1, <2>2, <2>3
<1> HIDE DEF f, s
<1>6. 0 \in A
  <2>1. Because(<< >>, reason) = {} /\ << >> \in Seq(ItemSet)
    BY DEF Because
  <2>2. Total(<< >>, {}) = 0
    <3> DEFINE v == [i \in {} |-> << >>[i].bytes]
    <3>1. v \in [{} -> Nat]
      OBVIOUS
    <3>2. Total(<< >>, {}) = SumFunction(v)
      BY DEF Total
    <3> HIDE DEF v
    <3> QED
      BY <3>1, <3>2, SumNone
  <2> QED
    BY <1>3, <1>5, <2>1, <2>2, OverNone DEF Built
<1>7. ASSUME NEW m \in Nat, m \in A PROVE m + 1 \in A
  <2> SUFFICES ASSUME m + 1 <= n
               PROVE  /\ of[m + 1] \in Seq(ItemSet)
                      /\ Total(of[m + 1], Because(of[m + 1], reason)) = SumOver(f, s(m + 1))
    OBVIOUS
  <2> DEFINE h == m + 1
             p == of[m]
             it == items[h]
  <2>1. m < n /\ m <= n /\ m \in 0 .. n - 1 /\ h \in 1 .. n
    BY <1>1
  <2>2. p \in Seq(ItemSet) /\ Total(p, Because(p, reason)) = SumOver(f, s(m))
    BY <1>7, <2>1
  <2>3. of[h] = IF h \in stays THEN Append(p, it) ELSE p
    BY <1>3, <2>1 DEF Built, n
  <2>4. /\ s(m) \in SUBSET (1 .. n) /\ h \in (1 .. n) \ s(m) /\ f[h] = it.bytes
        /\ s(h) = IF it.reason = reason THEN s(m) \cup {h} ELSE s(m)
    BY <1>5, <2>1
  <2>5. it \in ItemSet /\ (it.reason = reason => h \in stays)
    BY <1>1, <2>1 DEF n
  <2> HIDE DEF h, p, it, A
  <2>6. SumOver(f, s(m) \cup {h}) = f[h] + SumOver(f, s(m)) /\ SumOver(f, s(m)) \in Nat
    <3> DEFINE r == s(m)
               D == 1 .. n
    <3>1. IsFiniteSet(D) /\ f \in [D -> Nat] /\ r \in SUBSET D /\ h \in D \ r
      BY <1>2, <2>4
    <3> HIDE DEF r, D
    <3>2. SumOver(f, r \cup {h}) = f[h] + SumOver(f, r)
      BY <3>1, OverAdd
    <3>3. SumOver(f, r) \in Nat
      BY <3>1, OverNat
    <3> QED
      BY <3>2, <3>3 DEF r
  <2>7. Append(p, it) \in Seq(ItemSet)
    BY <2>2, <2>5
  <2>8. Total(Append(p, it), Because(Append(p, it), reason)) =
            SumOver(f, s(m)) + (IF it.reason = reason THEN it.bytes ELSE 0)
    BY <2>2, <2>5, TotalAppend
  <2>9. it.bytes \in Nat
    BY <2>5 DEF ItemSet
  <2>10. of[h] \in Seq(ItemSet) /\ Total(of[h], Because(of[h], reason)) = SumOver(f, s(h))
    BY <2>2, <2>3, <2>4, <2>5, <2>6, <2>7, <2>8, <2>9
  <2> QED
    BY <2>10 DEF h
<1>8. n \in A
  <2> HIDE DEF A
  <2> QED
    BY <1>1, <1>6, <1>7, NatInduct
<1>9. Total(of[n], Because(of[n], reason)) = SumOver(f, s(n))
  BY <1>1, <1>8
<1> QED
  BY <1>3, <1>4, <1>9 DEF Built, n

(* What is credited went; a later candidate finds nothing of it.           *)
Singles == {q \in Gone : \E i \in Removals : q = Entry(before, items[i].path)}

Credited == \A i \in 1 .. Len(items) :
                items[i].reason = "deleted" => Entry(before, items[i].path) \in Gone

Honest == ~Failed(items) => Total(items, Because(items, "deleted")) = Tally(before, Gone, Singles)

LEMMA HonestIs == TotalsHonest <=> Honest
<1> DEFINE single == {q \in Gone : \E i \in Removals : q = Entry(before, items[i].path)}
<1>1. single = Singles
  BY DEF Singles
<1>2. TotalsHonest <=>
          (~Failed(items) => Total(items, Because(items, "deleted"))
                              = Freed(before, {q \in single : before[q].type # "dir"})
                                + Length(before, {q \in Gone \ single : before[q].type = "file"}))
  BY DEF TotalsHonest
<1> HIDE DEF single
<1> QED
  BY <1>1, <1>2 DEF Honest, Tally

KInv == IInv /\ Credited /\ Honest

LEMMA QuietHonest ==
    ASSUME Credited, Honest, UNCHANGED call, fs' = fs, items' = items
    PROVE  Credited' /\ Honest'
<1>1. before' = before
  BY SameCall
<1>2. Gone' = Gone /\ Removals' = Removals
  BY <1>1 DEF Gone, Removals
<1>3. Singles' = Singles
  BY <1>1, <1>2 DEF Singles
<1> QED
  BY <1>1, <1>2, <1>3 DEF Credited, Honest

LEMMA NoneHonest == ASSUME items = << >>, Gone = {} PROVE Credited /\ Honest
<1>1. Credited
  BY EmptyList DEF Credited
<1>2. Because(items, "deleted") = {}
  BY DEF Because
<1>3. Total(items, {}) = 0
  <2> DEFINE v == [i \in {} |-> items[i].bytes]
  <2>1. v \in [{} -> Nat]
    OBVIOUS
  <2>2. Total(items, {}) = SumFunction(v)
    BY DEF Total
  <2> HIDE DEF v
  <2> QED
    BY <2>1, <2>2, SumNone
<1>4. Tally(before, Gone, Singles) = 0
  <2> DEFINE a == [q \in {} |-> before[q].alloc]
             l == [q \in {} |-> before[q].len]
  <2>1. a \in [{} -> Nat] /\ l \in [{} -> Nat]
    OBVIOUS
  <2>2. Singles = {}
    BY DEF Singles
  <2>3. Tally(before, {}, {}) = SumFunction(a) + SumFunction(l)
    <3>1. {q \in {} : before[q].type # "dir"} = {} /\ {q \in {} \ {} : before[q].type = "file"} = {}
      OBVIOUS
    <3> QED
      BY <3>1 DEF Tally, Freed, Length
  <2> HIDE DEF a, l
  <2>4. SumFunction(a) = 0 /\ SumFunction(l) = 0
    BY <2>1, SumNone
  <2> QED
    BY <2>2, <2>3, <2>4
<1> QED
  BY <1>1, <1>2, <1>3, <1>4 DEF Honest

LEMMA PlusZero == ASSUME NEW n \in Nat PROVE n + 0 = n
  OBVIOUS

(* Another item.                                                           *)
Added(it) == items \in Seq(ItemSet) /\ it \in ItemSet /\ items' = Append(items, it)

LEMMA AddedIs ==
    ASSUME NEW it, Added(it)
    PROVE  /\ Len(items) \in Nat /\ DOMAIN items = 1 .. Len(items)
           /\ DOMAIN items' = 1 .. Len(items) + 1 /\ items'[Len(items) + 1] = it
           /\ \A i \in 1 .. Len(items) : i \in 1 .. Len(items) + 1 /\ items'[i] = items[i]
           /\ \A i \in 1 .. Len(items) + 1 : i \in 1 .. Len(items) \/ i = Len(items) + 1
           /\ Len(items') = Len(items) + 1
<1>1. items \in Seq(ItemSet) /\ it \in ItemSet /\ items' = Append(items, it)
  BY DEF Added
<1>2. Len(items) \in Nat /\ DOMAIN items = 1 .. Len(items)
  BY <1>1, Indexes
<1> QED
  BY <1>1, <1>2, OneItemMore

LEMMA AddedTotal ==
    ASSUME NEW it, Added(it), NEW reason
    PROVE  /\ Total(items, Because(items, reason)) \in Nat
           /\ Total(items', Because(items', reason)) =
                  Total(items, Because(items, reason)) + (IF it.reason = reason THEN it.bytes ELSE 0)
<1>1. items \in Seq(ItemSet) /\ it \in ItemSet /\ items' = Append(items, it)
  BY DEF Added
<1> QED
  BY <1>1, TotalAppend

(* An item that is not of a removal changes nothing.                       *)
LEMMA AddedHonest ==
    ASSUME Credited, Honest, UNCHANGED call, fs' = fs, NEW it, Added(it),
           it.reason \notin {"deleted", "delete failed"}
    PROVE  Credited' /\ Honest'
<1>1. before' = before
  BY SameCall
<1>2. Gone' = Gone
  BY <1>1 DEF Gone
<1>3. DOMAIN items = 1 .. Len(items) /\ Len(items) \in Nat
  BY AddedIs
<1>4. /\ DOMAIN items' = 1 .. Len(items) + 1 /\ items'[Len(items) + 1] = it
      /\ \A i \in 1 .. Len(items) : i \in 1 .. Len(items) + 1 /\ items'[i] = items[i]
      /\ \A i \in 1 .. Len(items) + 1 : i \in 1 .. Len(items) \/ i = Len(items) + 1
      /\ Len(items') = Len(items) + 1
  BY AddedIs
<1>5. Removals' = Removals
  BY <1>3, <1>4 DEF Removals
<1>6. Failed(items') <=> Failed(items)
  BY <1>3, <1>4 DEF Failed
<1>7. \A i \in Removals : items'[i] = items[i]
  BY <1>3, <1>4 DEF Removals
<1>8. Singles' = Singles
  BY <1>1, <1>2, <1>5, <1>7 DEF Singles
<1>9. Total(items', Because(items', "deleted")) = Total(items, Because(items, "deleted"))
  <2> DEFINE n == Total(items, Because(items, "deleted"))
             m == Total(items', Because(items', "deleted"))
  <2>1. it.reason # "deleted"
    OBVIOUS
  <2>2. n \in Nat /\ m = n + (IF it.reason = "deleted" THEN it.bytes ELSE 0)
    BY AddedTotal
  <2> HIDE DEF n, m
  <2>3. n \in Nat /\ m = n + 0
    BY <2>1, <2>2, Zenon
  <2>4. m = n
    BY <2>3, PlusZero, Zenon
  <2> QED
    BY <2>4 DEF n, m
<1>10. Honest'
  BY <1>1, <1>2, <1>6, <1>8, <1>9 DEF Honest
<1>11. Credited'
  BY <1>1, <1>2, <1>4 DEF Credited
<1> QED
  BY <1>10, <1>11

LEMMA OkExists == ASSUME NEW c, Reason(c) = "ok" PROVE exists(fs, c.path)
  BY DEF Reason, ReasonAt, verdict, evaluate

(* What a removal that is tried comes to.                                  *)
Outcome(c, gone, reason) ==
    /\ fs' = Without(fs, gone, Now) /\ Judged(Item(c, reason)) /\ gone \subseteq Tree(fs, Entry(fs, c.path))
    /\ \/ reason = "deleted" /\ gone = Tree(fs, Entry(fs, c.path)) /\ HeldIn(gone) = {}
       \/ reason = "delete failed"

LEMMA DeleteOutcome ==
    ASSUME Delete
    PROVE  \E gone, reason : Outcome(Head(kept), gone, reason)
<1> DEFINE tree == Tree(fs, Entry(fs, Head(kept).path))
<1>1. remove_path(Head(kept).path) = tree
  BY DEF remove_path, RemovalTree
<1>2. \A gone \in Partial(tree) : gone \subseteq tree
  BY DEF Partial
<1> QED
  BY <1>1, <1>2 DEF Delete, Outcome

LEMMA DeleteHonest == ASSUME IInv, Credited, Honest, Delete PROVE Credited' /\ Honest'
<1> DEFINE c == Head(kept)
           e == Entry(fs, c.path)
<1>1. pc = "judge" /\ kept # << >> /\ Reason(c) = "ok"
  BY DEF Delete
<1>2. PICK gone, reason : Outcome(c, gone, reason)
  BY DeleteOutcome
<1>3. /\ c \in Candidate /\ c.path \in Path /\ WellFormed(fs) /\ WellFormed(before)
      /\ Remains(fs, before) /\ items \in Seq(ItemSet) /\ Resolved(before, cfg, c)
  BY <1>1, HeadIs DEF IInv, Basics, Reported
<1> DEFINE it == Item(c, reason)
<1>4. reason \in {"deleted", "delete failed"} /\ it.reason = reason /\ it.path = c.path
      /\ it \in ItemSet /\ it.bytes = Sized(fs, c)
  <2>1. reason \in {"deleted", "delete failed"}
    BY <1>2 DEF Outcome
  <2>2. reason \in Reasons
    BY <2>1 DEF Reasons
  <2> QED
    BY <1>3, <2>1, <2>2, ItemType DEF Item
<1>5. Added(it) /\ UNCHANGED call
  BY <1>2, <1>3, <1>4 DEF Outcome, Judged, Added
<1>6. exists(fs, c.path)
  BY <1>1, OkExists
<1>7. e # Nowhere /\ e \in DOMAIN fs /\ e # <<"/">> /\ Entry(before, c.path) = e
  <2>1. e # Nowhere /\ e \in DOMAIN fs
    BY <1>3, <1>6, ExistsEntry
  <2> QED
    BY <1>3, <2>1, EntryPlace, EntryRemains DEF Resolved
<1>8. e \in Tree(fs, e)
  <2>1. e \in Path
    BY <1>3, <1>7, WellFormedParts
  <2>2. StartsWith(e, e)
    BY <2>1, Prefix DEF AgreeTo, Path
  <2> QED
    BY <1>7, <2>2 DEF Tree
<1> HIDE DEF it
<1> HIDE DEF e, c
<1>9. before' = before
  BY <1>5, SameCall
<1>10. /\ gone \subseteq DOMAIN fs /\ gone \subseteq Tree(fs, e) /\ Gone' = Gone \cup gone
       /\ Gone \cap gone = {} /\ gone \subseteq DOMAIN before
  <2>1. gone \subseteq Tree(fs, e) /\ DOMAIN fs' = DOMAIN fs \ gone
    BY <1>2 DEF Outcome, Without, e
  <2>2. Tree(fs, e) \subseteq DOMAIN fs /\ DOMAIN fs \subseteq DOMAIN before
    BY <1>3 DEF Tree, Remains
  <2> QED
    BY <1>9, <2>1, <2>2 DEF Gone
<1> DEFINE n == Len(items)
<1>11. /\ n \in Nat /\ DOMAIN items = 1 .. n /\ DOMAIN items' = 1 .. n + 1 /\ items'[n + 1] = it
       /\ \A i \in 1 .. n : i \in 1 .. n + 1 /\ items'[i] = items[i]
       /\ \A i \in 1 .. n + 1 : i \in 1 .. n \/ i = n + 1
       /\ n + 1 \in 1 .. n + 1 /\ Len(items') = n + 1
  <2>1. n \in Nat
    BY <1>5, AddedIs
  <2>2. n + 1 \in 1 .. n + 1
    BY <2>1
  <2> QED
    BY <1>5, <2>2, AddedIs
<1>12. CASE reason = "delete failed" \/ Failed(items)
  <2>1. Failed(items')
    BY <1>4, <1>11, <1>12 DEF Failed
  <2>2. Honest'
    BY <2>1 DEF Honest
  <2>3. ASSUME reason = "deleted", gone = Tree(fs, e) PROVE Entry(before, it.path) \in Gone'
    BY <1>4, <1>7, <1>8, <1>10, <2>3
  <2>4. reason = "deleted" => gone = Tree(fs, e)
    BY <1>2 DEF Outcome, e
  <2>5. Credited'
    BY <1>4, <1>9, <1>10, <1>11, <2>3, <2>4 DEF Credited
  <2> QED
    BY <2>2, <2>5
<1>13. CASE reason = "deleted" /\ ~Failed(items)
  <2>1. gone = Tree(fs, e) /\ HeldIn(gone) = {}
    BY <1>2, <1>13 DEF Outcome, e
  <2>2. Entry(before, it.path) = e /\ e \in gone
    BY <1>4, <1>7, <1>8, <2>1 DEF c
  <2>3. Credited'
    BY <1>9, <1>10, <1>11, <2>2 DEF Credited
  <2>4. ~Failed(items')
    BY <1>4, <1>11, <1>13 DEF Failed
  <2>5. \A i \in Removals : i \in 1 .. n /\ Entry(before, items[i].path) \in Gone
    BY <1>11, <1>13 DEF Removals, Failed, Credited
  <2>6. Singles' = Singles \cup {e}
    <3>1. \A i \in Removals' : i \in Removals \/ i = n + 1
      BY <1>11 DEF Removals
    <3>2. \A i \in Removals : i \in Removals' /\ items'[i] = items[i]
      BY <1>11 DEF Removals
    <3>3. n + 1 \in Removals' /\ items'[n + 1] = it
      BY <1>4, <1>11 DEF Removals
    <3>4. ASSUME NEW q \in Singles' PROVE q \in Singles \cup {e}
      <4>1. PICK i \in Removals' : q = Entry(before, items'[i].path)
        BY <1>9 DEF Singles
      <4>2. CASE i \in Removals
        BY <2>5, <3>2, <4>1, <4>2 DEF Singles
      <4>3. CASE i = n + 1
        BY <2>2, <3>3, <4>1, <4>3
      <4> QED
        BY <3>1, <4>2, <4>3
    <3>5. ASSUME NEW q \in Singles PROVE q \in Singles'
      <4>1. PICK i \in Removals : q = Entry(before, items[i].path) /\ q \in Gone
        BY DEF Singles
      <4> QED
        BY <1>9, <1>10, <3>2, <4>1 DEF Singles
    <3>6. e \in Singles'
      BY <1>9, <1>10, <2>2, <3>3 DEF Singles
    <3> QED
      BY <3>4, <3>5, <3>6
  <2> DEFINE C == {r \in gone : before[r].type = "file" \/ (r = e /\ before[r].type = "link")}
  <2>7. it.bytes = Bytes(before, e, C)
    <3>1. it.bytes = Bytes(fs, e, Counted(fs, e))
      BY <1>4, <1>6, SizeSum DEF e, Sized
    <3>2. gone = Readable(fs, e)
      <4>1. Takes(Tree(fs, e), gone) /\ e \in Places(fs)
        BY <1>7, <2>1 DEF Takes, Places
      <4>2. gone \subseteq Readable(fs, e)
        BY <1>3, <1>7, <4>1, GoneIs
      <4> QED
        BY <2>1, <4>2 DEF Readable
    <3>3. \A r \in gone : /\ fs[r].type = before[r].type /\ fs[r].len = before[r].len
                          /\ fs[r].alloc = before[r].alloc
      BY <1>3, <1>10 DEF Remains
    <3>4. Counted(fs, e) = C
      BY <3>2, <3>3 DEF Counted
    <3>5. C \subseteq gone
      OBVIOUS
    <3> HIDE DEF C
    <3>6. [r \in C |-> IF r = e THEN fs[r].alloc ELSE fs[r].len]
              = [r \in C |-> IF r = e THEN before[r].alloc ELSE before[r].len]
      BY <3>3, <3>5
    <3>7. Bytes(fs, e, C) = Bytes(before, e, C)
      BY <3>6 DEF Bytes
    <3> QED
      BY <3>1, <3>4, <3>7
  <2>8. Tally(before, Gone \cup gone, Singles \cup {e}) = Tally(before, Gone, Singles) + Bytes(before, e, C)
    <3>1. Singles \in SUBSET Gone /\ Gone \in SUBSET DOMAIN before /\ gone \in SUBSET DOMAIN before
      BY <1>10 DEF Singles, Gone
    <3> QED
      BY <1>3, <1>10, <2>2, <3>1, TallyGrows
  <2>9. Total(items', Because(items', "deleted")) = Total(items, Because(items, "deleted")) + it.bytes
    <3>1. Total(items', Because(items', reason)) = Total(items, Because(items, reason)) + it.bytes
      BY <1>4, <1>5, AddedTotal
    <3> QED
      BY <1>13, <3>1
  <2> HIDE DEF C
  <2>10. Total(items, Because(items, "deleted")) = Tally(before, Gone, Singles)
    BY <1>13 DEF Honest
  <2>11. Total(items', Because(items', "deleted")) = Tally(before, Gone', Singles')
    BY <1>10, <2>6, <2>7, <2>8, <2>9, <2>10
  <2> QED
    BY <1>9, <2>3, <2>11 DEF Honest
<1> QED
  BY <1>4, <1>12, <1>13

LEMMA RetainHonest == ASSUME IInv, Credited, Honest, Retain PROVE Credited' /\ Honest'
<1> DEFINE stays == {n \in DOMAIN items : ~(Matched(items[n].id) /\ items[n].reason = "missing")}
<1>1. items' = Retained(stays) /\ UNCHANGED call /\ fs' = fs
  BY DEF Retain
<1>2. items \in Seq(ItemSet)
  BY DEF IInv, Reported
<1>3. Len(items) \in Nat /\ DOMAIN items = 1 .. Len(items)
  BY <1>2, Indexes
<1>4. \A i \in 1 .. Len(items) : items[i].reason # "missing" => i \in stays
  BY <1>3
<1> HIDE DEF stays
<1>5. /\ items' \in Seq(ItemSet)
      /\ \A i \in 1 .. Len(items') : \E l \in 1 .. Len(items) : items'[i] = items[l]
      /\ \A l \in 1 .. Len(items) : l \in stays => \E i \in 1 .. Len(items') : items'[i] = items[l]
  <2>1. Picks(ItemSet, items', stays, Len(items))
    BY <1>1, <1>2, RetainedIs
  <2> QED
    BY <2>1 DEF Picks
<1>6. DOMAIN items' = 1 .. Len(items')
  BY <1>5
<1>7. before' = before /\ Gone' = Gone
  BY <1>1, SameCall DEF Gone
<1>8. Credited'
  BY <1>5, <1>7 DEF Credited
<1>9. Failed(items') <=> Failed(items)
  <2>1. ASSUME NEW i \in DOMAIN items', items'[i].reason = "delete failed"
        PROVE  Failed(items)
    <3>1. PICK l \in 1 .. Len(items) : items'[i] = items[l]
      BY <1>5, <1>6
    <3> QED
      BY <1>3, <2>1, <3>1 DEF Failed
  <2>2. ASSUME NEW l \in DOMAIN items, items[l].reason = "delete failed"
        PROVE  Failed(items')
    <3>1. l \in 1 .. Len(items) /\ l \in stays
      BY <1>3, <1>4, <2>2
    <3>2. PICK i \in 1 .. Len(items') : items'[i] = items[l]
      BY <1>5, <3>1
    <3> QED
      BY <1>6, <2>2, <3>2 DEF Failed
  <2> QED
    BY <2>1, <2>2 DEF Failed
<1>10. \A i \in Removals : \E j \in Removals' : items'[j] = items[i]
  BY <1>3, <1>4, <1>5, <1>6 DEF Removals
<1>11. \A j \in Removals' : \E i \in Removals : items'[j] = items[i]
  BY <1>3, <1>5, <1>6 DEF Removals
<1>12. Singles' = Singles
  BY <1>7, <1>10, <1>11 DEF Singles
<1>13. Total(items', Because(items', "deleted")) = Total(items, Because(items, "deleted"))
  <2> DEFINE d == "deleted"
  <2>1. \A i \in 1 .. Len(items) : items[i].reason = d => i \in stays
    BY <1>4
  <2> HIDE DEF d
  <2>2. Total(items', Because(items', d)) = Total(items, Because(items, d))
    BY <1>1, <1>2, <2>1, RetainedTotal
  <2> QED
    BY <2>2 DEF d
<1>14. Honest'
  BY <1>7, <1>9, <1>12, <1>13 DEF Honest
<1> QED
  BY <1>8, <1>14

LEMMA SkipHonest == ASSUME IInv, Credited, Honest, Skip \/ WouldDelete PROVE Credited' /\ Honest'
<1>1. pc = "judge" /\ kept # << >> /\ fs' = fs
  BY DEF Skip, WouldDelete
<1>2. \E reason \in {"protected", "outside root", "missing", "in use", "needs a flag", "too new", "dry-run"} :
          Judged(Item(Head(kept), reason))
  BY ReasonIs DEF Skip, WouldDelete
<1>3. PICK reason \in {"protected", "outside root", "missing", "in use", "needs a flag", "too new", "dry-run"} :
          Judged(Item(Head(kept), reason))
  BY <1>2
<1> DEFINE it == Item(Head(kept), reason)
<1>4. it \in ItemSet /\ it.reason = reason
  <2>1. reason \in Reasons
    BY DEF Reasons
  <2> QED
    BY <1>1, <2>1, HeadIs, ItemType DEF IInv, Basics
<1> HIDE DEF it
<1>5. Added(it) /\ UNCHANGED call
  BY <1>3, <1>4 DEF it, Judged, Added, IInv, Reported
<1>6. it.reason \notin {"deleted", "delete failed"}
  BY <1>4
<1> QED
  BY <1>1, <1>5, <1>6, AddedHonest

LEMMA HandleExternalHonest ==
    ASSUME IInv, Credited, Honest, handle_external PROVE Credited' /\ Honest'
<1> DEFINE next          == Min(delegated)
           t             == catalog[next]
           it(v, reason) == [id |-> t.id, tier |-> t.tier, path |-> Nowhere,
                             verdict |-> v, reason |-> reason, bytes |-> 0]
<1>1. delegated # {} /\ UNCHANGED call /\ fs' = fs
  BY DEF handle_external
<1>2. \E v \in {"reclaimable", "skipped"} :
          \E reason \in {"not installed", "dry-run", "ran", "command failed"} :
              items' = Append(items, it(v, reason))
  BY DEF handle_external
<1>3. PICK v \in {"reclaimable", "skipped"},
           reason \in {"not installed", "dry-run", "ran", "command failed"} :
               items' = Append(items, it(v, reason))
  BY <1>2
<1> DEFINE new == it(v, reason)
<1>4. next \in DOMAIN catalog
  <2>1. delegated \in SUBSET Nat /\ delegated \subseteq DOMAIN catalog
    BY CatalogIs DEF IInv, Basics
  <2> QED
    BY <1>1, <2>1, MinOf
<1> HIDE DEF next
<1>5. new \in ItemSet /\ new.reason = reason
  <2>1. Nowhere \in Path
    BY EmptyList DEF Nowhere, Path
  <2> QED
    BY <1>4, <2>1 DEF ItemSet, Reasons
<1>6. items' = Append(items, new) /\ items \in Seq(ItemSet)
  BY <1>3 DEF IInv, Reported
<1> HIDE DEF new
<1>7. Added(new)
  BY <1>5, <1>6 DEF Added
<1> QED
  BY <1>1, <1>5, <1>7, AddedHonest

LEMMA NextHonest == ASSUME KInv, [Next]_vars PROVE KInv'
<1>1. IInv'
  BY NextKeeps DEF KInv
<1>2. IInv /\ Credited /\ Honest
  BY DEF KInv
<1>3. ASSUME Call PROVE Credited' /\ Honest'
  <2>1. items' = << >> /\ Gone' = {}
    BY <1>3 DEF Call, Gone
  <2>2. (items = << >> /\ Gone = {} => Credited /\ Honest)'
    BY NoneHonest, PTL
  <2> QED
    BY <2>1, <2>2
<1>4. ASSUME Resolve \/ Finish \/ UNCHANGED vars PROVE Credited' /\ Honest'
  <2>1. UNCHANGED call /\ fs' = fs /\ items' = items
    BY <1>4 DEF Resolve, Finish, vars
  <2> QED
    BY <1>2, <2>1, QuietHonest
<1>5. Credited' /\ Honest'
  BY <1>2, <1>3, <1>4, SkipHonest, DeleteHonest, RetainHonest, HandleExternalHonest DEF Next
<1> QED
  BY <1>1, <1>5 DEF KInv

LEMMA HonestHolds == Spec => []KInv
<1>1. Init => KInv
  <2> SUFFICES ASSUME Init PROVE KInv
    OBVIOUS
  <2>1. items = << >> /\ Gone = {}
    BY DEF Init, Gone
  <2> QED
    BY <2>1, InitKeeps, NoneHonest DEF KInv
<1>2. KInv /\ [Next]_vars => KInv'
  BY NextHonest
<1> QED
  BY <1>1, <1>2, PTL DEF Spec

(* For every disk and any calls: unless a removal has failed, the bytes    *)
(* credited as deleted are those that went, with the space of what was a   *)
(* candidate itself and the length of every file below one: nothing is     *)
(* counted twice, nothing that went is left out (run, size_path).          *)
THEOREM CreditsHonestly == Spec => []TotalsHonest
<1>1. KInv => TotalsHonest
  BY HonestIs DEF KInv
<1> QED
  BY <1>1, HonestHolds, PTL

-----------------------------------------------------------------------------
(* What is printed.  The rows of a report, one for each target with        *)
(* something reclaimable, and the order of the largest paths.              *)
Counts(its)  == {i \in DOMAIN its : its[i].verdict = "reclaimable"}
Of(its, id)  == {i \in Counts(its) : its[i].id = id}
Row(its, id) == [id |-> id, paths |-> Cardinality(Of(its, id)), bytes |-> Total(its, Of(its, id))]
Rows(its)    == {Row(its, id) : id \in {its[i].id : i \in Counts(its)}}
Larger(its, i) == {j \in Counts(its) : \/ its[j].bytes > its[i].bytes
                                       \/ (its[j].bytes = its[i].bytes /\ j < i)}

LEMMA PrintedIs ==
    ASSUME NEW r
    PROVE  /\ print_human(r).rows = Rows(r.items)
           /\ print_human(r).largest = {i \in Counts(r.items) :
                  r.items[i].bytes > 0 /\ Cardinality(Larger(r.items, i)) < r.cfg.top}
           /\ print_human(r).held = Because(r.items, "needs a flag")
           /\ print_human(r).skipped = {i \in DOMAIN r.items : r.items[i].verdict = "skipped"}
                  \ (Because(r.items, "needs a flag") \cup Because(r.items, "missing"))
           /\ print_human(r).absent = Cardinality(Because(r.items, "missing"))
           /\ print_human(r).headline = IF r.cfg.apply THEN r.total_deleted ELSE r.total_reclaimable
  BY Zenon DEF print_human, Rows, Row, Of, Counts, Larger

LEMMA CountsFinite ==
    ASSUME NEW its \in Seq(ItemSet)
    PROVE  /\ IsFiniteSet(DOMAIN its) /\ Cardinality(DOMAIN its) = Len(its) /\ DOMAIN its \in SUBSET Nat
           /\ \A i \in DOMAIN its : its[i] \in ItemSet /\ its[i].bytes \in Nat
<1> DEFINE n == Len(its)
<1>1. n \in Nat /\ DOMAIN its = 1 .. n
  BY Indexes
<1>2. \A i \in 1 .. n : its[i] \in ItemSet
  BY <1>1, ElementType
<1>3. IsFiniteSet(1 .. n) /\ Cardinality(1 .. n) = n
  <2>1. 1 \in Int /\ n \in Int
    BY <1>1
  <2> HIDE DEF n
  <2>2. IsFiniteSet(1 .. n) /\ Cardinality(1 .. n) = IF 1 > n THEN 0 ELSE n - 1 + 1
    BY <2>1, FS_Interval
  <2> QED
    BY <1>1, <2>2
<1> QED
  BY <1>1, <1>2, <1>3 DEF ItemSet

(* The rows account for every reclaimable item once, bytes and paths.      *)
LEMMA RowsAddUp ==
    ASSUME NEW its \in Seq(ItemSet)
    PROVE  /\ SumFunction([row \in Rows(its) |-> row.bytes]) = Total(its, Counts(its))
           /\ SumFunction([row \in Rows(its) |-> row.paths]) = Cardinality(Counts(its))
<1> DEFINE S == Counts(its)
           K == Rows(its)
           key == [i \in S |-> Row(its, its[i].id)]
           w == [i \in S |-> its[i].bytes]
           u == [i \in S |-> 1]
           G == [row \in K |-> row.bytes]
           P == [row \in K |-> row.paths]
<1>1. S \in SUBSET DOMAIN its /\ IsFiniteSet(S) /\ \A i \in S : its[i].bytes \in Nat
  <2>1. S \in SUBSET DOMAIN its
    BY DEF Counts
  <2> QED
    BY <2>1, CountsFinite, FS_Subset
<1>2. key \in [S -> K] /\ K = {key[i] : i \in S}
  BY DEF Rows
<1>3. IsFiniteSet(K)
  <2> HIDE DEF S, K, key
  <2> QED
    BY <1>1, <1>2, ImageFinite
<1>4. \A i \in S : key[i].id = its[i].id /\ key[i] = Row(its, its[i].id)
  BY DEF Row
<1>5. ASSUME NEW k \in K
      PROVE  /\ {x \in S : key[x] = k} = Of(its, k.id)
             /\ k.bytes = Total(its, Of(its, k.id)) /\ k.paths = Cardinality(Of(its, k.id))
  <2>1. PICK i \in S : k = key[i]
    BY <1>2
  <2>2. k = Row(its, its[i].id)
    BY <1>4, <2>1
  <2>3. k.id = its[i].id /\ k = Row(its, k.id)
    BY <2>2 DEF Row
  <2>4. k.bytes = Total(its, Of(its, k.id)) /\ k.paths = Cardinality(Of(its, k.id))
    BY <2>3 DEF Row
  <2> HIDE DEF key
  <2>5. \A x \in S : key[x] = k <=> its[x].id = k.id
    BY <1>4, <2>3
  <2>6. Of(its, k.id) = {x \in S : its[x].id = k.id}
    BY DEF Of
  <2> HIDE DEF S
  <2> QED
    BY <2>4, <2>5, <2>6
<1>6. w \in [S -> Nat] /\ u \in [S -> Nat]
  BY <1>1
<1>7. \A s \in SUBSET S : SumOver(w, s) = Total(its, s) /\ SumOver(u, s) = Cardinality(s)
  <2> SUFFICES ASSUME NEW s \in SUBSET S
               PROVE  SumOver(w, s) = Total(its, s) /\ SumOver(u, s) = Cardinality(s)
    OBVIOUS
  <2>1. [i \in s |-> w[i]] = [i \in s |-> its[i].bytes] /\ [i \in s |-> u[i]] = [i \in s |-> 1]
    OBVIOUS
  <2>2. IsFiniteSet(s)
    BY <1>1, FS_Subset
  <2> DEFINE v == [i \in s |-> 1]
  <2>3. SumFunction(v) = Cardinality(s)
    <3>1. 1 \in {0, 1} /\ 1 # 0 /\ v = [x \in s |-> 1]
      OBVIOUS
    <3> HIDE DEF v
    <3> QED
      BY <2>2, <3>1, SumSame
  <2> HIDE DEF w, u, v, S
  <2> QED
    BY <2>1, <2>3 DEF SumOver, Total, v
<1>8. \A k \in K : Of(its, k.id) \in SUBSET S
  BY DEF Of
<1>9. PartSums(K, S, w, key, G) /\ PartSums(K, S, u, key, P)
  <2> HIDE DEF w, u, key, K, S
  <2>1. \A k \in K : SumOver(w, {x \in S : key[x] = k}) = k.bytes
    BY <1>5, <1>7, <1>8
  <2>2. \A k \in K : SumOver(u, {x \in S : key[x] = k}) = k.paths
    BY <1>5, <1>7, <1>8
  <2> QED
    BY <2>1, <2>2 DEF PartSums
<1> HIDE DEF S, K, key, w, u, G, P
<1>10. SumFunction(w) = SumFunction(G) /\ SumFunction(u) = SumFunction(P)
  <2>1. IsFiniteSet(K) /\ IsFiniteSet(S) /\ key \in [S -> K]
    BY <1>1, <1>2, <1>3
  <2>2. w \in [S -> Nat] /\ PartSums(K, S, w, key, G)
    BY <1>6, <1>9
  <2>3. u \in [S -> Nat] /\ PartSums(K, S, u, key, P)
    BY <1>6, <1>9
  <2>4. SumFunction(w) = SumFunction(G)
    BY <2>1, <2>2, SumParts
  <2>5. SumFunction(u) = SumFunction(P)
    BY <2>1, <2>3, SumParts
  <2> QED
    BY <2>4, <2>5
<1>11. SumFunction(w) = Total(its, S) /\ SumFunction(u) = Cardinality(S)
  <2>1. S \in SUBSET S
    OBVIOUS
  <2> QED
    BY <1>6, <1>7, <2>1, OverAll
<1> QED
  BY <1>10, <1>11 DEF G, P, K, S

(* No path that is not listed is larger than one that is.                  *)
LEMMA LargestFirst ==
    ASSUME NEW its \in Seq(ItemSet), NEW i \in Counts(its), NEW j \in Counts(its),
           its[j].bytes > its[i].bytes
    PROVE  Cardinality(Larger(its, j)) <= Cardinality(Larger(its, i))
           /\ Cardinality(Larger(its, j)) \in Nat /\ Cardinality(Larger(its, i)) \in Nat
<1>1. /\ IsFiniteSet(DOMAIN its) /\ DOMAIN its \in SUBSET Nat
      /\ \A l \in Counts(its) : l \in DOMAIN its /\ l \in Nat /\ its[l].bytes \in Nat
  BY CountsFinite DEF Counts
<1>2. Larger(its, i) \in SUBSET DOMAIN its /\ Larger(its, j) \in SUBSET DOMAIN its
  BY <1>1 DEF Larger
<1>3. Larger(its, j) \in SUBSET Larger(its, i)
  <2> SUFFICES ASSUME NEW l \in Larger(its, j) PROVE l \in Larger(its, i)
    OBVIOUS
  <2> DEFINE a == its[i].bytes
             b == its[j].bytes
             c == its[l].bytes
  <2>1. l \in Counts(its) /\ (c > b \/ c = b)
    BY DEF Larger
  <2>2. a \in Nat /\ b \in Nat /\ c \in Nat /\ b > a
    BY <1>1, <2>1
  <2>3. c > a
    <3> HIDE DEF a, b, c
    <3> QED
      BY <2>1, <2>2
  <2> QED
    BY <2>1, <2>3 DEF Larger
<1> QED
  BY <1>1, <1>2, <1>3, FS_Subset, FS_CardinalityType

(* A report as it is written, and what its items have to be like for it.   *)
Report == [cfg : Config, home : Path, items : Seq(ItemSet),
           total_reclaimable : Nat, total_opt_in : Nat, total_deleted : Nat]

RowFit(c, it) ==
    /\ it.reason = "deleted" => it.verdict = "reclaimable"
    /\ it.reason \in {"needs a flag", "missing"} => it.verdict = "skipped"
    /\ it.verdict = "reclaimable" /\ c.apply => it.reason = "deleted" \/ it.bytes = 0

AllFit(c, its) == \A i \in DOMAIN its : RowFit(c, its[i])

AddsUpTo(r) ==
    LET p == print_human(r) IN
    /\ p.headline = SumFunction([row \in p.rows |-> row.bytes])
    /\ Len(r.items) = SumFunction([row \in p.rows |-> row.paths])
                      + Cardinality(p.held) + Cardinality(p.skipped) + p.absent
    /\ \A i \in p.largest : \A j \in DOMAIN r.items \ p.largest :
           r.items[j].verdict = "reclaimable" => r.items[j].bytes <= r.items[i].bytes

LEMMA FourParts ==
    ASSUME NEW D, IsFiniteSet(D), NEW A \in SUBSET D, NEW B \in SUBSET D, NEW C \in SUBSET D,
           NEW E \in SUBSET D, D = A \cup B \cup C \cup E,
           A \cap B = {}, A \cap C = {}, A \cap E = {}, B \cap C = {}, B \cap E = {}, C \cap E = {}
    PROVE  Cardinality(D) = Cardinality(A) + Cardinality(B) + Cardinality(C) + Cardinality(E)
<1>1. \A s \in SUBSET D : IsFiniteSet(s) /\ Cardinality(s) \in Nat
  BY FS_Subset, FS_CardinalityType
<1>2. \A s, t \in SUBSET D : s \cap t = {} => Cardinality(s \cup t) = Cardinality(s) + Cardinality(t)
  <2> SUFFICES ASSUME NEW s \in SUBSET D, NEW t \in SUBSET D, s \cap t = {}
               PROVE  Cardinality(s \cup t) = Cardinality(s) + Cardinality(t)
    OBVIOUS
  <2>1. IsFiniteSet(s) /\ IsFiniteSet(t) /\ Cardinality(s) \in Nat /\ Cardinality(t) \in Nat
    BY <1>1
  <2>2. Cardinality(s \cup t) = Cardinality(s) + Cardinality(t) - Cardinality(s \cap t)
    BY <2>1, FS_Union
  <2>3. Cardinality(s \cap t) = 0
    BY FS_EmptySet
  <2> QED
    BY <2>1, <2>2, <2>3
<1>3. Cardinality(A \cup B) = Cardinality(A) + Cardinality(B)
  BY <1>2
<1>4. Cardinality(C \cup E) = Cardinality(C) + Cardinality(E)
  BY <1>2
<1>5. Cardinality((A \cup B) \cup (C \cup E)) = Cardinality(A \cup B) + Cardinality(C \cup E)
  <2>1. A \cup B \in SUBSET D /\ C \cup E \in SUBSET D /\ (A \cup B) \cap (C \cup E) = {}
    OBVIOUS
  <2> QED
    BY <1>2, <2>1
<1>6. D = (A \cup B) \cup (C \cup E)
  OBVIOUS
<1>7. Cardinality(D) = Cardinality(A \cup B) + Cardinality(C \cup E)
  BY <1>5, <1>6
<1>8. Cardinality(A) \in Nat /\ Cardinality(B) \in Nat /\ Cardinality(C) \in Nat /\ Cardinality(E) \in Nat
  BY <1>1
<1> QED
  BY <1>3, <1>4, <1>7, <1>8

(* What has no bytes adds none.                                            *)
LEMMA DroppedZeros ==
    ASSUME NEW its \in Seq(ItemSet), NEW S \in SUBSET DOMAIN its, NEW R \in SUBSET S,
           \A i \in S \ R : its[i].bytes = 0
    PROVE  Total(its, S) = Total(its, R) /\ Total(its, R) \in Nat
<1> DEFINE D == DOMAIN its
           w == [i \in D |-> its[i].bytes]
           Z == S \ R
           z == [i \in Z |-> 0]
<1>1. IsFiniteSet(D) /\ w \in [D -> Nat]
  BY CountsFinite
<1>2. \A s \in SUBSET D : Total(its, s) = SumOver(w, s)
  <2>1. \A s \in SUBSET D : [i \in s |-> its[i].bytes] = [i \in s |-> w[i]]
    OBVIOUS
  <2> HIDE DEF w
  <2> QED
    BY <2>1 DEF Total, SumOver
<1>3. Z \in SUBSET D /\ S = R \cup Z /\ R \cap Z = {} /\ R \in SUBSET D
  OBVIOUS
<1>4. [i \in Z |-> w[i]] = z
  OBVIOUS
<1>5. IsFiniteSet(Z)
  BY <1>1, <1>3, FS_Subset
<1> HIDE DEF D, w, Z
<1>6. SumFunction(z) = 0
  <2>1. 0 \in {0, 1} /\ z = [x \in Z |-> 0]
    OBVIOUS
  <2> HIDE DEF z
  <2> QED
    BY <1>5, <2>1, SumSame
<1> HIDE DEF z
<1>7. SumOver(w, Z) = 0
  BY <1>4, <1>6 DEF SumOver
<1>8. SumOver(w, R \cup Z) = SumOver(w, R) + SumOver(w, Z)
  BY <1>1, <1>3, OverJoin
<1>9. SumOver(w, R) \in Nat
  BY <1>1, <1>3, OverNat
<1>10. SumOver(w, S) = SumOver(w, R)
  BY <1>3, <1>7, <1>8, <1>9
<1>11. S \in SUBSET D
  BY <1>3
<1> QED
  BY <1>2, <1>3, <1>9, <1>10, <1>11

LEMMA ReportAddsUp ==
    ASSUME NEW r, r.items \in Seq(ItemSet), AllFit(r.cfg, r.items), r.cfg.top \in Nat,
           r.total_reclaimable = Total(r.items, Counts(r.items) \cup Because(r.items, "deleted")),
           r.total_deleted = Total(r.items, Because(r.items, "deleted"))
    PROVE  AddsUpTo(r)
<1> DEFINE its == r.items
           A   == Counts(its)
           del == Because(its, "deleted")
           h   == Because(its, "needs a flag")
           g   == Because(its, "missing")
           sk  == {i \in DOMAIN its : its[i].verdict = "skipped"} \ (h \cup g)
           lar == {i \in A : its[i].bytes > 0 /\ Cardinality(Larger(its, i)) < r.cfg.top}
           p   == print_human(r)
<1>1. /\ p.rows = Rows(its) /\ p.largest = lar /\ p.held = h /\ p.skipped = sk
      /\ p.absent = Cardinality(g)
      /\ p.headline = IF r.cfg.apply THEN r.total_deleted ELSE r.total_reclaimable
  BY PrintedIs
<1>2. /\ IsFiniteSet(DOMAIN its) /\ Cardinality(DOMAIN its) = Len(its)
      /\ \A i \in DOMAIN its : its[i] \in ItemSet /\ its[i].bytes \in Nat
  BY CountsFinite
<1>3. /\ SumFunction([row \in Rows(its) |-> row.bytes]) = Total(its, A)
      /\ SumFunction([row \in Rows(its) |-> row.paths]) = Cardinality(A)
  BY RowsAddUp
<1>4. \A i \in DOMAIN its : its[i].verdict \in {"reclaimable", "skipped"} /\ RowFit(r.cfg, its[i])
  BY <1>2 DEF ItemSet, AllFit
<1>5. del \in SUBSET A /\ A \in SUBSET DOMAIN its
  BY <1>4 DEF Counts, Because, RowFit
<1>6. p.headline = Total(its, A)
  <2>1. CASE r.cfg.apply
    <3>1. \A i \in A \ del : its[i].bytes = 0
      BY <1>4, <2>1 DEF Counts, Because, RowFit
    <3> HIDE DEF A, del, p, its
    <3>2. Total(its, A) = Total(its, del)
      BY <1>5, <3>1, DroppedZeros DEF its
    <3> QED
      BY <1>1, <2>1, <3>2 DEF its, del
  <2>2. CASE ~r.cfg.apply
    <3>1. A \cup del = A
      BY <1>5
    <3> HIDE DEF p
    <3> QED
      BY <1>1, <2>2, <3>1
  <2> QED
    BY <2>1, <2>2
<1>7. Len(its) = Cardinality(A) + Cardinality(h) + Cardinality(sk) + Cardinality(g)
  <2>1. h \cap g = {} /\ h \in SUBSET DOMAIN its /\ g \in SUBSET DOMAIN its /\ sk \in SUBSET DOMAIN its
    BY DEF Because
  <2>2. A \cap h = {} /\ A \cap g = {} /\ A \cap sk = {} /\ sk \cap h = {} /\ sk \cap g = {}
    BY <1>4 DEF Because, Counts, RowFit
  <2>3. DOMAIN its = A \cup h \cup sk \cup g
    BY <1>4, <1>5, <2>1 DEF Counts
  <2> DEFINE D == DOMAIN its
  <2>4. IsFiniteSet(D) /\ Cardinality(D) = Len(its) /\ A \in SUBSET D
    BY <1>2, <1>5
  <2>5. D = A \cup h \cup sk \cup g /\ h \in SUBSET D /\ g \in SUBSET D /\ sk \in SUBSET D
    BY <2>1, <2>3
  <2>6. h \cap sk = {} /\ h \cap g = {}
    BY <2>1, <2>2
  <2> HIDE DEF A, h, g, sk, D
  <2>7. Cardinality(D) = Cardinality(A) + Cardinality(h) + Cardinality(sk) + Cardinality(g)
    BY <2>2, <2>4, <2>5, <2>6, FourParts
  <2> QED
    BY <2>4, <2>7
<1>8. ASSUME NEW i \in lar, NEW j \in DOMAIN its \ lar, its[j].verdict = "reclaimable"
      PROVE  its[j].bytes <= its[i].bytes
  <2>1. i \in A /\ j \in A /\ its[i].bytes \in Nat /\ its[j].bytes \in Nat
    BY <1>2, <1>5, <1>8 DEF Counts
  <2>2. SUFFICES ASSUME its[j].bytes > its[i].bytes PROVE FALSE
    BY <2>1
  <2>3. /\ Cardinality(Larger(its, j)) <= Cardinality(Larger(its, i))
        /\ Cardinality(Larger(its, j)) \in Nat /\ Cardinality(Larger(its, i)) \in Nat
    BY <2>1, <2>2, LargestFirst
  <2>4. Cardinality(Larger(its, i)) < r.cfg.top /\ its[j].bytes > 0
    BY <1>8, <2>1, <2>2
  <2>5. r.cfg.top \in Nat => Cardinality(Larger(its, j)) < r.cfg.top
    BY <2>3, <2>4
  <2> QED
    BY <1>8, <2>1, <2>4, <2>5
<1> HIDE DEF p, lar, its, A, h, g, sk
<1>9. p.headline = SumFunction([row \in p.rows |-> row.bytes])
  BY <1>1, <1>3, <1>6
<1>10. Len(its) = SumFunction([row \in p.rows |-> row.paths])
                  + Cardinality(p.held) + Cardinality(p.skipped) + p.absent
  BY <1>1, <1>3, <1>7
<1>11. \A i \in p.largest : \A j \in DOMAIN its \ p.largest :
           its[j].verdict = "reclaimable" => its[j].bytes <= its[i].bytes
  BY <1>1, <1>8
<1> QED
  BY <1>9, <1>10, <1>11, Zenon DEF AddsUpTo, p, its

PInv == /\ IInv /\ AllFit(cfg, items)
        /\ reports \in Seq(Report) /\ \A n \in DOMAIN reports : AddsUpTo(reports[n])

LEMMA AddedFits ==
    ASSUME AllFit(cfg, items), UNCHANGED call, NEW it, Added(it), RowFit(cfg, it)
    PROVE  AllFit(cfg, items)'
<1>1. cfg' = cfg
  BY SameCall
<1>2. \A i \in DOMAIN items' : items'[i] = it \/ (i \in DOMAIN items /\ items'[i] = items[i])
  BY AddedIs
<1> QED
  BY <1>1, <1>2 DEF AllFit

LEMMA JudgedFits ==
    ASSUME IInv, AllFit(cfg, items), pc = "judge", kept # << >>, NEW reason \in Reasons,
           Judged(Item(Head(kept), reason)),
           reason \in {"dry-run"} => ~cfg.apply,
           reason \notin {"not installed", "ran", "command failed"}
    PROVE  AllFit(cfg, items)' /\ reports' = reports
<1> DEFINE it == Item(Head(kept), reason)
<1>1. it \in ItemSet /\ it.reason = reason /\ it.verdict = Verdict(reason)
  BY HeadIs, ItemType DEF IInv, Basics, Item
<1>2. Added(it) /\ UNCHANGED call /\ reports' = reports
  BY <1>1 DEF Judged, Added, IInv, Reported
<1> HIDE DEF it
<1>3. RowFit(cfg, it)
  BY <1>1 DEF RowFit, Verdict
<1> QED
  BY <1>2, <1>3, AddedFits

LEMMA HandleExternalFits ==
    ASSUME IInv, AllFit(cfg, items), handle_external
    PROVE  AllFit(cfg, items)' /\ reports' = reports
<1> DEFINE t             == catalog[Min(delegated)]
           it(v, reason) == [id |-> t.id, tier |-> t.tier, path |-> Nowhere,
                             verdict |-> v, reason |-> reason, bytes |-> 0]
<1>1. UNCHANGED call /\ reports' = reports
      /\ \E v, reason : /\ reason \notin {"deleted", "needs a flag", "missing"}
                        /\ items' = Append(items, it(v, reason))
  BY DEF handle_external
<1>2. PICK v, reason : /\ reason \notin {"deleted", "needs a flag", "missing"}
                       /\ items' = Append(items, it(v, reason))
  BY <1>1
<1> DEFINE new == it(v, reason)
<1>3. RowFit(cfg, new)
  BY <1>2 DEF RowFit
<1>4. items' = Append(items, new) /\ items \in Seq(ItemSet)
  BY <1>2 DEF IInv, Reported
<1> HIDE DEF new
<1>5. \A i \in 1 .. Len(items') : (i \in 1 .. Len(items) /\ items'[i] = items[i]) \/ items'[i] = new
  BY <1>4, AppendIs
<1>6. DOMAIN items = 1 .. Len(items) /\ DOMAIN items' \subseteq 1 .. Len(items')
  BY <1>4
<1>7. cfg' = cfg
  BY <1>1, SameCall
<1> QED
  BY <1>1, <1>3, <1>5, <1>6, <1>7 DEF AllFit

LEMMA RetainFits ==
    ASSUME IInv, AllFit(cfg, items), Retain PROVE AllFit(cfg, items)' /\ reports' = reports
<1> DEFINE stays == {n \in DOMAIN items : ~(Matched(items[n].id) /\ items[n].reason = "missing")}
<1>1. items' = Retained(stays) /\ UNCHANGED call /\ reports' = reports
  BY DEF Retain
<1>2. items \in Seq(ItemSet)
  BY DEF IInv, Reported
<1> HIDE DEF stays
<1>3. /\ items' \in Seq(ItemSet)
      /\ \A i \in 1 .. Len(items') : \E l \in 1 .. Len(items) : items'[i] = items[l]
  <2>1. Picks(ItemSet, items', stays, Len(items))
    BY <1>1, <1>2, RetainedIs
  <2> QED
    BY <2>1 DEF Picks
<1>4. DOMAIN items' = 1 .. Len(items') /\ DOMAIN items = 1 .. Len(items)
  BY <1>2, <1>3, Indexes
<1>5. cfg' = cfg
  BY <1>1, SameCall
<1> QED
  BY <1>1, <1>3, <1>4, <1>5 DEF AllFit

LEMMA FinishPrints ==
    ASSUME PInv, Finish
    PROVE  /\ AllFit(cfg, items)' /\ reports' \in Seq(Report)
           /\ \A n \in DOMAIN reports' : AddsUpTo(reports'[n])
<1> DEFINE A == Counts(items)
           d == Because(items, "deleted")
           o == Because(items, "needs a flag")
           r == [cfg |-> cfg, home |-> home, items |-> items,
                 total_reclaimable |-> Total(items, A \cup d),
                 total_opt_in      |-> Total(items, o),
                 total_deleted     |-> Total(items, d)]
<1>1. reports' = Append(reports, r) /\ UNCHANGED call /\ items' = items /\ pc = "delegate"
  BY DEF Finish, Counts
<1>2. /\ items \in Seq(ItemSet) /\ AllFit(cfg, items) /\ cfg \in Config /\ home \in Path
      /\ reports \in Seq(Report) /\ \A n \in DOMAIN reports : AddsUpTo(reports[n])
  BY <1>1 DEF PInv, IInv, Reported, Basics, Phases, Asked, HomeIs
<1>3. A \cup d \in SUBSET DOMAIN items /\ o \in SUBSET DOMAIN items /\ d \in SUBSET DOMAIN items
  BY DEF Counts, Because
<1> HIDE DEF A, d, o
<1>4. \A S \in SUBSET DOMAIN items : Total(items, S) \in Nat
  <2>1. \A S \in SUBSET DOMAIN items : \A i \in S \ S : items[i].bytes = 0
    OBVIOUS
  <2> QED
    BY <1>2, <2>1, DroppedZeros
<1>5. r \in Report
  BY <1>2, <1>3, <1>4 DEF Report
<1>6. r.items = items /\ r.cfg = cfg /\ r.total_reclaimable = Total(items, A \cup d)
      /\ r.total_deleted = Total(items, d)
  OBVIOUS
<1>7. cfg.top \in Nat
  BY <1>2 DEF Config
<1> HIDE DEF r
<1>8. AddsUpTo(r)
  BY <1>2, <1>6, <1>7, ReportAddsUp DEF A, d
<1>9. reports' \in Seq(Report)
  BY <1>1, <1>2, <1>5
<1>10. ASSUME NEW n \in DOMAIN reports' PROVE AddsUpTo(reports'[n])
  <2>1. n \in 1 .. Len(reports') /\ DOMAIN reports = 1 .. Len(reports)
    BY <1>2, <1>9, Indexes
  <2>2. (n \in 1 .. Len(reports) /\ reports'[n] = reports[n]) \/ reports'[n] = r
    BY <1>1, <1>2, <2>1, AppendIs
  <2> QED
    BY <1>2, <1>8, <2>1, <2>2
<1>11. AllFit(cfg, items)'
  BY <1>1, <1>2, SameCall
<1> QED
  BY <1>9, <1>10, <1>11

LEMMA NextPrints == ASSUME PInv, [Next]_vars PROVE PInv'
<1>1. IInv' /\ IInv /\ AllFit(cfg, items)
  BY NextKeeps DEF PInv
<1>2. ASSUME Call PROVE AllFit(cfg, items)' /\ reports' = reports
  <2>1. items' = << >> /\ reports' = reports
    BY <1>2 DEF Call
  <2> QED
    BY <2>1 DEF AllFit
<1>3. ASSUME Resolve \/ UNCHANGED vars PROVE AllFit(cfg, items)' /\ reports' = reports
  <2>1. UNCHANGED call /\ items' = items /\ reports' = reports
    BY <1>3 DEF Resolve, vars
  <2> QED
    BY <1>1, <2>1, SameCall
<1>4. ASSUME Skip PROVE AllFit(cfg, items)' /\ reports' = reports
  <2> DEFINE reason == Reason(Head(kept))
  <2>1. pc = "judge" /\ kept # << >> /\ reason # "ok" /\ Judged(Item(Head(kept), reason))
    BY <1>4 DEF Skip
  <2>2. reason \in {"protected", "outside root", "missing", "in use", "needs a flag", "too new", "ok"}
    BY ReasonIs
  <2> HIDE DEF reason
  <2>3. reason \in Reasons /\ reason \notin {"not installed", "ran", "command failed", "dry-run"}
    BY <2>1, <2>2 DEF Reasons
  <2> QED
    BY <1>1, <2>1, <2>3, JudgedFits
<1>5. ASSUME WouldDelete PROVE AllFit(cfg, items)' /\ reports' = reports
  <2>1. pc = "judge" /\ kept # << >> /\ ~cfg.apply /\ Judged(Item(Head(kept), "dry-run"))
    BY <1>5 DEF WouldDelete
  <2>2. "dry-run" \in Reasons
    BY DEF Reasons
  <2> QED
    BY <1>1, <2>1, <2>2, JudgedFits
<1>6. ASSUME Delete PROVE AllFit(cfg, items)' /\ reports' = reports
  <2>1. pc = "judge" /\ kept # << >>
    BY <1>6 DEF Delete
  <2>2. PICK gone, reason : Outcome(Head(kept), gone, reason)
    BY <1>6, DeleteOutcome
  <2>3. reason \in {"deleted", "delete failed"} /\ Judged(Item(Head(kept), reason))
    BY <2>2 DEF Outcome
  <2>4. reason \in Reasons
    BY <2>3 DEF Reasons
  <2> QED
    BY <1>1, <2>1, <2>3, <2>4, JudgedFits
<1>7. ASSUME reports' = reports
      PROVE  reports' \in Seq(Report) /\ \A n \in DOMAIN reports' : AddsUpTo(reports'[n])
  BY <1>7 DEF PInv
<1>8. AllFit(cfg, items)' /\ reports' \in Seq(Report) /\ \A n \in DOMAIN reports' : AddsUpTo(reports'[n])
  BY <1>1, <1>2, <1>3, <1>4, <1>5, <1>6, <1>7, HandleExternalFits, RetainFits, FinishPrints DEF Next
<1> QED
  BY <1>1, <1>8 DEF PInv

(* For any items a call can come to: the printed rows add up to the        *)
(* headline, in bytes and paths, every item is accounted for once, and no  *)
(* path left out of the largest is larger than one of them (print_human).  *)
THEOREM PrintsWhatAddsUp == Spec => []PrintedAddsUp
<1>1. Init => PInv
  <2> SUFFICES ASSUME Init PROVE PInv
    OBVIOUS
  <2>1. items = << >> /\ reports = << >>
    BY DEF Init
  <2>2. AllFit(cfg, items) /\ reports \in Seq(Report) /\ DOMAIN reports = {}
    BY <2>1 DEF AllFit
  <2> QED
    BY <2>2, InitKeeps DEF PInv
<1>2. PInv /\ [Next]_vars => PInv'
  BY NextPrints
<1>3. PInv => PrintedAddsUp
  BY DEF PInv, PrintedAddsUp, AddsUpTo
<1> QED
  BY <1>1, <1>2, <1>3, PTL DEF Spec

-----------------------------------------------------------------------------
(* What the disk says of a candidate.                                      *)
LEMMA ReasonAtIs ==
    ASSUME NEW disk, NEW c, NEW h, NEW x
    PROVE  ReasonAt(disk, c, h, x) \in {"protected", "outside root", "missing", "in use", "needs a flag",
                                        "too new", "ok"}
<1>1. verdict(disk, h, x) \in {"protected", "outside root", "missing", "in use", "ok"}
  BY DEF verdict, evaluate
<1> QED
  BY <1>1 DEF ReasonAt

LEMMA FoundConsidered ==
    ASSUME NEW disk, NEW c, NEW h, NEW x \in Candidates(disk, c, h)
    PROVE  x.target_idx \in Considered(c)
<1> DEFINE of(idx) == CASE catalog[idx].kind = "HomeDirs"      -> HomeCandidates(h, idx)
                        [] catalog[idx].kind = "VersionedDirs" -> VersionCandidates(disk, h, idx)
                        [] catalog[idx].kind = "NamedDirUnder" -> NamedCandidates(disk, idx, c.scan_roots)
                        [] catalog[idx].kind = "External"      -> {}
<1>1. Candidates(disk, c, h) = UNION {of(idx) : idx \in Considered(c)}
  BY DEF Candidates
<1>2. ASSUME NEW idx \in DOMAIN catalog, NEW y \in of(idx) PROVE y.target_idx = idx
  <2>1. \A k, p, r : Found(idx, k, p, r).target_idx = idx
    BY DEF Found
  <2>2. CASE catalog[idx].kind = "HomeDirs"
    BY <2>1, <2>2, <1>2 DEF HomeCandidates
  <2>3. CASE catalog[idx].kind = "VersionedDirs"
    BY <2>1, <2>3, <1>2 DEF VersionCandidates
  <2>4. CASE catalog[idx].kind = "NamedDirUnder"
    BY <2>1, <2>4, <1>2 DEF NamedCandidates
  <2>5. CASE catalog[idx].kind = "External"
    BY <2>5, <1>2
  <2> QED
    BY <2>2, <2>3, <2>4, <2>5, CatalogIs DEF Sound
<1> HIDE DEF of
<1>3. PICK idx \in Considered(c) : x \in of(idx)
  BY <1>1
<1>4. idx \in DOMAIN catalog
  BY DEF Considered
<1> QED
  BY <1>2, <1>3, <1>4

-----------------------------------------------------------------------------
(* The shares of a listing.                                                *)
Weighed(disk, c, h) ==
    /\ Listing(disk, c, h) \in Seq(Candidate)
    /\ \A i \in 1 .. Len(Listing(disk, c, h)) :
           /\ Sized(disk, Listing(disk, c, h)[i]) \in Nat
           /\ Listing(disk, c, h)[i].target_idx \in Considered(c)

Sizes(disk, c, h) == [i \in 1 .. Len(Listing(disk, c, h)) |-> Sized(disk, Listing(disk, c, h)[i])]

Those(disk, c, h, reason) ==
    {i \in 1 .. Len(Listing(disk, c, h)) : ReasonAt(disk, c, h, Listing(disk, c, h)[i]) = reason}

Share(disk, c, h, reason) == SumOver(Sizes(disk, c, h), Those(disk, c, h, reason))

(* The report of a dry run.                                                *)
Told(r, disk) ==
    /\ Weighed(disk, r.cfg, r.home)
    /\ r.total_opt_in = Share(disk, r.cfg, r.home, "needs a flag")
    /\ r.total_reclaimable = Share(disk, r.cfg, r.home, "ok")

(* The flag for VM disks changes what is held back, not what is looked at. *)
Opens(c, d) == d = [c EXCEPT !.include_vm_disks = TRUE]

LEMMA VmDisksConsidered ==
    ASSUME NEW c \in Config, NEW d, Opens(c, d)
    PROVE  /\ Considered(d) = Considered(c) /\ d.min_age_days = c.min_age_days /\ d.apply = c.apply
           /\ \A disk, h : Listing(disk, d, h) = Listing(disk, c, h)
           /\ \A tier : deletable(tier, c) => deletable(tier, d)
           /\ \A idx \in Considered(c) : deletable(catalog[idx].tier, d)
<1>1. /\ d.scan_roots = c.scan_roots /\ d.min_age_days = c.min_age_days /\ d.apply = c.apply
      /\ d.include_os_caches = c.include_os_caches /\ d.include_vm_disks = TRUE
  BY DEF Config, Opens
<1>2. \A tier : deletable(tier, c) => deletable(tier, d)
  BY <1>1 DEF deletable
<1>3. \A tier : always_reported(tier) => deletable(tier, d)
  BY <1>1 DEF deletable, always_reported
<1>4. \A tier : deletable(tier, d) => deletable(tier, c) \/ always_reported(tier)
  BY <1>1 DEF deletable, always_reported
<1>5. Considered(d) = Considered(c)
  BY <1>2, <1>4 DEF Considered
<1>6. \A disk, h : Listing(disk, d, h) = Listing(disk, c, h)
  BY <1>1, <1>5 DEF Listing, Candidates
<1>7. \A idx \in Considered(c) : deletable(catalog[idx].tier, d)
  BY <1>2, <1>3 DEF Considered
<1> QED
  BY <1>1, <1>2, <1>5, <1>6, <1>7

(* Two dry runs of one disk, the second one with the flag.                 *)
FlagAdds(disk, c, d, h, x) ==
    /\ ReasonAt(disk, d, h, x) # "needs a flag"
    /\ ReasonAt(disk, d, h, x) = "ok" => ReasonAt(disk, c, h, x) \in {"ok", "needs a flag"}
    /\ c.min_age_days = 0 /\ ReasonAt(disk, c, h, x) \in {"ok", "needs a flag"} =>
           ReasonAt(disk, d, h, x) = "ok"

LEMMA FlagReasons ==
    ASSUME NEW c \in Config, NEW d, Opens(c, d), NEW disk, NEW h, NEW x,
           x.target_idx \in Considered(c)
    PROVE  FlagAdds(disk, c, d, h, x)
<1>1. verdict(disk, h, x) \in {"protected", "outside root", "missing", "in use", "ok"}
  BY DEF verdict, evaluate
<1>2. deletable(Target(x).tier, d) /\ d.min_age_days = c.min_age_days
  BY VmDisksConsidered DEF Target
<1>3. too_new(disk, d, x) <=> too_new(disk, c, x)
  BY <1>2 DEF too_new
<1>4. c.min_age_days = 0 => ~too_new(disk, c, x)
  BY DEF too_new, Day
<1> QED
  BY <1>1, <1>2, <1>3, <1>4 DEF ReasonAt, gated, FlagAdds

LEMMA TwoTold ==
    ASSUME NEW disk, NEW r, NEW s, Told(r, disk), Told(s, disk), r.cfg \in Config, s.home = r.home,
           Opens(r.cfg, s.cfg)
    PROVE  /\ s.total_opt_in = 0
           /\ s.total_reclaimable <= r.total_reclaimable + r.total_opt_in
           /\ r.cfg.min_age_days = 0 =>
                  s.total_reclaimable = r.total_reclaimable + r.total_opt_in
<1> DEFINE c == r.cfg
           d == s.cfg
           h == r.home
           L == Listing(disk, c, h)
           S == 1 .. Len(L)
           w == Sizes(disk, c, h)
           P == Those(disk, c, h, "ok")
           O == Those(disk, c, h, "needs a flag")
           Q == Those(disk, d, h, "ok")
           Z == Those(disk, d, h, "needs a flag")
           R == (P \cup O) \ Q
<1>1. Listing(disk, d, h) = L
  BY VmDisksConsidered
<1>2. /\ Len(L) \in Nat /\ \A i \in S : Sized(disk, L[i]) \in Nat /\ L[i].target_idx \in Considered(c)
  <2>1. Weighed(disk, c, h)
    BY DEF Told
  <2>2. L \in Seq(Candidate) /\ \A i \in S : Sized(disk, L[i]) \in Nat /\ L[i].target_idx \in Considered(c)
    BY <2>1 DEF Weighed
  <2> HIDE DEF L
  <2>3. Len(L) \in Nat
    BY <2>2
  <2> QED
    BY <2>2, <2>3
<1>3. /\ r.total_opt_in = SumOver(w, O) /\ r.total_reclaimable = SumOver(w, P)
      /\ s.total_opt_in = SumOver(Sizes(disk, d, h), Z)
      /\ s.total_reclaimable = SumOver(Sizes(disk, d, h), Q)
  BY DEF Told, Share
<1>4. Sizes(disk, d, h) = w
  BY <1>1 DEF Sizes
<1>5. w \in [S -> Nat]
  BY <1>2 DEF Sizes
<1>6. /\ \A i : i \in P <=> i \in S /\ ReasonAt(disk, c, h, L[i]) = "ok"
      /\ \A i : i \in O <=> i \in S /\ ReasonAt(disk, c, h, L[i]) = "needs a flag"
      /\ \A i : i \in Q <=> i \in S /\ ReasonAt(disk, d, h, L[i]) = "ok"
      /\ \A i : i \in Z <=> i \in S /\ ReasonAt(disk, d, h, L[i]) = "needs a flag"
  BY <1>1 DEF Those
<1>7. \A i \in S : /\ ReasonAt(disk, d, h, L[i]) # "needs a flag"
                   /\ ReasonAt(disk, d, h, L[i]) = "ok" =>
                          ReasonAt(disk, c, h, L[i]) \in {"ok", "needs a flag"}
                   /\ c.min_age_days = 0 /\ ReasonAt(disk, c, h, L[i]) \in {"ok", "needs a flag"} =>
                          ReasonAt(disk, d, h, L[i]) = "ok"
  <2> SUFFICES ASSUME NEW i \in S
               PROVE  /\ ReasonAt(disk, d, h, L[i]) # "needs a flag"
                      /\ ReasonAt(disk, d, h, L[i]) = "ok" =>
                             ReasonAt(disk, c, h, L[i]) \in {"ok", "needs a flag"}
                      /\ c.min_age_days = 0 /\ ReasonAt(disk, c, h, L[i]) \in {"ok", "needs a flag"} =>
                             ReasonAt(disk, d, h, L[i]) = "ok"
    OBVIOUS
  <2> DEFINE x == L[i]
  <2>1. x.target_idx \in Considered(c)
    BY <1>2
  <2>2. c \in Config /\ Opens(c, d)
    OBVIOUS
  <2> HIDE DEF x, c, d, h
  <2>3. FlagAdds(disk, c, d, h, x)
    BY <2>1, <2>2, FlagReasons
  <2> QED
    BY <2>3 DEF x, FlagAdds
<1>8. IsFiniteSet(S)
  <2> DEFINE n == Len(L)
  <2>1. 1 \in Int /\ n \in Int
    BY <1>2
  <2> HIDE DEF n
  <2>2. IsFiniteSet(1 .. n)
    BY <2>1, FS_Interval
  <2> QED
    BY <2>2 DEF n
<1> HIDE DEF L, S, w, P, O, Q, Z
<1>9. /\ P \in SUBSET S /\ O \in SUBSET S /\ Q \in SUBSET S /\ P \cap O = {} /\ Z = {}
      /\ Q \subseteq P \cup O /\ (c.min_age_days = 0 => Q = P \cup O)
  BY <1>6, <1>7
<1>10. R \in SUBSET S /\ Q \cap R = {} /\ Q \cup R = P \cup O
  BY <1>9
<1> HIDE DEF R
<1>11. SumOver(w, P \cup O) = SumOver(w, P) + SumOver(w, O)
  BY <1>5, <1>8, <1>9, OverJoin
<1>12. SumOver(w, Q \cup R) = SumOver(w, Q) + SumOver(w, R)
  BY <1>5, <1>8, <1>9, <1>10, OverJoin
<1>13. SumOver(w, Q) \in Nat /\ SumOver(w, R) \in Nat /\ SumOver(w, P) \in Nat /\ SumOver(w, O) \in Nat
  BY <1>5, <1>8, <1>9, <1>10, OverNat
<1>14. s.total_opt_in = 0
  BY <1>3, <1>4, <1>9, OverNone
<1>15. s.total_reclaimable = SumOver(w, Q)
  BY <1>3, <1>4
<1>16. SumOver(w, Q) + SumOver(w, R) = SumOver(w, P) + SumOver(w, O)
  BY <1>10, <1>11, <1>12
<1>17. s.total_reclaimable <= r.total_reclaimable + r.total_opt_in
  BY <1>3, <1>13, <1>15, <1>16
<1>18. c.min_age_days = 0 => s.total_reclaimable = r.total_reclaimable + r.total_opt_in
  BY <1>3, <1>9, <1>11, <1>15
<1> QED
  BY <1>14, <1>17, <1>18

-----------------------------------------------------------------------------
(* How far a call has come through its listing, item by item.              *)
As(c, reason) == IF reason # "ok" THEN reason ELSE IF c.apply THEN "deleted" ELSE "dry-run"

(* What matters of an item to the totals is what the disk has to say.      *)
Renders(disk, c, h, it, x) ==
    \A reason \in {"needs a flag", "ok"} :
        /\ it.reason = As(c, reason) <=> ReasonAt(disk, c, h, x) = reason
        /\ ReasonAt(disk, c, h, x) = reason => it.bytes = Sized(disk, x)

Judging(disk, c, h, its, list) ==
    /\ Weighed(disk, c, h)
    /\ Len(its) + Len(list) = Len(Listing(disk, c, h))
    /\ \A j \in 1 .. Len(list) : list[j] = Listing(disk, c, h)[Len(its) + j]
    /\ \A i \in 1 .. Len(its) : Renders(disk, c, h, its[i], Listing(disk, c, h)[i])

Summed(disk, c, h, its) ==
    /\ Weighed(disk, c, h)
    /\ Total(its, Because(its, "needs a flag")) = Share(disk, c, h, "needs a flag")
    /\ Total(its, Because(its, As(c, "ok"))) = Share(disk, c, h, "ok")

LEMMA ResolveLists ==
    ASSUME IInv, Resolve
    PROVE  /\ Weighed(before, cfg, home) /\ kept' = Listing(before, cfg, home)
           /\ kept' \in Seq(Candidate)
<1> DEFINE found == Candidates(before, cfg, home)
           L     == Listing(before, cfg, home)
<1>1. Asked /\ fs = before /\ WellFormed(before) /\ cfg \in Config /\ kept' = Listing(fs, cfg, home)
  BY DEF Resolve, IInv, Phases, Basics
<1>2. Sortable(found)
  BY <1>1, CandidatesAre DEF Asked
<1>3. L = dedupe_nested(found)
  BY DEF Listing
<1>4. Sortable(found) /\ L = dedupe_nested(found) /\ kept' = L
  BY <1>1, <1>2, <1>3
<1>5. \A x \in found : x.target_idx \in Considered(cfg)
  BY FoundConsidered
<1> HIDE DEF found, L
<1>6. L \in Seq(found)
  BY <1>4, DedupeKeeps DEF Outer
<1>7. IInv'
  BY ResolveKeeps
<1>8. kept' \in Seq(Candidate)
  BY <1>7 DEF IInv, Phases
<1>9. ASSUME NEW i \in 1 .. Len(L) PROVE Sized(before, L[i]) \in Nat /\ L[i].target_idx \in Considered(cfg)
  <2>1. L[i] \in found /\ L[i] \in Candidate
    BY <1>4, <1>6, <1>8, ElementType
  <2>2. L[i].path \in Path
    BY <2>1 DEF Candidate
  <2>3. size_path(before, L[i].path).bytes \in Nat
    BY <1>1, <2>2, SizeIs
  <2> QED
    BY <1>5, <2>1, <2>3 DEF Sized
<1> QED
  BY <1>4, <1>8, <1>9 DEF Weighed, L

LEMMA ListedFirst ==
    ASSUME NEW its, its = << >>, NEW disk, NEW c, NEW h, Weighed(disk, c, h), NEW list,
           list \in Seq(Candidate), list = Listing(disk, c, h)
    PROVE  Judging(disk, c, h, its, list)
<1> DEFINE n == Len(list)
<1>1. Len(its) = 0 /\ n \in Nat
  OBVIOUS
<1>2. \A j \in 1 .. n : 0 + j = j
  BY <1>1
<1>3. 0 + n = n /\ \A i : i \notin 1 .. 0
  BY <1>1
<1> HIDE DEF n
<1> QED
  BY <1>1, <1>2, <1>3 DEF Judging, n

LEMMA JudgedOn ==
    ASSUME IInv, Judging(before, cfg, home, items, kept), kept # << >>, NEW it, Added(it),
           kept' = Tail(kept), Renders(before, cfg, home, it, Head(kept))
    PROVE  Judging(before, cfg, home, items', kept')
<1> DEFINE L == Listing(before, cfg, home)
           m == Len(items)
           l == Len(kept)
<1>1. kept \in Seq(Candidate)
  BY DEF IInv, Phases
<1>2. /\ l \in Nat /\ l > 0 /\ Head(kept) = kept[1] /\ Len(kept') = l - 1
      /\ \A j \in 1 .. l - 1 : kept'[j] = kept[j + 1]
  BY <1>1
<1>3. /\ m \in Nat /\ Len(items') = m + 1 /\ items'[m + 1] = it
      /\ \A i \in 1 .. m : items'[i] = items[i]
      /\ \A i \in 1 .. m + 1 : i \in 1 .. m \/ i = m + 1
  BY AddedIs
<1>4. /\ Weighed(before, cfg, home) /\ m + l = Len(L)
      /\ \A j \in 1 .. l : kept[j] = L[m + j]
      /\ \A i \in 1 .. m : Renders(before, cfg, home, items[i], L[i])
  BY DEF Judging
<1> HIDE DEF L, m, l
<1>5. kept[1] = L[m + 1]
  BY <1>2, <1>4
<1>6. m + 1 + (l - 1) = Len(L)
  <2>1. m + 1 + (l - 1) = m + l
    BY <1>2, <1>3
  <2> QED
    BY <1>4, <2>1
<1>7. ASSUME NEW j \in 1 .. l - 1 PROVE kept'[j] = L[m + 1 + j]
  <2>1. j + 1 \in 1 .. l /\ m + (j + 1) = m + 1 + j
    BY <1>2, <1>3
  <2>2. kept[j + 1] = L[m + (j + 1)]
    BY <1>4, <2>1
  <2> QED
    BY <1>2, <2>1, <2>2
<1>8. ASSUME NEW i \in 1 .. m + 1 PROVE Renders(before, cfg, home, items'[i], L[i])
  BY <1>2, <1>3, <1>4, <1>5
<1> QED
  BY <1>2, <1>3, <1>4, <1>6, <1>7, <1>8 DEF Judging, L, m, l

LEMMA ListingSummed ==
    ASSUME NEW its \in Seq(ItemSet), NEW disk, NEW c, NEW h, NEW list, list = << >>,
           Judging(disk, c, h, its, list)
    PROVE  Summed(disk, c, h, its)
<1> DEFINE L == Listing(disk, c, h)
           n == Len(its)
<1>1. Len(list) = 0 /\ n \in Nat /\ DOMAIN its = 1 .. n
  OBVIOUS
<1>2. /\ Weighed(disk, c, h) /\ n = Len(L)
      /\ \A i \in 1 .. n : Renders(disk, c, h, its[i], L[i])
  BY <1>1 DEF Judging
<1> HIDE DEF L, n
<1>4. ASSUME NEW reason \in {"needs a flag", "ok"}
      PROVE  Total(its, Because(its, As(c, reason))) = Share(disk, c, h, reason)
  <2>1. Because(its, As(c, reason)) = Those(disk, c, h, reason)
    <3>1. \A i \in 1 .. n : its[i].reason = As(c, reason) <=> ReasonAt(disk, c, h, L[i]) = reason
      BY <1>2, <1>4 DEF Renders
    <3>2. Because(its, As(c, reason)) = {i \in 1 .. n : its[i].reason = As(c, reason)}
      BY <1>1 DEF Because
    <3>3. Those(disk, c, h, reason) = {i \in 1 .. n : ReasonAt(disk, c, h, L[i]) = reason}
      BY <1>2 DEF Those, L
    <3> QED
      BY <3>1, <3>2, <3>3
  <2> DEFINE T == Those(disk, c, h, reason)
             w == Sizes(disk, c, h)
  <2>2. T \subseteq 1 .. n
    BY <1>2 DEF Those, L
  <2>3. w = [i \in 1 .. n |-> Sized(disk, L[i])]
    BY <1>2 DEF Sizes, L
  <2> HIDE DEF T, w
  <2>4. \A i \in T : its[i].bytes = Sized(disk, L[i])
    <3>1. \A i \in T : i \in 1 .. n /\ ReasonAt(disk, c, h, L[i]) = reason
      BY <1>2 DEF T, Those, L
    <3> QED
      BY <1>2, <1>4, <3>1 DEF Renders
  <2>5. [i \in T |-> its[i].bytes] = [i \in T |-> w[i]]
    BY <2>2, <2>3, <2>4
  <2>6. Total(its, T) = SumOver(w, T)
    BY <2>5 DEF Total, SumOver
  <2> QED
    BY <2>1, <2>6 DEF Share, T, w
<1>5. As(c, "needs a flag") = "needs a flag"
  BY DEF As
<1> QED
  BY <1>2, <1>4, <1>5 DEF Summed

(* What the rest of a dry run does with it.                                *)
LEMMA RetainSummed ==
    ASSUME IInv, Retain, Judging(before, cfg, home, items, kept)
    PROVE  Summed(before, cfg, home, items')
<1> DEFINE stays == {n \in DOMAIN items : ~(Matched(items[n].id) /\ items[n].reason = "missing")}
<1>1. items' = Retained(stays) /\ kept = << >> /\ items \in Seq(ItemSet)
  BY DEF Retain, IInv, Reported
<1>2. Summed(before, cfg, home, items)
  BY <1>1, ListingSummed
<1>3. \A i \in 1 .. Len(items) : items[i].reason # "missing" => i \in stays
  <2>1. DOMAIN items = 1 .. Len(items)
    BY <1>1
  <2> QED
    BY <2>1
<1> HIDE DEF stays
<1>4. ASSUME NEW reason, reason # "missing"
      PROVE  Total(items', Because(items', reason)) = Total(items, Because(items, reason))
  <2>1. \A i \in 1 .. Len(items) : items[i].reason = reason => i \in stays
    BY <1>3, <1>4
  <2> QED
    BY <1>1, <2>1, RetainedTotal
<1>5. As(cfg, "ok") # "missing"
  BY DEF As
<1> QED
  BY <1>2, <1>4, <1>5 DEF Summed

Marked(its) ==
    \A i \in DOMAIN its : /\ its[i].verdict = "reclaimable" <=> its[i].reason = "dry-run"
                          /\ its[i].reason # "deleted"

LEMMA AddedMarked ==
    ASSUME Marked(items), NEW it, Added(it), it.verdict = "reclaimable" <=> it.reason = "dry-run",
           it.reason # "deleted"
    PROVE  Marked(items')
<1>1. /\ DOMAIN items = 1 .. Len(items) /\ DOMAIN items' = 1 .. Len(items) + 1
      /\ items'[Len(items) + 1] = it
      /\ \A i \in 1 .. Len(items) : items'[i] = items[i]
      /\ \A i \in 1 .. Len(items) + 1 : i \in 1 .. Len(items) \/ i = Len(items) + 1
  BY AddedIs
<1> QED
  BY <1>1 DEF Marked

LEMMA AddedSummed ==
    ASSUME NEW disk, NEW c, NEW h, Summed(disk, c, h, items), NEW it, Added(it), it.bytes = 0
    PROVE  Summed(disk, c, h, items')
<1>1. ASSUME NEW reason PROVE Total(items', Because(items', reason)) = Total(items, Because(items, reason))
  <2>1. /\ Total(items, Because(items, reason)) \in Nat
        /\ Total(items', Because(items', reason)) =
               Total(items, Because(items, reason)) + (IF it.reason = reason THEN it.bytes ELSE 0)
    BY AddedTotal
  <2>2. (IF it.reason = reason THEN it.bytes ELSE 0) = 0
    OBVIOUS
  <2> DEFINE t == Total(items, Because(items, reason))
  <2>3. t + 0 = t
    BY <2>1, PlusZero
  <2> QED
    BY <2>1, <2>2, <2>3
<1> QED
  BY <1>1 DEF Summed

(* A delegated cleanup is listed without bytes.                            *)
LEMMA ExternalAdded ==
    ASSUME IInv, handle_external
    PROVE  \E it : /\ Added(it) /\ it.bytes = 0 /\ it.reason \notin {"deleted", "delete failed"}
                   /\ ~cfg.apply => (it.verdict = "reclaimable" <=> it.reason = "dry-run")
<1> DEFINE next          == Min(delegated)
           t             == catalog[next]
           it(v, reason) == [id |-> t.id, tier |-> t.tier, path |-> Nowhere,
                             verdict |-> v, reason |-> reason, bytes |-> 0]
           told(v, reason) == /\ v \in {"reclaimable", "skipped"}
                              /\ reason \in {"not installed", "dry-run", "ran", "command failed"}
                              /\ ~cfg.apply => (v = "reclaimable" <=> reason = "dry-run")
<1>1. \E v, reason : told(v, reason) /\ items' = Append(items, it(v, reason))
  BY DEF handle_external
<1>2. PICK v, reason : told(v, reason) /\ items' = Append(items, it(v, reason))
  BY <1>1
<1> DEFINE new == it(v, reason)
<1>3. next \in DOMAIN catalog
  <2>1. delegated # {} /\ delegated \in SUBSET Nat /\ delegated \subseteq DOMAIN catalog
    BY CatalogIs DEF IInv, Basics, handle_external
  <2> QED
    BY <2>1, MinOf
<1> HIDE DEF next
<1>4. new \in ItemSet
  <2>1. Nowhere \in Path
    BY EmptyList DEF Nowhere, Path
  <2> QED
    BY <1>2, <1>3, <2>1 DEF ItemSet, Reasons
<1>5. /\ new.bytes = 0 /\ new.reason \notin {"deleted", "delete failed"}
      /\ ~cfg.apply => (new.verdict = "reclaimable" <=> new.reason = "dry-run")
  BY <1>2
<1>6. Added(new)
  BY <1>2, <1>4 DEF Added, IInv, Reported
<1> HIDE DEF new
<1> QED
  BY <1>5, <1>6

(* The invariant: a dry run leaves the disk alone, keeps pace with its     *)
(* listing, and its report is of the disk the next call finds.             *)
Dry     == pc # "called" /\ ~cfg.apply

LastTold(reps, disk) == reps # << >> /\ ~reps[Len(reps)].cfg.apply => Told(reps[Len(reps)], disk)

OInv == /\ PInv /\ OptInAdds
        /\ pc = "resolve" => items = << >>
        /\ Dry => fs = before /\ Marked(items)
        /\ Dry /\ pc = "judge" => Judging(before, cfg, home, items, kept)
        /\ Dry /\ pc = "delegate" => Summed(before, cfg, home, items)
        /\ LastTold(reports, Between)

(* All of it that a step with no report has to show.                       *)
StepOn == /\ pc' = "resolve" => items' = << >>
          /\ Dry' => fs' = before' /\ Marked(items')
          /\ Dry' /\ pc' = "judge" => Judging(before', cfg', home', items', kept')
          /\ Dry' /\ pc' = "delegate" => Summed(before', cfg', home', items')

LEMMA Unreported ==
    ASSUME OInv, PInv', reports' = reports, Between' = Between, StepOn
    PROVE  OInv'
<1>1. OptInAdds'
  BY DEF OInv, OptInAdds
<1>2. LastTold(reports', Between')
  BY DEF OInv
<1> QED
  BY <1>1, <1>2 DEF OInv, StepOn

LEMMA CallOn == ASSUME OInv, Call PROVE reports' = reports /\ Between' = Between /\ StepOn
<1>1. /\ pc = "called" /\ before' = fs /\ fs' = fs /\ items' = << >> /\ reports' = reports
      /\ pc' \in {"called", "resolve"}
  BY DEF Call
<1>2. Marked(items')
  BY <1>1 DEF Marked
<1> QED
  BY <1>1, <1>2 DEF Between, StepOn

LEMMA ResolveOn == ASSUME OInv, Resolve PROVE reports' = reports /\ Between' = Between /\ StepOn
<1>1. /\ pc = "resolve" /\ pc' = "judge" /\ UNCHANGED call /\ fs' = fs /\ items' = items
      /\ reports' = reports
  BY DEF Resolve
<1>2. IInv /\ items = << >> /\ (Dry => fs = before /\ Marked(items))
  BY <1>1 DEF OInv, PInv
<1>3. before' = before /\ cfg' = cfg /\ home' = home
  BY <1>1, SameCall
<1>4. Judging(before, cfg, home, items, kept')
  BY <1>2, ResolveLists, ListedFirst
<1>5. Dry' <=> Dry
  BY <1>1, <1>3 DEF Dry
<1>6. Judging(before', cfg', home', items', kept')
  BY <1>1, <1>3, <1>4
<1> QED
  BY <1>1, <1>2, <1>3, <1>5, <1>6 DEF Between, StepOn

LEMMA JudgedStep ==
    ASSUME OInv, pc = "judge", kept # << >>, NEW reason \in Reasons, Judged(Item(Head(kept), reason)),
           fs' = fs, ~cfg.apply => reason = As(cfg, Reason(Head(kept)))
    PROVE  reports' = reports /\ Between' = Between /\ StepOn
<1> DEFINE c  == Head(kept)
           it == Item(c, reason)
<1>1. IInv /\ pc' = pc /\ UNCHANGED call /\ reports' = reports /\ kept' = Tail(kept)
  BY DEF OInv, PInv, Judged
<1>2. before' = before /\ cfg' = cfg /\ home' = home
  BY <1>1, SameCall
<1>3. it \in ItemSet /\ it.reason = reason /\ it.verdict = Verdict(reason) /\ it.bytes = Sized(fs, c)
  BY <1>1, HeadIs, ItemType DEF IInv, Basics, Item
<1>4. Added(it)
  BY <1>1, <1>3 DEF Judged, Added, IInv, Reported
<1>5. CASE cfg.apply
  BY <1>1, <1>2, <1>5 DEF Between, StepOn, Dry
<1>6. CASE ~cfg.apply
  <2>1. fs = before /\ Marked(items) /\ Judging(before, cfg, home, items, kept)
    BY <1>6 DEF OInv, Dry
  <2>2. reason = As(cfg, ReasonAt(before, cfg, home, c))
    BY <1>6, <2>1 DEF Reason
  <2>3. reason # "deleted" /\ (Verdict(reason) = "reclaimable" <=> reason = "dry-run")
    <3>1. ReasonAt(before, cfg, home, c) # "deleted"
      BY ReasonAtIs
    <3>2. reason # "deleted"
      BY <1>6, <2>2, <3>1 DEF As
    <3> QED
      BY <3>2 DEF Verdict
  <2> HIDE DEF it
  <2>4. Marked(items')
    BY <1>3, <1>4, <2>1, <2>3, AddedMarked
  <2>5. Renders(before, cfg, home, it, c)
    <3>1. it.reason = As(cfg, ReasonAt(before, cfg, home, c)) /\ it.bytes = Sized(before, c)
      BY <1>3, <2>1, <2>2
    <3> HIDE DEF c
    <3> QED
      BY <3>1, ReasonAtIs DEF Renders, As
  <2>6. Judging(before, cfg, home, items', kept')
    BY <1>1, <1>4, <2>1, <2>5, JudgedOn
  <2>7. Judging(before', cfg', home', items', kept')
    BY <1>2, <2>6
  <2> QED
    BY <1>1, <1>2, <2>1, <2>4, <2>7 DEF Between, StepOn
<1> QED
  BY <1>5, <1>6

LEMMA SkipOn == ASSUME OInv, Skip \/ WouldDelete PROVE reports' = reports /\ Between' = Between /\ StepOn
<1>1. CASE Skip
  <2> DEFINE reason == Reason(Head(kept))
  <2>1. pc = "judge" /\ kept # << >> /\ reason # "ok" /\ Judged(Item(Head(kept), reason)) /\ fs' = fs
    BY <1>1 DEF Skip
  <2>2. reason \in {"protected", "outside root", "missing", "in use", "needs a flag", "too new", "ok"}
    BY ReasonIs
  <2>3. reason = As(cfg, Reason(Head(kept)))
    BY <2>1 DEF As
  <2> HIDE DEF reason
  <2>4. reason \in Reasons
    BY <2>1, <2>2 DEF Reasons
  <2> QED
    BY <2>1, <2>3, <2>4, JudgedStep
<1>2. CASE WouldDelete
  <2>1. /\ pc = "judge" /\ kept # << >> /\ Reason(Head(kept)) = "ok" /\ ~cfg.apply /\ fs' = fs
        /\ Judged(Item(Head(kept), "dry-run"))
    BY <1>2 DEF WouldDelete
  <2>2. "dry-run" \in Reasons /\ "dry-run" = As(cfg, Reason(Head(kept)))
    BY <2>1 DEF Reasons, As
  <2> QED
    BY <2>1, <2>2, JudgedStep
<1> QED
  BY <1>1, <1>2

LEMMA DeleteOn == ASSUME OInv, Delete PROVE reports' = reports /\ Between' = Between /\ StepOn
<1>1. pc = "judge" /\ pc' = pc /\ UNCHANGED call /\ reports' = reports /\ cfg.apply
  BY DEF Delete, Judged
<1>2. before' = before /\ cfg' = cfg
  BY <1>1, SameCall
<1> QED
  BY <1>1, <1>2 DEF Between, StepOn, Dry

LEMMA RetainOn == ASSUME OInv, Retain PROVE reports' = reports /\ Between' = Between /\ StepOn
<1> DEFINE stays == {n \in DOMAIN items : ~(Matched(items[n].id) /\ items[n].reason = "missing")}
<1>1. /\ pc = "judge" /\ pc' = "delegate" /\ UNCHANGED call /\ fs' = fs /\ reports' = reports
      /\ items' = Retained(stays)
  BY DEF Retain
<1>2. before' = before /\ cfg' = cfg /\ home' = home
  BY <1>1, SameCall
<1>3. CASE cfg.apply
  BY <1>1, <1>2, <1>3 DEF Between, StepOn, Dry
<1>4. CASE ~cfg.apply
  <2>1. IInv /\ fs = before /\ Marked(items) /\ Judging(before, cfg, home, items, kept)
    BY <1>1, <1>4 DEF OInv, PInv, Dry
  <2>2. Summed(before, cfg, home, items')
    BY <2>1, RetainSummed
  <2>3. items \in Seq(ItemSet) /\ DOMAIN items = 1 .. Len(items)
    BY <2>1, Indexes DEF IInv, Reported
  <2> HIDE DEF stays
  <2>4. Picks(ItemSet, items', stays, Len(items))
    BY <1>1, <2>3, RetainedIs
  <2>5. /\ items' \in Seq(ItemSet)
        /\ \A i \in 1 .. Len(items') : \E l \in 1 .. Len(items) : items'[i] = items[l]
    BY <2>4 DEF Picks
  <2>6. DOMAIN items' = 1 .. Len(items')
    BY <2>5
  <2>7. Marked(items')
    BY <2>1, <2>3, <2>5, <2>6 DEF Marked
  <2> QED
    BY <1>1, <1>2, <2>1, <2>2, <2>7 DEF Between, StepOn
<1> QED
  BY <1>3, <1>4

LEMMA ExternalOn == ASSUME OInv, handle_external PROVE reports' = reports /\ Between' = Between /\ StepOn
<1>1. pc = "delegate" /\ pc' = pc /\ UNCHANGED call /\ fs' = fs /\ reports' = reports
  BY DEF handle_external
<1>2. before' = before /\ cfg' = cfg /\ home' = home
  BY <1>1, SameCall
<1>3. CASE cfg.apply
  BY <1>1, <1>2, <1>3 DEF Between, StepOn, Dry
<1>4. CASE ~cfg.apply
  <2>1. IInv /\ fs = before /\ Marked(items) /\ Summed(before, cfg, home, items)
    BY <1>1, <1>4 DEF OInv, PInv, Dry
  <2>2. PICK it : /\ Added(it) /\ it.bytes = 0 /\ it.reason \notin {"deleted", "delete failed"}
                  /\ it.verdict = "reclaimable" <=> it.reason = "dry-run"
    BY <1>4, <2>1, ExternalAdded
  <2>3. Marked(items')
    BY <2>1, <2>2, AddedMarked
  <2>4. Summed(before, cfg, home, items')
    BY <2>1, <2>2, AddedSummed
  <2>5. Summed(before', cfg', home', items')
    BY <1>2, <2>4
  <2> QED
    BY <1>1, <1>2, <2>1, <2>3, <2>5 DEF Between, StepOn
<1> QED
  BY <1>3, <1>4

LEMMA Appended ==
    ASSUME NEW S, NEW s \in Seq(S), NEW x
    PROVE  /\ Len(Append(s, x)) = Len(s) + 1 /\ Append(s, x)[Len(s) + 1] = x /\ Append(s, x) # << >>
           /\ \A i \in 1 .. Len(s) : Append(s, x)[i] = s[i]
           /\ \A n \in 2 .. Len(s) + 1 : n \in 2 .. Len(s) \/ n = Len(s) + 1
           /\ \A n \in 2 .. Len(s) : n \in 1 .. Len(s) /\ n - 1 \in 1 .. Len(s)
           /\ \A n \in 2 .. Len(s) + 1 : n = Len(s) + 1 =>
                  n - 1 = Len(s) /\ n - 1 \in 1 .. Len(s) /\ s # << >>
  OBVIOUS

LEMMA Indexed == ASSUME NEW S, NEW s \in Seq(S), NEW i \in 1 .. Len(s) PROVE s[i] \in S
  OBVIOUS

(* What OptInAdds says of a report and the next.                           *)
Adds(r, s) ==
    /\ r.home = s.home /\ ~r.cfg.apply /\ ~r.cfg.include_vm_disks
    /\ s.cfg = [r.cfg EXCEPT !.include_vm_disks = TRUE]
    => /\ s.total_opt_in = 0
       /\ s.total_reclaimable <= r.total_reclaimable + r.total_opt_in
       /\ r.cfg.min_age_days = 0 => s.total_reclaimable = r.total_reclaimable + r.total_opt_in

LEMMA AddsOf ==
    /\ OptInAdds <=> \A n \in 2 .. Len(reports) : Adds(reports[n - 1], reports[n])
    /\ OptInAdds' <=> \A n \in 2 .. Len(reports') : Adds(reports'[n - 1], reports'[n])
BY DEF OptInAdds, Adds

(* What the report says of a dry run; the next one is compared with it.    *)
LEMMA FinishOn == ASSUME OInv, PInv', Finish PROVE OInv'
<1> DEFINE d == Because(items, "deleted")
           o == Because(items, "needs a flag")
           v == {i \in DOMAIN items : items[i].verdict = "reclaimable"}
           r == [cfg |-> cfg, home |-> home, items |-> items,
                 total_reclaimable |-> Total(items, v \cup d),
                 total_opt_in      |-> Total(items, o),
                 total_deleted     |-> Total(items, d)]
<1>1. reports' = Append(reports, r) /\ fs' = fs /\ pc = "delegate" /\ pc' = "called"
  BY DEF Finish
<1>2. reports \in Seq(Report)
  BY DEF OInv, PInv
<1>3. /\ r.cfg = cfg /\ r.home = home /\ r.total_reclaimable = Total(items, v \cup d)
      /\ r.total_opt_in = Total(items, o)
  OBVIOUS
<1>4. ASSUME ~cfg.apply
      PROVE  Told(r, fs) /\ LastTold(reports, fs)
  <2>1. Dry /\ fs = before /\ Marked(items) /\ Summed(before, cfg, home, items) /\ LastTold(reports, before)
    BY <1>1, <1>4 DEF OInv, Dry, Between
  <2>2. v \cup d = Because(items, "dry-run")
    BY <2>1 DEF Marked, Because
  <2>3. As(cfg, "ok") = "dry-run"
    BY <1>4 DEF As
  <2> HIDE DEF r, v, d, o
  <2>4. r.total_reclaimable = Share(fs, r.cfg, r.home, "ok")
    BY <1>3, <2>1, <2>2, <2>3 DEF Summed
  <2>5. r.total_opt_in = Share(fs, r.cfg, r.home, "needs a flag")
    BY <1>3, <2>1 DEF Summed, o
  <2>6. Weighed(fs, r.cfg, r.home)
    BY <1>3, <2>1 DEF Summed
  <2> QED
    BY <2>1, <2>4, <2>5, <2>6 DEF Told
<1> HIDE DEF r, v, d, o
<1>5. /\ Len(reports') = Len(reports) + 1 /\ reports'[Len(reports) + 1] = r /\ reports' # << >>
      /\ \A i \in 1 .. Len(reports) : reports'[i] = reports[i]
      /\ \A n \in 2 .. Len(reports) + 1 : n \in 2 .. Len(reports) \/ n = Len(reports) + 1
      /\ \A n \in 2 .. Len(reports) : n \in 1 .. Len(reports) /\ n - 1 \in 1 .. Len(reports)
      /\ \A n \in 2 .. Len(reports) + 1 : n = Len(reports) + 1 =>
             n - 1 = Len(reports) /\ n - 1 \in 1 .. Len(reports) /\ reports # << >>
  BY <1>1, <1>2, Appended
<1>6. LastTold(reports', Between')
  BY <1>1, <1>3, <1>4, <1>5 DEF LastTold, Between
<1>7. ASSUME NEW n \in 2 .. Len(reports') PROVE Adds(reports'[n - 1], reports'[n])
  <2>1. n \in 2 .. Len(reports) + 1
    BY <1>5
  <2>2. CASE n \in 2 .. Len(reports)
    <3>1. reports'[n] = reports[n] /\ reports'[n - 1] = reports[n - 1]
      BY <1>5, <2>2
    <3>2. Adds(reports[n - 1], reports[n])
      BY <2>2, AddsOf DEF OInv
    <3> QED
      BY <3>1, <3>2
  <2>3. CASE n = Len(reports) + 1
    <3> DEFINE q == reports[Len(reports)]
    <3>1. /\ n - 1 = Len(reports) /\ Len(reports) \in 1 .. Len(reports) /\ reports # << >>
          /\ reports'[n] = r /\ reports'[n - 1] = q
      BY <1>5, <2>1, <2>3
    <3>2. q \in Report
      BY <1>2, <3>1, Indexed
    <3>3. q.cfg \in Config
      BY <3>2 DEF Report
    <3> HIDE DEF q
    <3>4. ASSUME r.home = q.home, ~q.cfg.apply, Opens(q.cfg, r.cfg)
          PROVE  /\ r.total_opt_in = 0
                 /\ r.total_reclaimable <= q.total_reclaimable + q.total_opt_in
                 /\ q.cfg.min_age_days = 0 =>
                        r.total_reclaimable = q.total_reclaimable + q.total_opt_in
      <4>1. ~r.cfg.apply
        BY <3>3, <3>4, VmDisksConsidered
      <4>2. Told(r, fs) /\ LastTold(reports, fs)
        BY <1>3, <1>4, <4>1
      <4>3. Told(q, fs)
        BY <3>1, <3>4, <4>2 DEF LastTold, q
      <4> QED
        BY <3>3, <3>4, <4>2, <4>3, TwoTold
    <3>5. Adds(q, r)
      BY <3>4 DEF Adds, Opens
    <3> QED
      BY <3>1, <3>5
  <2> QED
    BY <2>1, <2>2, <2>3, <1>5
<1>8. OptInAdds'
  BY <1>7, AddsOf
<1> QED
  BY <1>1, <1>6, <1>8 DEF OInv, Dry

LEMMA NextAdds == ASSUME OInv, [Next]_vars PROVE OInv'
<1>1. PInv'
  BY NextPrints DEF OInv
<1>2. CASE UNCHANGED vars
  <2>1. /\ pc' = pc /\ items' = items /\ kept' = kept /\ fs' = fs /\ reports' = reports /\ UNCHANGED call
    BY <1>2 DEF vars
  <2>2. before' = before /\ cfg' = cfg /\ home' = home
    BY <2>1, SameCall
  <2>3. StepOn /\ Between' = Between
    BY <2>1, <2>2 DEF OInv, StepOn, Dry, Between
  <2> QED
    BY <1>1, <2>1, <2>3, Unreported
<1>3. CASE Call
  BY <1>1, <1>3, CallOn, Unreported
<1>4. CASE Resolve
  BY <1>1, <1>4, ResolveOn, Unreported
<1>5. CASE Skip \/ WouldDelete
  BY <1>1, <1>5, SkipOn, Unreported
<1>6. CASE Delete
  BY <1>1, <1>6, DeleteOn, Unreported
<1>7. CASE Retain
  BY <1>1, <1>7, RetainOn, Unreported
<1>8. CASE handle_external
  BY <1>1, <1>8, ExternalOn, Unreported
<1>9. CASE Finish
  BY <1>1, <1>9, FinishOn
<1> QED
  BY <1>2, <1>3, <1>4, <1>5, <1>6, <1>7, <1>8, <1>9 DEF Next

(* For every disk, catalog and configuration: after a dry run, one with    *)
(* the flag that opens what was held back (total_opt_in, push_item) holds  *)
(* nothing back, and counts all of that besides what was counted already,  *)
(* less what the age gate keeps once it is asked (deletable, too_new).     *)
THEOREM FlagAddsWhatWasHeld == Spec => []OptInAdds
<1>1. Init => OInv
  <2> SUFFICES ASSUME Init PROVE OInv
    OBVIOUS
  <2>1. items = << >> /\ reports = << >> /\ pc = "called"
    BY DEF Init
  <2>2. AllFit(cfg, items) /\ reports \in Seq(Report) /\ DOMAIN reports = {} /\ Len(reports) = 0
    BY <2>1 DEF AllFit
  <2>3. PInv
    BY <2>2, InitKeeps DEF PInv
  <2>4. OptInAdds
    BY <2>2 DEF OptInAdds
  <2> QED
    BY <2>1, <2>3, <2>4 DEF OInv, Dry, LastTold
<1>2. OInv /\ [Next]_vars => OInv'
  BY NextAdds
<1>3. OInv => OptInAdds
  BY DEF OInv
<1> QED
  BY <1>1, <1>2, <1>3, PTL DEF Spec

-----------------------------------------------------------------------------
(* What stays whole on a disk looks as it did: the walk to it, its size,   *)
(* its locks and where it is.                                              *)
Unlinked(disk, q, i) == i < Len(q) \/ disk[q].type # "link"

LEMMA WalkKept ==
    ASSUME NEW disk, WellFormed(disk), NEW old, WellFormed(old), Remains(disk, old),
           NEW q \in DOMAIN disk, NEW i \in 1 .. Len(q), Unlinked(disk, q, i)
    PROVE  LET r == SubSeq(q, 1, i)
           IN  /\ WalkFrom(disk, Here(disk), r) = WalkFrom(old, Here(old), r)
               /\ WalkFrom(disk, Here(disk), r) \in {r, Nowhere}
<1> DEFINE n == Len(q)
           r(m) == SubSeq(q, 1, m)
           new(p) == WalkFrom(disk, Here(disk), p)
           was(p) == WalkFrom(old, Here(old), p)
           A == {k \in Nat : k + 1 \in 1 .. n /\ Unlinked(disk, q, k + 1) =>
                     new(r(k + 1)) = was(r(k + 1)) /\ new(r(k + 1)) \in {r(k + 1), Nowhere}}
<1>1. q \in Path /\ n \in Nat /\ DOMAIN disk \subseteq DOMAIN old
  BY WellFormedParts DEF Path, Remains
<1>2. Here(disk) \in Places(disk) /\ Here(old) \in Places(old)
  BY HereStays
<1>3. \A p \in Path : \A c : /\ new(Append(p, c)) = Step(disk, new(p), c)
                             /\ was(Append(p, c)) = Step(old, was(p), c)
  <2> SUFFICES ASSUME NEW p \in Path, NEW c
               PROVE  /\ new(Append(p, c)) = Step(disk, new(p), c)
                      /\ was(Append(p, c)) = Step(old, was(p), c)
    OBVIOUS
  <2>1. WalkFrom(disk, Here(disk), Append(p, c)) = Step(disk, WalkFrom(disk, Here(disk), p), c)
    BY <1>2, WalkAppend
  <2>2. WalkFrom(old, Here(old), Append(p, c)) = Step(old, WalkFrom(old, Here(old), p), c)
    BY <1>2, WalkAppend
  <2> QED
    BY <2>1, <2>2
<1>4. \A m \in 1 .. n : r(m) \in DOMAIN disk /\ Len(r(m)) = m
  <2>1. \A m \in 1 .. n : Len(r(m)) = m
    BY <1>1 DEF Path
  <2>2. \A m \in 1 .. n : SubSeq(q, 1, m) \in DOMAIN disk
    BY PrefixesExist
  <2> QED
    BY <2>1, <2>2
<1> HIDE DEF new, was
<1>5. 0 \in A
  <2> SUFFICES ASSUME 1 \in 1 .. n PROVE new(r(1)) = was(r(1)) /\ new(r(1)) \in {r(1), Nowhere}
    OBVIOUS
  <2>1. r(1) \in DOMAIN disk /\ Len(r(1)) = 1
    BY <1>4
  <2>2. r(1) = <<"/">>
    <3>1. \A x \in DOMAIN disk : Len(x) = 1 => x = <<"/">>
      <4> SUFFICES ASSUME NEW x \in DOMAIN disk, Len(x) = 1, x # <<"/">> PROVE FALSE
        OBVIOUS
      <4>1. Len(x) > 1
        BY WellFormedParts
      <4> QED
        BY <4>1
    <3> QED
      BY <2>1, <3>1
  <2>3. << >> \in Path /\ Append(<< >>, "/") = <<"/">>
    BY DEF Path
  <2>4. new(<<"/">>) = <<"/">> /\ was(<<"/">>) = <<"/">>
    BY <1>3, <2>3 DEF Step
  <2> HIDE DEF r
  <2> QED
    BY <2>2, <2>4
<1>6. ASSUME NEW k \in Nat, k \in A PROVE k + 1 \in A
  <2> DEFINE m == k + 1
  <2> SUFFICES ASSUME m + 1 \in 1 .. n, Unlinked(disk, q, m + 1)
               PROVE  new(r(m + 1)) = was(r(m + 1)) /\ new(r(m + 1)) \in {r(m + 1), Nowhere}
    OBVIOUS
  <2>1. m \in 1 .. n /\ m + 1 \in 1 .. n /\ m < n /\ m + 1 > 1 /\ Unlinked(disk, q, m)
    BY <1>1 DEF Unlinked
  <2>2. new(r(m)) = was(r(m)) /\ new(r(m)) \in {r(m), Nowhere}
    BY <1>6, <2>1
  <2> DEFINE c == q[m + 1]
  <2>3. r(m) \in Path /\ c \in Component /\ r(m + 1) = Append(r(m), c)
    BY <1>1, <2>1 DEF Path
  <2>4. r(m) \in DOMAIN disk /\ r(m) \in DOMAIN old /\ r(m + 1) \in DOMAIN disk /\ r(m + 1) \in DOMAIN old
    BY <1>1, <1>4, <2>1
  <2>5. c \notin Special
    BY <2>1, PrefixesExist
  <2>6. disk[r(m + 1)].type # "link"
    <3>1. CASE m + 1 < n
      <4>1. disk[SubSeq(q, 1, m + 1)].type = "dir"
        BY <2>1, <3>1, PrefixesExist
      <4>2. disk[r(m + 1)].type = "dir"
        BY <4>1
      <4> HIDE DEF r
      <4> QED
        BY <4>2
    <3>2. CASE m + 1 = n
      <4>1. SubSeq(q, 1, n) = q
        BY <1>1 DEF Path
      <4>2. ~(m + 1 < n) /\ r(m + 1) = q
        BY <1>1, <3>2, <4>1
      <4>3. m + 1 < n \/ disk[q].type # "link"
        BY DEF Unlinked
      <4> HIDE DEF r, m, n
      <4> QED
        BY <4>2, <4>3
    <3> QED
      BY <1>1, <2>1, <3>1, <3>2
  <2>7. r(m) # Nowhere
    BY <2>4, WellFormedParts
  <2>8. /\ new(r(m + 1)) = Step(disk, new(r(m)), c)
        /\ was(r(m + 1)) = Step(old, was(r(m)), c)
    BY <1>3, <2>3
  <2> DEFINE d == r(m)
             e == r(m + 1)
  <2> HIDE DEF c, d, e
  <2>9. /\ disk[d].mode = old[d].mode /\ old[e].type # "link" /\ e = Append(d, c)
        /\ d \in DOMAIN disk /\ e \in DOMAIN disk /\ e \in DOMAIN old /\ d # Nowhere
        /\ disk[e].type # "link"
    BY <2>3, <2>4, <2>6, <2>7 DEF Remains, d, e
  <2>10. Step(disk, d, c) = Step(old, d, c) /\ Step(disk, d, c) \in {e, Nowhere}
    BY <2>5, <2>9 DEF Step, Lookup, Special
  <2>11. Step(disk, Nowhere, c) = Nowhere /\ Step(old, Nowhere, c) = Nowhere
    BY <2>5 DEF Step, Special
  <2> QED
    BY <2>2, <2>8, <2>10, <2>11 DEF d, e
<1> HIDE DEF A
<1>7. Nat \subseteq A
  BY <1>5, <1>6, NatInduct
<1>8. i - 1 \in A /\ i - 1 + 1 = i
  BY <1>1, <1>7
<1> QED
  BY <1>8 DEF A, new, was

Untouched(disk, old, p) ==
    /\ p \in DOMAIN disk
    /\ \A r \in DOMAIN old : StartsWith(r, p) => r \in DOMAIN disk /\ disk[r] = old[r]

LEMMA EntryKept ==
    ASSUME NEW disk, WellFormed(disk), NEW old, WellFormed(old), Remains(disk, old),
           NEW p \in DOMAIN disk, HasName(p), Entry(old, p) = p
    PROVE  Entry(disk, p) = p
<1> DEFINE h == Parent(p)
           d == WalkFrom(old, Here(old), h)
<1>1. p \in Path /\ Len(p) \in Nat /\ p # Nowhere
  BY WellFormedParts DEF Path
<1>2. p # <<"/">>
  BY DEF HasName, Special, Last
<1>3. Len(p) > 1
  BY <1>2, WellFormedParts
<1>4. d # Nowhere /\ Append(d, Last(p)) = p /\ old[d].mode # "none"
  BY <1>1 DEF Entry
<1>5. h = SubSeq(p, 1, Len(p) - 1) /\ Len(p) - 1 \in 1 .. Len(p) /\ Len(p) - 1 < Len(p)
  BY <1>1, <1>3 DEF Parent, Front
<1>6. WalkFrom(disk, Here(disk), h) = d
  BY <1>5, WalkKept DEF Unlinked
<1>7. d \in DOMAIN disk
  <2>1. Here(disk) \in Places(disk) /\ h \in Path
    BY <1>1, HereStays, ParentPath
  <2>2. WalkFrom(disk, Here(disk), h) \in Places(disk)
    BY <2>1, WalkStays
  <2> QED
    BY <1>4, <1>6, <2>2 DEF Places
<1>8. disk[d].mode # "none"
  BY <1>4, <1>7 DEF Remains
<1> HIDE DEF h, d
<1> QED
  BY <1>4, <1>6, <1>8 DEF Entry, h

LEMMA SizeKept ==
    ASSUME NEW disk, WellFormed(disk), NEW old, WellFormed(old), Remains(disk, old),
           NEW p, Untouched(disk, old, p), Entry(disk, p) = p, Entry(old, p) = p
    PROVE  size_path(disk, p) = size_path(old, p)
<1>1. p \in DOMAIN disk /\ p \in Path /\ Len(p) \in Nat /\ Len(p) > 0 /\ p # Nowhere
      /\ DOMAIN disk \subseteq DOMAIN old
  BY WellFormedParts DEF Untouched, Path, Remains, Nowhere
<1>2. Tree(disk, p) = Tree(old, p)
  BY <1>1 DEF Tree, Untouched
<1>3. ASSUME NEW r \in Tree(disk, p), NEW i \in Len(p) .. Len(r) - 1
      PROVE  disk[SubSeq(r, 1, i)].mode = old[SubSeq(r, 1, i)].mode
  <2>1. r \in DOMAIN disk /\ r \in Path /\ Len(r) \in Nat
    BY WellFormedParts DEF Tree, Path
  <2>2. i \in 1 .. Len(r)
    BY <1>1, <2>1
  <2>3. SubSeq(r, 1, i) \in DOMAIN disk
    BY <2>1, <2>2, PrefixesExist
  <2> QED
    BY <2>3 DEF Remains
<1>4. Readable(disk, p) = Readable(old, p)
  BY <1>2, <1>3 DEF Readable
<1>5. \A r \in Readable(disk, p) : disk[r] = old[r]
  BY <1>2 DEF Readable, Tree, Untouched
<1> DEFINE C == Counted(disk, p)
<1>6. C = Counted(old, p) /\ C \subseteq Readable(disk, p)
  BY <1>4, <1>5 DEF Counted
<1> HIDE DEF C
<1> DEFINE f(dk) == [r \in C |-> IF r = p THEN dk[r].alloc ELSE dk[r].len]
           t(dk) == {dk[r].mtime : r \in C}
<1>7. f(disk) = f(old) /\ t(disk) = t(old)
  BY <1>5, <1>6
<1>8. /\ size_path(disk, p) = [bytes |-> SumFunction(f(disk)), newest |-> Max({0} \cup t(disk))]
      /\ size_path(old, p) = [bytes |-> SumFunction(f(old)), newest |-> Max({0} \cup t(old))]
  BY <1>6 DEF size_path, Counted, C
<1> QED
  BY <1>7, <1>8

LEMMA LocksKept ==
    ASSUME NEW disk, WellFormed(disk), NEW old, WellFormed(old), Remains(disk, old),
           NEW p, Untouched(disk, old, p), disk[p].type # "link",
           \A q \in DOMAIN disk : disk[q].type = "link" => Last(q) \notin LockNames, NEW now
    PROVE  /\ exists(disk, p) <=> exists(old, p)
           /\ lock_present(disk, p, now) <=> lock_present(old, p, now)
<1> DEFINE w == Walk(disk, p)
<1>1. /\ p \in DOMAIN disk /\ p \in Path /\ Len(p) \in Nat /\ Len(p) > 0 /\ p # Nowhere
      /\ DOMAIN disk \subseteq DOMAIN old /\ p # << >>
  BY WellFormedParts DEF Untouched, Path, Remains, Nowhere
<1>2. SubSeq(p, 1, Len(p)) = p /\ Len(p) \in 1 .. Len(p) /\ Unlinked(disk, p, Len(p))
  BY <1>1 DEF Path, Unlinked
<1>3. WalkFrom(disk, Here(disk), p) = WalkFrom(old, Here(old), p) /\ WalkFrom(disk, Here(disk), p) \in {p, Nowhere}
  <2>1. /\ WalkFrom(disk, Here(disk), SubSeq(p, 1, Len(p))) = WalkFrom(old, Here(old), SubSeq(p, 1, Len(p)))
        /\ WalkFrom(disk, Here(disk), SubSeq(p, 1, Len(p))) \in {SubSeq(p, 1, Len(p)), Nowhere}
    BY <1>1, <1>2, WalkKept
  <2> QED
    BY <1>2, <2>1
<1>4. w = Walk(old, p) /\ w \in {p, Nowhere} /\ w = WalkFrom(disk, Here(disk), p) /\ w = WalkFrom(old, Here(old), p)
  BY <1>1, <1>3 DEF Walk
<1>5. Here(disk) \in Places(disk) /\ Here(old) \in Places(old)
  BY HereStays
<1>6. ASSUME NEW name \in LockNames
      PROVE  LET lp == Append(p, name)
             IN  /\ Walk(disk, lp) = Walk(old, lp)
                 /\ Walk(disk, lp) # Nowhere => disk[Walk(disk, lp)] = old[Walk(disk, lp)]
  <2> DEFINE lp == Append(p, name)
  <2> SUFFICES /\ Walk(disk, lp) = Walk(old, lp)
               /\ Walk(disk, lp) # Nowhere => disk[Walk(disk, lp)] = old[Walk(disk, lp)]
    OBVIOUS
  <2>1. WalkFrom(disk, Here(disk), lp) = Step(disk, WalkFrom(disk, Here(disk), p), name)
    BY <1>1, <1>5, WalkAppend
  <2>2. WalkFrom(old, Here(old), lp) = Step(old, WalkFrom(old, Here(old), p), name)
    BY <1>1, <1>5, WalkAppend
  <2>3. lp # << >> /\ Last(lp) = name /\ Parent(lp) = p
    BY <1>1 DEF Path, Last, Parent, Front
  <2>4. Walk(disk, lp) = Step(disk, w, name) /\ Walk(old, lp) = Step(old, w, name)
    BY <1>4, <2>1, <2>2, <2>3 DEF Walk
  <2>5. name \notin Special
    BY DEF LockNames, Special
  <2>6. ASSUME lp \in DOMAIN old
        PROVE  lp \in DOMAIN disk /\ disk[lp] = old[lp] /\ disk[lp].type # "link" /\ lp # Nowhere
    <3>1. lp \in Path /\ StartsWith(lp, p)
      BY <2>3, <2>6, InParent, WellFormedParts
    <3> HIDE DEF lp
    <3> QED
      BY <2>3, <2>6, <3>1 DEF Untouched, Nowhere
  <2>7. disk[p].mode = old[p].mode
    BY <1>1 DEF Remains
  <2> HIDE DEF w
  <2>8. CASE w = Nowhere
    BY <2>4, <2>5, <2>8 DEF Step, Special
  <2>9. CASE w = p
    <3>1. Step(disk, p, name) = Lookup(disk, p, name) /\ Step(old, p, name) = Lookup(old, p, name)
      BY <1>1, <2>5 DEF Step, Special
    <3>2. CASE lp \in DOMAIN old
      <4>1. Lookup(disk, p, name) = Lookup(old, p, name) /\ Lookup(disk, p, name) \in {lp, Nowhere}
        BY <2>6, <2>7, <3>2 DEF Lookup
      <4> HIDE DEF lp
      <4> QED
        BY <2>4, <2>6, <2>9, <3>1, <3>2, <4>1
    <3>3. CASE lp \notin DOMAIN old
      <4>1. Lookup(disk, p, name) = Nowhere /\ Lookup(old, p, name) = Nowhere
        BY <1>1, <3>3 DEF Lookup
      <4> HIDE DEF lp
      <4> QED
        BY <2>4, <2>9, <3>1, <4>1
    <3> QED
      BY <3>2, <3>3
  <2> QED
    BY <1>4, <2>8, <2>9
<1> DEFINE fresh(dk, name) == LET lp == Append(p, name)
                                  m  == dk[Walk(dk, lp)].mtime
                              IN  exists(dk, lp) /\ m <= now /\ now - m < LockFresh
<1>7. \A name \in LockNames : fresh(disk, name) <=> fresh(old, name)
  <2> SUFFICES ASSUME NEW name \in LockNames PROVE fresh(disk, name) <=> fresh(old, name)
    OBVIOUS
  <2> DEFINE lp == Append(p, name)
  <2>1. /\ Walk(disk, lp) = Walk(old, lp)
        /\ Walk(disk, lp) # Nowhere => disk[Walk(disk, lp)] = old[Walk(disk, lp)]
    BY <1>6
  <2> HIDE DEF lp
  <2>2. /\ exists(disk, lp) <=> exists(old, lp)
        /\ exists(disk, lp) => disk[Walk(disk, lp)].mtime = old[Walk(old, lp)].mtime
    BY <2>1 DEF exists
  <2> QED
    BY <2>2 DEF lp
<1>8. exists(disk, p) <=> exists(old, p)
  BY <1>4 DEF exists
<1>9. /\ lock_present(disk, p, now) <=> \E name \in LockNames : fresh(disk, name)
      /\ lock_present(old, p, now) <=> \E name \in LockNames : fresh(old, name)
  BY DEF lock_present
<1> HIDE DEF fresh
<1> QED
  BY <1>7, <1>8, <1>9

FoundIn(disk, x) == {i \in DOMAIN x : exists(disk, SubSeq(x, 1, i))}
Rest(x, n)       == SelectSeq(SubSeq(x, n + 1, Len(x)), LAMBDA c : c \notin Special)

LEMMA LenientIs ==
    ASSUME NEW disk, NEW x
    PROVE  canonicalize_lenient(disk, x) =
               IF FoundIn(disk, x) = {} THEN x
               ELSE canonicalize(disk, SubSeq(x, 1, Max(FoundIn(disk, x)))) \o Rest(x, Max(FoundIn(disk, x)))
  BY DEF canonicalize_lenient, FoundIn, Rest

LEMMA LenientKept ==
    ASSUME NEW disk, WellFormed(disk), NEW old, WellFormed(old), Remains(disk, old),
           NEW p \in DOMAIN disk, disk[p].type # "link", NEW x \in Path, StartsWith(p, x)
    PROVE  canonicalize_lenient(disk, x) = canonicalize_lenient(old, x)
<1> DEFINE F == FoundIn(disk, x)
<1>1. p \in Path /\ Len(p) \in Nat /\ Len(x) \in Nat /\ DOMAIN x = 1 .. Len(x)
  BY WellFormedParts DEF Path
<1>2. Len(x) <= Len(p) /\ AgreeTo(x, p, Len(x))
  BY <1>1, Prefix
<1>3. ASSUME NEW i \in DOMAIN x PROVE Walk(disk, SubSeq(x, 1, i)) = Walk(old, SubSeq(x, 1, i))
  <2>1. SubSeq(x, 1, i) = SubSeq(p, 1, i) /\ i \in 1 .. Len(p)
    BY <1>1, <1>2 DEF AgreeTo, Path
  <2>2. Unlinked(disk, p, i)
    BY DEF Unlinked
  <2>3. WalkFrom(disk, Here(disk), SubSeq(p, 1, i)) = WalkFrom(old, Here(old), SubSeq(p, 1, i))
    BY <2>1, <2>2, WalkKept
  <2> QED
    BY <2>1, <2>3 DEF Walk
<1>4. F = FoundIn(old, x) /\ F \subseteq DOMAIN x
  BY <1>3 DEF FoundIn, exists
<1> HIDE DEF F
<1>5. CASE F = {}
  <2>1. canonicalize_lenient(disk, x) = x /\ canonicalize_lenient(old, x) = x
    BY <1>4, <1>5, LenientIs DEF F
  <2> QED
    BY <2>1
<1>6. CASE F # {}
  <2>1. F \in SUBSET Nat /\ IsFiniteSet(F)
    <3>1. IsFiniteSet(1 .. Len(x))
      BY <1>1, FS_Interval
    <3> QED
      BY <1>1, <1>4, <3>1, FS_Subset
  <2>2. Max(F) \in DOMAIN x
    BY <1>4, <1>6, <2>1, MaxOf
  <2>3. canonicalize(disk, SubSeq(x, 1, Max(F))) = canonicalize(old, SubSeq(x, 1, Max(F)))
    BY <1>3, <2>2 DEF canonicalize
  <2>4. /\ canonicalize_lenient(disk, x) = canonicalize(disk, SubSeq(x, 1, Max(F))) \o Rest(x, Max(F))
        /\ canonicalize_lenient(old, x) = canonicalize(old, SubSeq(x, 1, Max(F))) \o Rest(x, Max(F))
    BY <1>4, <1>6, LenientIs DEF F
  <2> QED
    BY <2>3, <2>4
<1> QED
  BY <1>5, <1>6

Locks(disk) == \A q \in DOMAIN disk : disk[q].type = "link" => Last(q) \notin LockNames

LEMMA ReasonKept ==
    ASSUME NEW disk, WellFormed(disk), NEW old, WellFormed(old), Remains(disk, old), Locks(disk),
           NEW c, NEW h, NEW x, x.path \in Path, x.root \in Path, StartsWith(x.path, x.root),
           HasName(x.path), Untouched(disk, old, x.path), Entry(old, x.path) = x.path,
           disk[x.path].type # "link"
    PROVE  ReasonAt(disk, c, h, x) = ReasonAt(old, c, h, x) /\ Sized(disk, x) = Sized(old, x)
<1> DEFINE p == x.path
<1>1. p \in DOMAIN disk /\ StartsWith(p, p)
  BY Prefix DEF Untouched, AgreeTo, Path
<1>2. Entry(disk, p) = p
  BY <1>1, EntryKept
<1>3. size_path(disk, p) = size_path(old, p)
  BY <1>2, SizeKept
<1>4. /\ exists(disk, p) <=> exists(old, p)
      /\ lock_present(disk, p, Now) <=> lock_present(old, p, Now)
  BY LocksKept DEF Locks
<1>5. /\ canonicalize_lenient(disk, p) = canonicalize_lenient(old, p)
      /\ canonicalize_lenient(disk, x.root) = canonicalize_lenient(old, x.root)
  BY <1>1, LenientKept
<1>6. within_root(disk, p, x.root) <=> within_root(old, p, x.root)
  BY <1>5 DEF within_root
<1>7. verdict(disk, h, x) = verdict(old, h, x)
  BY <1>4, <1>6 DEF verdict, evaluate
<1>8. too_new(disk, c, x) <=> too_new(old, c, x)
  BY <1>3 DEF too_new
<1> QED
  BY <1>3, <1>4, <1>7, <1>8 DEF ReasonAt, Sized

LEMMA NothingThere ==
    ASSUME NEW disk, WellFormed(disk), NEW c, NEW h, NEW x, x.path \in Path, Entry(disk, x.path) = Nowhere
    PROVE  ReasonAt(disk, c, h, x) \notin {"needs a flag", "ok"}
<1>1. ~exists(disk, x.path)
  BY ExistsEntry
<1>2. verdict(disk, h, x) \in {"protected", "outside root", "missing"}
  BY <1>1 DEF verdict, evaluate
<1> QED
  BY <1>2 DEF ReasonAt

-----------------------------------------------------------------------------
(* A candidate is found below its root.                                    *)
LEMMA FoundInRoot ==
    ASSUME HomeIs, NEW disk, WellFormed(disk), NEW c \in Config, NEW x \in Candidates(disk, c, home)
    PROVE  StartsWith(x.path, x.root)
<1>1. PICK idx \in DOMAIN catalog :
          x \in CASE catalog[idx].kind = "HomeDirs"      -> HomeCandidates(home, idx)
                  [] catalog[idx].kind = "VersionedDirs" -> VersionCandidates(disk, home, idx)
                  [] catalog[idx].kind = "NamedDirUnder" -> NamedCandidates(disk, idx, c.scan_roots)
                  [] catalog[idx].kind = "External"      -> {}
  BY DEF Candidates, Considered
<1>2. catalog[idx].kind \in {"HomeDirs", "VersionedDirs", "NamedDirUnder", "External"}
  BY CatalogIs DEF Sound
<1>3. CASE x \in HomeCandidates(home, idx)
  <2>1. PICK k \in DOMAIN catalog[idx].subs :
            x.path = home_path(home, catalog[idx].subs[k]) /\ x.root = x.path
    BY <1>3 DEF HomeCandidates, Found
  <2>2. x.path \in Path
    BY <2>1, LocationPath
  <2> QED
    BY <2>1, <2>2, Prefix DEF AgreeTo, Path
<1>4. CASE x \in VersionCandidates(disk, home, idx)
  <2>1. PICK k \in DOMAIN catalog[idx].subs :
            /\ x.path \in stale_versions(disk, home_path(home, catalog[idx].subs[k]), catalog[idx].keep)
            /\ x.root = home_path(home, catalog[idx].subs[k])
    BY <1>4 DEF VersionCandidates, Found
  <2> DEFINE dir == home_path(home, catalog[idx].subs[k])
  <2>2. \E s \in Children(disk, dir) : x.path = Append(dir, Last(s))
    BY <2>1 DEF stale_versions
  <2>3. dir \in Path /\ x.root = dir
    BY <2>1, LocationPath
  <2> HIDE DEF dir
  <2>4. x.path \in Path /\ HasName(x.path)
    BY <2>2, <2>3, EntryOfChild
  <2>5. Parent(x.path) = dir
    BY <2>2, <2>3 DEF Parent, Front, Path
  <2> QED
    BY <2>3, <2>4, <2>5, InParent DEF HasName
<1>5. CASE x \in NamedCandidates(disk, idx, c.scan_roots)
  <2>1. PICK k \in DOMAIN c.scan_roots :
            /\ x.path \in find_named_dirs(disk, c.scan_roots[k], catalog[idx].name, catalog[idx].siblings)
            /\ x.root = c.scan_roots[k]
    BY <1>5 DEF NamedCandidates, Found
  <2> DEFINE root == c.scan_roots[k]
             top  == Walk(disk, root)
  <2>2. root \in Path /\ x.root = root
    <3>1. c.scan_roots \in Seq(Path)
      BY DEF Config
    <3> QED
      BY <2>1, <3>1
  <2>3. /\ exists(disk, root)
        /\ \E r \in Readable(disk, top) :
               r # top /\ x.path = root \o SubSeq(r, Len(top) + 1, Len(r))
    BY <2>1 DEF find_named_dirs, is_dir
  <2> HIDE DEF root, top
  <2>4. PICK r \in Readable(disk, top) :
            r # top /\ x.path = root \o SubSeq(r, Len(top) + 1, Len(r))
    BY <2>3
  <2>5. /\ r \in Path /\ top \in Path
    BY <2>2, HereStays, WalkStays, WellFormedParts DEF Readable, Tree, top, Walk, Places, Nowhere, Path
  <2> DEFINE t == SubSeq(r, Len(top) + 1, Len(r))
  <2>6. t \in Path
    BY <2>5 DEF Path
  <2> HIDE DEF t
  <2>7. root \o t \in Path /\ Len(root) <= Len(root \o t) /\ AgreeTo(root, root \o t, Len(root))
    BY <2>2, <2>6 DEF AgreeTo, Path
  <2>8. StartsWith(root \o t, root)
    BY <2>2, <2>7, Prefix
  <2> QED
    BY <2>2, <2>4, <2>8 DEF t
<1> QED
  BY <1>1, <1>2, <1>3, <1>4, <1>5

-----------------------------------------------------------------------------
(* Where a call has removed nothing yet, nothing has changed.              *)
Touched == \A r \in DOMAIN fs : fs[r] = before[r] \/ \E g \in Gone : g # <<"/">> /\ Parent(g) = r

Rooted == \A k \in 1 .. Len(kept) : StartsWith(kept[k].path, kept[k].root)

Sure == Direct(scene) /\ Plain(scene)

LEMMA DeleteTouches ==
    ASSUME IInv, Touched, Delete
    PROVE  Touched'
<1>1. PICK gone, reason : Outcome(Head(kept), gone, reason)
  BY DeleteOutcome
<1>2. fs' = Without(fs, gone, Now) /\ gone \subseteq DOMAIN fs /\ UNCHANGED call
  BY <1>1 DEF Outcome, Judged, Tree
<1>3. before' = before
  BY <1>2, SameCall
<1>4. DOMAIN fs' = DOMAIN fs \ gone
  BY <1>2 DEF Without
<1>5. DOMAIN fs \subseteq DOMAIN before
  BY DEF IInv, Basics, Remains
<1>6. Gone' = Gone \cup gone
  BY <1>2, <1>3, <1>4, <1>5 DEF Gone
<1>7. \A r \in DOMAIN fs' : fs'[r] = fs[r] \/ \E g \in gone : g # <<"/">> /\ Parent(g) = r
  BY <1>2 DEF Without
<1> QED
  BY <1>3, <1>4, <1>6, <1>7 DEF Touched

(* What a candidate names is as the call found it until its own turn.      *)
LEMMA HeadUntouched ==
    ASSUME JInv, Touched, Direct(scene), kept # << >>, Entry(before, Head(kept).path) = Head(kept).path
    PROVE  Untouched(fs, before, Head(kept).path)
<1> DEFINE p == Head(kept).path
<1>1. kept \in Seq(Candidate) /\ items \in Seq(ItemSet) /\ AllowlistOnly /\ WellFormed(before)
      /\ DOMAIN fs \subseteq DOMAIN before
  BY DEF JInv, IInv, Phases, Reported, Basics, Remains
<1>2. 1 \in 1 .. Len(kept) /\ Head(kept) = kept[1] /\ DOMAIN items = 1 .. Len(items)
  BY <1>1, HeadFirst, Indexes
<1>3. Head(kept).path \in Path /\ HasName(Head(kept).path)
  BY HeadIs DEF JInv, Resolved
<1>4. p \in Path /\ p # Nowhere /\ p \in DOMAIN before
  <2>1. Entry(before, p) \in Places(before) /\ p # Nowhere
    BY <1>1, <1>3, EntryPlace DEF HasName, Nowhere
  <2> QED
    BY <1>3, <2>1 DEF Places
<1>5. \A i \in 1 .. Len(items) : Away(items[i], Head(kept))
  BY <1>2 DEF JInv, Apart
<1> HIDE DEF p
<1>6. ASSUME NEW r \in DOMAIN before, StartsWith(r, p) PROVE r \in DOMAIN fs
  <2> SUFFICES ASSUME r \in Gone PROVE FALSE
    BY DEF Gone
  <2>1. PICK i \in Removals : r \in Tree(before, Entry(before, items[i].path))
    BY <1>1 DEF AllowlistOnly
  <2>2. i \in 1 .. Len(items)
    BY <1>2, <2>1 DEF Removals
  <2>3. Entry(before, items[i].path) = items[i].path /\ items[i].path # Nowhere /\ StartsWith(r, items[i].path)
    BY <2>1, <2>2 DEF Tree, JInv, Spelled, AsSpelled
  <2>4. items[i].path \in Path /\ r \in Path
    <3>1. items[i] \in ItemSet
      BY <1>1, <2>2, ElementType
    <3> QED
      BY <1>1, <3>1, WellFormedParts DEF ItemSet
  <2>5. StartsWith(p, items[i].path) \/ StartsWith(items[i].path, p)
    BY <1>4, <1>6, <2>3, <2>4, OneInOther
  <2> QED
    BY <1>5, <2>2, <2>3, <2>5 DEF Away, p
<1>7. ASSUME NEW r \in DOMAIN before, StartsWith(r, p) PROVE fs[r] = before[r]
  <2> SUFFICES ASSUME NEW g \in Gone, g # <<"/">>, Parent(g) = r PROVE FALSE
    BY <1>6, <1>7 DEF Touched
  <2>1. g \in DOMAIN before /\ g \notin DOMAIN fs
    BY DEF Gone
  <2>2. g \in Path /\ g # << >> /\ r \in Path
    BY <1>1, <2>1, WellFormedParts DEF Nowhere
  <2>3. StartsWith(g, r)
    BY <2>2, InParent
  <2>4. StartsWith(g, p)
    BY <1>4, <1>7, <2>2, <2>3, InsideTwice
  <2> QED
    BY <1>6, <2>1, <2>4
<1>8. p \in DOMAIN fs
  <2>1. StartsWith(p, p)
    BY <1>4, Prefix DEF AgreeTo, Path
  <2> QED
    BY <1>4, <1>6, <2>1
<1> QED
  BY <1>6, <1>7, <1>8 DEF Untouched, p

(* In a plain scene it is no link, and no lock is.                         *)
LEMMA CandidateNoLink ==
    ASSUME JInv, Sure, Asked, NEW c, Resolved(before, cfg, c), Entry(before, c.path) = c.path
    PROVE  before[c.path].type # "link" /\ Locks(fs)
<1> DEFINE p == c.path
<1>1. /\ Resolved(before, cfg, c) /\ WellFormed(before) /\ cfg \in Config /\ Asked /\ HomeIs
      /\ Remains(fs, before) /\ Remains(before, scene.disk) /\ IInv
      /\ scene \in Scenes /\ nth \in 0 .. Len(scene.calls) /\ nth > 0
  BY DEF JInv, Spelled, IInv, Basics, Phases, Asked
<1>2. home = scene.calls[nth].home /\ nth \in DOMAIN scene.calls
  <2>1. scene.calls \in Seq([home : Path, args : Seq(DOMAIN Paths)])
    BY <1>1, SystemAssumption
  <2>2. Len(scene.calls) \in Nat /\ DOMAIN scene.calls = 1 .. Len(scene.calls)
    BY <2>1, Indexes
  <2> QED
    BY <1>1, <2>2, AboveZero DEF home
<1>3. Locks(fs)
  BY <1>1 DEF Sure, Plain, Locks, Remains
<1>4. NoAlias(before, home, cfg)
  BY <1>1, CallDirect DEF JInv, Sure
<1>5. c.target_idx \in DOMAIN catalog /\ Grounds(before, cfg, catalog[c.target_idx], p) /\ p \in DOMAIN before
  <2>1. Entry(before, p) \in Places(before) /\ p # Nowhere
    BY <1>1, EntryPlace DEF Resolved, HasName, Nowhere
  <2> QED
    BY <1>1, <2>1 DEF Resolved, Places
<1> DEFINE t == catalog[c.target_idx]
<1>6. CASE t.kind = "HomeDirs"
  <2>1. PICK k \in DOMAIN t.subs : p = Entry(before, home \o t.subs[k])
    BY <1>5, <1>6 DEF Grounds
  <2>2. Entry(before, home \o t.subs[k]) \in {home \o t.subs[k], Nowhere}
    BY <1>1, <1>4, <1>5, <1>6, StraightLocation
  <2>3. p = home \o t.subs[k]
    <3>1. p # Nowhere
      BY <1>1, <1>5, WellFormedParts
    <3> QED
      BY <2>1, <2>2, <3>1
  <2>4. p = home_path(scene.calls[nth].home, catalog[c.target_idx].subs[k])
    BY <1>2, <2>3 DEF home_path
  <2>5. p \in DOMAIN scene.disk /\ before[p].type = scene.disk[p].type
    BY <1>1, <1>5 DEF Remains
  <2>6. scene.disk[p].type # "link"
    BY <1>2, <1>5, <2>1, <2>4, <2>5 DEF Sure, Plain
  <2> QED
    BY <1>3, <2>5, <2>6
<1>7. CASE t.kind # "HomeDirs"
  <2>1. before[p].type = "dir"
    BY <1>5, <1>7 DEF Grounds
  <2> QED
    BY <1>3, <2>1
<1> QED
  BY <1>6, <1>7

LEMMA HeadNoLink ==
    ASSUME JInv, Sure, pc = "judge", kept # << >>, Entry(before, Head(kept).path) = Head(kept).path
    PROVE  before[Head(kept).path].type # "link" /\ Locks(fs)
<1>1. Resolved(before, cfg, Head(kept)) /\ Asked
  BY HeadIs DEF JInv, IInv, Phases
<1> QED
  BY <1>1, CandidateNoLink

(* So what phase 3 says of it is what the dry run would have said.         *)
LEMMA HeadRenders ==
    ASSUME JInv, Rooted, Touched, Sure, pc = "judge", kept # << >>,
           NEW it, it.reason = As(cfg, Reason(Head(kept))), it.bytes = Sized(fs, Head(kept))
    PROVE  Renders(before, cfg, home, it, Head(kept))
<1> DEFINE c == Head(kept)
           p == c.path
<1>1. /\ kept \in Seq(Candidate) /\ WellFormed(fs) /\ WellFormed(before) /\ Remains(fs, before)
      /\ Resolved(before, cfg, c)
  BY HeadIs DEF JInv, IInv, Phases, Basics
<1>2. 1 \in 1 .. Len(kept) /\ c = kept[1]
  BY <1>1, HeadFirst
<1>3. p \in Path /\ HasName(p) /\ c.root \in Path
  BY <1>1 DEF Resolved
<1>4. StartsWith(p, c.root)
  BY <1>2 DEF Rooted
<1>5. Entry(before, p) \in {p, Nowhere}
  BY <1>2 DEF JInv, Spelled, AsSpelled, Sure
<1>6. Reason(c) = ReasonAt(fs, cfg, home, c)
  BY DEF Reason
<1>7. \/ /\ ReasonAt(before, cfg, home, c) = ReasonAt(fs, cfg, home, c)
         /\ Sized(fs, c) = Sized(before, c)
      \/ \A disk \in {fs, before} : ReasonAt(disk, cfg, home, c) \notin {"needs a flag", "ok"}
  <2>1. CASE Entry(before, p) = p
    <3>1. Untouched(fs, before, p)
      BY <2>1, HeadUntouched DEF Sure
    <3>2. before[p].type # "link" /\ Locks(fs)
      BY <2>1, HeadNoLink
    <3>3. fs[p].type # "link"
      BY <1>1, <3>1, <3>2 DEF Untouched, Remains
    <3> HIDE DEF c
    <3>4. /\ ReasonAt(fs, cfg, home, c) = ReasonAt(before, cfg, home, c)
          /\ Sized(fs, c) = Sized(before, c)
      BY <1>1, <1>3, <1>4, <2>1, <3>1, <3>2, <3>3, ReasonKept
    <3> QED
      BY <3>4
  <2>2. CASE Entry(before, p) = Nowhere
    <3>1. Entry(fs, p) = Nowhere
      BY <1>1, <1>3, <2>2, EntryRemains
    <3> HIDE DEF c
    <3> QED
      BY <1>1, <1>3, <2>2, <3>1, NothingThere
  <2> QED
    BY <1>5, <2>1, <2>2
<1>8. ReasonAt(fs, cfg, home, c) # "deleted" /\ ReasonAt(fs, cfg, home, c) # "dry-run"
  BY ReasonAtIs
<1> HIDE DEF c
<1>9. it.reason = As(cfg, ReasonAt(fs, cfg, home, c)) /\ it.bytes = Sized(fs, c)
  BY <1>6 DEF c
<1>10. Renders(before, cfg, home, it, c)
  BY <1>7, <1>8, <1>9 DEF Renders, As
<1> QED
  BY <1>10 DEF c

LEMMA AddedFailed ==
    ASSUME NEW it, Added(it)
    PROVE  Failed(items') <=> Failed(items) \/ it.reason = "delete failed"
<1>1. /\ Len(items) \in Nat /\ DOMAIN items = 1 .. Len(items)
      /\ DOMAIN items' = 1 .. Len(items) + 1 /\ items'[Len(items) + 1] = it
      /\ \A i \in 1 .. Len(items) : i \in 1 .. Len(items) + 1 /\ items'[i] = items[i]
      /\ \A i \in 1 .. Len(items) + 1 : i \in 1 .. Len(items) \/ i = Len(items) + 1
  BY AddedIs
<1>2. Len(items) + 1 \in 1 .. Len(items) + 1
  BY <1>1
<1> QED
  BY <1>1, <1>2 DEF Failed

LEMMA RetainFailed ==
    ASSUME IInv, Retain
    PROVE  Failed(items') <=> Failed(items)
<1> DEFINE stays == {n \in DOMAIN items : ~(Matched(items[n].id) /\ items[n].reason = "missing")}
<1>1. items' = Retained(stays) /\ items \in Seq(ItemSet)
  BY DEF Retain, IInv, Reported
<1>2. DOMAIN items = 1 .. Len(items)
  BY <1>1, Indexes
<1>3. \A i \in 1 .. Len(items) : items[i].reason = "delete failed" => i \in stays
  BY <1>2
<1> HIDE DEF stays
<1>4. Picks(ItemSet, items', stays, Len(items))
  BY <1>1, RetainedIs
<1>5. DOMAIN items' = 1 .. Len(items')
  BY <1>4, Indexes DEF Picks
<1>6. /\ \A i \in 1 .. Len(items') : \E l \in 1 .. Len(items) : items'[i] = items[l]
      /\ \A l \in 1 .. Len(items) : l \in stays => \E i \in 1 .. Len(items') : items'[i] = items[l]
  BY <1>4 DEF Picks
<1>7. ASSUME Failed(items') PROVE Failed(items)
  <2>1. PICK i \in 1 .. Len(items') : items'[i].reason = "delete failed"
    BY <1>5, <1>7 DEF Failed
  <2>2. PICK l \in 1 .. Len(items) : items'[i] = items[l]
    BY <1>6
  <2> QED
    BY <1>2, <2>1, <2>2 DEF Failed
<1>8. ASSUME Failed(items) PROVE Failed(items')
  <2>1. PICK l \in 1 .. Len(items) : items[l].reason = "delete failed"
    BY <1>2, <1>8 DEF Failed
  <2>2. PICK i \in 1 .. Len(items') : items'[i] = items[l]
    BY <1>3, <1>6, <2>1
  <2> QED
    BY <1>5, <2>1, <2>2 DEF Failed
<1> QED
  BY <1>7, <1>8

-----------------------------------------------------------------------------
(* The invariant: as long as no removal fails, a call that deletes keeps   *)
(* pace with the listing of the disk it found, as a dry run does.          *)
Delivering == pc # "called" /\ cfg.apply /\ Sure /\ ~Failed(items)

QInv == /\ OInv /\ JInv /\ Rooted /\ Touched
        /\ Sure => PromiseKept
        /\ Delivering /\ pc = "judge" => Judging(before, cfg, home, items, kept)
        /\ Delivering /\ pc = "delegate" => Summed(before, cfg, home, items)

(* All of it that a step with no report has to show.                       *)
PaceOn == /\ Rooted' /\ Touched'
          /\ Delivering' /\ pc' = "judge" => Judging(before', cfg', home', items', kept')
          /\ Delivering' /\ pc' = "delegate" => Summed(before', cfg', home', items')

LEMMA SameDisk ==
    ASSUME Touched, fs' = fs, before' = before
    PROVE  Touched'
  BY DEF Touched, Gone

LEMMA TailRooted ==
    ASSUME IInv, Rooted, kept # << >>, kept' = Tail(kept)
    PROVE  Rooted'
<1>1. kept \in Seq(Candidate)
  BY DEF IInv, Phases
<1>2. /\ Len(kept') = Len(kept) - 1 /\ Len(kept) \in Nat
      /\ \A j \in 1 .. Len(kept) - 1 : j + 1 \in 1 .. Len(kept) /\ kept'[j] = kept[j + 1]
  BY <1>1
<1> QED
  BY <1>2 DEF Rooted

LEMMA CallPace == ASSUME QInv, Call PROVE PaceOn
<1>1. /\ pc = "called" /\ before' = fs /\ fs' = fs /\ kept' = kept /\ pc' \in {"called", "resolve"}
  BY DEF Call
<1>2. Rooted' /\ Touched'
  BY <1>1 DEF QInv, Rooted, Touched
<1> QED
  BY <1>1, <1>2 DEF PaceOn

LEMMA ResolvePace == ASSUME QInv, Resolve PROVE PaceOn
<1>1. /\ pc = "resolve" /\ pc' = "judge" /\ UNCHANGED call /\ fs' = fs /\ items' = items
      /\ kept' = Listing(fs, cfg, home)
  BY DEF Resolve
<1>2. IInv /\ items = << >>
  BY <1>1 DEF QInv, OInv, PInv
<1>3. before' = before /\ cfg' = cfg /\ home' = home
  BY <1>1, SameCall
<1>4. Judging(before', cfg', home', items', kept')
  BY <1>1, <1>2, <1>3, ResolveLists, ListedFirst
<1>5. HomeIs /\ WellFormed(fs) /\ cfg \in Config
  BY <1>1, <1>2 DEF IInv, Phases, Basics, Asked
<1>6. kept' \in Seq(Candidates(fs, cfg, home))
  BY <1>1, <1>5, CandidatesAre, DedupeKeeps DEF Outer, Listing
<1>7. Rooted'
  <2> SUFFICES ASSUME NEW k \in 1 .. Len(kept') PROVE StartsWith(kept'[k].path, kept'[k].root)
    BY DEF Rooted
  <2>1. kept'[k] \in Candidates(fs, cfg, home)
    BY <1>6, ElementType
  <2> QED
    BY <1>5, <2>1, FoundInRoot
<1>8. Touched'
  BY <1>1, <1>3, SameDisk DEF QInv
<1> QED
  BY <1>1, <1>4, <1>7, <1>8 DEF PaceOn

(* One more candidate judged, or deleted.                                  *)
LEMMA JudgedPace ==
    ASSUME QInv, pc = "judge", kept # << >>, NEW reason \in Reasons, Judged(Item(Head(kept), reason)),
           Touched', reason = As(cfg, Reason(Head(kept))) \/ reason = "delete failed" \/ ~cfg.apply
    PROVE  PaceOn
<1> DEFINE c  == Head(kept)
           it == Item(c, reason)
<1>1. IInv /\ JInv /\ pc' = pc /\ UNCHANGED call /\ kept' = Tail(kept)
  BY DEF QInv, JInv, Judged
<1>2. before' = before /\ cfg' = cfg /\ home' = home /\ scene' = scene
  BY <1>1, SameCall
<1>3. it \in ItemSet /\ it.reason = reason /\ it.bytes = Sized(fs, c)
  BY <1>1, HeadIs, ItemType DEF IInv, Basics, Item
<1>4. Added(it)
  BY <1>1, <1>3 DEF Judged, Added, IInv, Reported
<1>5. Rooted'
  BY <1>1, TailRooted DEF QInv
<1> HIDE DEF it
<1>6. ASSUME Delivering' PROVE Judging(before, cfg, home, items', kept')
  <2>1. ~Failed(items) /\ reason # "delete failed" /\ cfg.apply /\ Sure
    BY <1>2, <1>3, <1>4, <1>6, AddedFailed DEF Delivering, Sure
  <2>2. Judging(before, cfg, home, items, kept)
    BY <2>1 DEF QInv, Delivering
  <2>3. it.reason = As(cfg, Reason(c))
    BY <1>3, <2>1
  <2>4. Renders(before, cfg, home, it, c)
    BY <1>1, <1>3, <2>1, <2>3, HeadRenders DEF QInv
  <2> QED
    BY <1>1, <1>4, <2>2, <2>4, JudgedOn
<1>7. Delivering' => Judging(before', cfg', home', items', kept')
  BY <1>2, <1>6
<1> QED
  BY <1>1, <1>5, <1>7 DEF PaceOn

LEMMA SkipPace == ASSUME QInv, Skip \/ WouldDelete PROVE PaceOn
<1> DEFINE c == Head(kept)
<1>1. pc = "judge" /\ kept # << >> /\ fs' = fs
  BY DEF Skip, WouldDelete
<1>2. \E reason \in Reasons : Judged(Item(c, reason)) /\ (reason = As(cfg, Reason(c)) \/ ~cfg.apply)
  <2>1. CASE Skip
    <3>1. Reason(c) \in Reasons /\ Reason(c) = As(cfg, Reason(c))
      BY <2>1, ReasonIs DEF Skip, Reasons, As
    <3> QED
      BY <2>1, <3>1 DEF Skip
  <2>2. CASE WouldDelete
    <3>1. "dry-run" \in Reasons /\ Judged(Item(c, "dry-run")) /\ ~cfg.apply
      BY <2>2 DEF WouldDelete, Reasons
    <3> QED
      BY <3>1
  <2> QED
    BY <2>1, <2>2
<1>3. PICK reason \in Reasons : Judged(Item(c, reason)) /\ (reason = As(cfg, Reason(c)) \/ ~cfg.apply)
  BY <1>2
<1>4. Touched'
  <2>1. before' = before
    BY <1>3, SameCall DEF Judged
  <2> QED
    BY <1>1, <2>1, SameDisk DEF QInv
<1> QED
  BY <1>1, <1>3, <1>4, JudgedPace

LEMMA DeletePace == ASSUME QInv, Delete PROVE PaceOn
<1> DEFINE c == Head(kept)
<1>1. pc = "judge" /\ kept # << >> /\ Reason(c) = "ok" /\ cfg.apply
  BY DEF Delete
<1>2. PICK reason \in {"deleted", "delete failed"} : Judged(Item(c, reason))
  BY DeleteTakes
<1>3. reason \in Reasons /\ (reason = As(cfg, Reason(c)) \/ reason = "delete failed")
  BY <1>1 DEF Reasons, As
<1>4. Touched'
  BY DeleteTouches DEF QInv, JInv
<1> QED
  BY <1>1, <1>2, <1>3, <1>4, JudgedPace

LEMMA RetainPace == ASSUME QInv, Retain PROVE PaceOn
<1>1. /\ pc = "judge" /\ pc' = "delegate" /\ UNCHANGED call /\ fs' = fs /\ kept' = kept
  BY DEF Retain
<1>2. before' = before /\ cfg' = cfg /\ home' = home /\ scene' = scene
  BY <1>1, SameCall
<1>3. Rooted' /\ Touched'
  BY <1>1, <1>2, SameDisk DEF QInv, Rooted
<1>4. ASSUME Delivering' PROVE Summed(before, cfg, home, items')
  <2>1. IInv /\ Delivering
    BY <1>1, <1>2, <1>4, RetainFailed DEF QInv, JInv, Delivering, Sure
  <2> QED
    BY <1>1, <2>1, RetainSummed DEF QInv
<1>5. Delivering' => Summed(before', cfg', home', items')
  BY <1>2, <1>4
<1> QED
  BY <1>1, <1>3, <1>5 DEF PaceOn

LEMMA ExternalPace == ASSUME QInv, handle_external PROVE PaceOn
<1>1. pc = "delegate" /\ pc' = pc /\ UNCHANGED call /\ fs' = fs /\ kept' = kept
  BY DEF handle_external
<1>2. before' = before /\ cfg' = cfg /\ home' = home /\ scene' = scene
  BY <1>1, SameCall
<1>3. Rooted' /\ Touched'
  BY <1>1, <1>2, SameDisk DEF QInv, Rooted
<1>4. PICK it : Added(it) /\ it.bytes = 0
  BY ExternalAdded DEF QInv, JInv
<1>5. ASSUME Delivering' PROVE Summed(before, cfg, home, items')
  <2>1. Delivering
    BY <1>1, <1>2, <1>4, <1>5, AddedFailed DEF Delivering, Sure
  <2>2. Summed(before, cfg, home, items)
    BY <1>1, <2>1 DEF QInv
  <2> QED
    BY <1>4, <2>2, AddedSummed
<1>6. Delivering' => Summed(before', cfg', home', items')
  BY <1>2, <1>5
<1> QED
  BY <1>1, <1>3, <1>6 DEF PaceOn

(* What PromiseKept says of a report and the next.                         *)
Promises(r, s) ==
    Repeats(r, s) /\ ~r.cfg.apply /\ s.cfg.apply /\ ~Failed(s.items) =>
        s.total_deleted = r.total_reclaimable

LEMMA PromisesOf ==
    /\ PromiseKept <=> \A n \in 2 .. Len(reports) : Promises(reports[n - 1], reports[n])
    /\ PromiseKept' <=> \A n \in 2 .. Len(reports') : Promises(reports'[n - 1], reports'[n])
BY DEF PromiseKept, Promises

(* A call and a dry run of it find the same, and say the same of it.       *)
LEMMA DryListsTheSame ==
    ASSUME NEW c \in Config, NEW d, d = [c EXCEPT !.apply = d.apply], NEW disk, NEW h
    PROVE  Share(disk, d, h, "ok") = Share(disk, c, h, "ok")
<1>1. /\ d.scan_roots = c.scan_roots /\ d.min_age_days = c.min_age_days
      /\ d.include_os_caches = c.include_os_caches /\ d.include_vm_disks = c.include_vm_disks
  <2> DEFINE a == d.apply
  <2>1. d = [c EXCEPT !.apply = a]
    OBVIOUS
  <2> HIDE DEF a
  <2> QED
    BY <2>1 DEF Config
<1>2. \A tier : deletable(tier, d) <=> deletable(tier, c)
  BY <1>1 DEF deletable
<1>3. Considered(d) = Considered(c)
  BY <1>2 DEF Considered
<1>4. Listing(disk, d, h) = Listing(disk, c, h)
  BY <1>1, <1>3 DEF Listing, Candidates
<1>5. \A x : ReasonAt(disk, d, h, x) = ReasonAt(disk, c, h, x)
  BY <1>1, <1>2 DEF ReasonAt, too_new, gated
<1> QED
  BY <1>4, <1>5 DEF Share, Sizes, Those

LEMMA FinishPace == ASSUME QInv, Finish PROVE PaceOn /\ (Sure' => PromiseKept')
<1> DEFINE d == Because(items, "deleted")
           o == Because(items, "needs a flag")
           v == {i \in DOMAIN items : items[i].verdict = "reclaimable"}
           s == [cfg |-> cfg, home |-> home, items |-> items,
                 total_reclaimable |-> Total(items, v \cup d),
                 total_opt_in      |-> Total(items, o),
                 total_deleted     |-> Total(items, d)]
<1>1. /\ reports' = Append(reports, s) /\ fs' = fs /\ pc = "delegate" /\ pc' = "called"
      /\ UNCHANGED call /\ kept' = kept
  BY DEF Finish
<1>2. reports \in Seq(Report) /\ before' = before /\ scene' = scene
  BY <1>1, SameCall DEF QInv, OInv, PInv
<1>3. s.cfg = cfg /\ s.home = home /\ s.items = items /\ s.total_deleted = Total(items, Because(items, "deleted"))
  OBVIOUS
<1>4. PaceOn
  BY <1>1, <1>2, SameDisk DEF PaceOn, QInv, Rooted
<1> HIDE DEF s, v, d, o
<1>5. /\ Len(reports') = Len(reports) + 1 /\ reports'[Len(reports) + 1] = s /\ reports' # << >>
      /\ \A i \in 1 .. Len(reports) : reports'[i] = reports[i]
      /\ \A n \in 2 .. Len(reports) + 1 : n \in 2 .. Len(reports) \/ n = Len(reports) + 1
      /\ \A n \in 2 .. Len(reports) : n \in 1 .. Len(reports) /\ n - 1 \in 1 .. Len(reports)
      /\ \A n \in 2 .. Len(reports) + 1 : n = Len(reports) + 1 =>
             n - 1 = Len(reports) /\ n - 1 \in 1 .. Len(reports) /\ reports # << >>
  BY <1>1, <1>2, Appended
<1>6. ASSUME Sure, reports # << >>, NEW r, r = reports[Len(reports)], r \in Report
      PROVE  Promises(r, s)
  <2> SUFFICES ASSUME Repeats(r, s), ~r.cfg.apply, s.cfg.apply, ~Failed(s.items)
               PROVE  s.total_deleted = r.total_reclaimable
    BY DEF Promises
  <2>1. Delivering
    BY <1>1, <1>3, <1>6 DEF Delivering
  <2>2. s.total_deleted = Share(before, cfg, home, "ok")
    <3>1. Summed(before, cfg, home, items)
      BY <1>1, <2>1 DEF QInv
    <3>2. As(cfg, "ok") = "deleted"
      BY <2>1 DEF Delivering, As
    <3> QED
      BY <1>3, <3>1, <3>2 DEF Summed
  <2>3. r.total_reclaimable = Share(before, r.cfg, r.home, "ok")
    BY <1>1, <1>6 DEF QInv, OInv, LastTold, Between, Told
  <2>4. r.home = home /\ cfg = [r.cfg EXCEPT !.apply = cfg.apply] /\ r.cfg \in Config
    BY <1>3, <1>6 DEF Repeats, Report
  <2>5. Share(before, cfg, home, "ok") = Share(before, r.cfg, home, "ok")
    BY <2>4, DryListsTheSame
  <2> QED
    BY <2>2, <2>3, <2>4, <2>5
<1>7. ASSUME Sure, NEW n \in 2 .. Len(reports') PROVE Promises(reports'[n - 1], reports'[n])
  <2>1. n \in 2 .. Len(reports) + 1
    BY <1>5
  <2>2. CASE n \in 2 .. Len(reports)
    <3>1. reports'[n] = reports[n] /\ reports'[n - 1] = reports[n - 1]
      BY <1>5, <2>2
    <3>2. Promises(reports[n - 1], reports[n])
      BY <1>7, <2>2, PromisesOf DEF QInv
    <3> QED
      BY <3>1, <3>2
  <2>3. CASE n = Len(reports) + 1
    <3> DEFINE r == reports[Len(reports)]
    <3>1. /\ n - 1 = Len(reports) /\ Len(reports) \in 1 .. Len(reports) /\ reports # << >>
          /\ reports'[n] = s /\ reports'[n - 1] = r
      BY <1>5, <2>1, <2>3
    <3>2. r \in Report
      BY <1>2, <3>1, Indexed
    <3>3. Promises(r, s)
      BY <1>6, <1>7, <3>1, <3>2
    <3> QED
      BY <3>1, <3>3
  <2> QED
    BY <2>1, <2>2, <2>3, <1>5
<1>8. Sure' => PromiseKept'
  BY <1>2, <1>7, PromisesOf DEF Sure
<1> QED
  BY <1>4, <1>8

LEMMA NextDelivers == ASSUME QInv, [Next]_vars PROVE QInv'
<1>1. OInv' /\ JInv'
  BY NextAdds, NextApart DEF QInv
<1>2. CASE UNCHANGED vars
  <2>1. /\ pc' = pc /\ items' = items /\ kept' = kept /\ fs' = fs /\ reports' = reports /\ UNCHANGED call
    BY <1>2 DEF vars
  <2>2. before' = before /\ cfg' = cfg /\ home' = home /\ scene' = scene
    BY <2>1, SameCall
  <2> QED
    BY <1>1, <2>1, <2>2, SameDisk DEF QInv, Rooted, Delivering, Sure, PromiseKept
<1>3. ASSUME PaceOn, reports' = reports, scene' = scene PROVE QInv'
  BY <1>1, <1>3 DEF QInv, PaceOn, Sure, PromiseKept
<1>4. CASE Call \/ Resolve \/ Skip \/ WouldDelete \/ Delete \/ Retain \/ handle_external
  <2>1. PaceOn
    BY <1>4, CallPace, ResolvePace, SkipPace, DeletePace, RetainPace, ExternalPace
  <2>2. reports' = reports
    BY <1>4, CallOn, ResolveOn, SkipOn, DeleteOn, RetainOn, ExternalOn DEF QInv
  <2>3. scene' = scene
    <3>1. CASE Call
      BY <3>1 DEF Call
    <3>2. CASE ~Call
      BY <1>4, <3>2, SameCall DEF Resolve, Skip, WouldDelete, Delete, Retain, handle_external, Judged
    <3> QED
      BY <3>1, <3>2
  <2> QED
    BY <1>3, <2>1, <2>2, <2>3
<1>5. CASE Finish
  <2>1. PaceOn /\ (Sure' => PromiseKept')
    BY <1>5, FinishPace
  <2> QED
    BY <1>1, <2>1 DEF QInv, PaceOn
<1> QED
  BY <1>2, <1>4, <1>5 DEF Next

LEMMA InitDelivers == ASSUME Init PROVE QInv
<1>1. items = << >> /\ reports = << >> /\ kept = << >> /\ pc = "called" /\ fs = before
  BY DEF Init
<1>2. AllFit(cfg, items) /\ reports \in Seq(Report) /\ DOMAIN reports = {} /\ Len(reports) = 0
  BY <1>1 DEF AllFit
<1>3. OInv
  BY <1>1, <1>2, InitKeeps DEF OInv, PInv, OptInAdds, Dry, LastTold
<1>4. JInv
  BY InitKeeps, InitApart DEF JInv
<1>5. PromiseKept
  BY <1>2 DEF PromiseKept
<1>6. Rooted
  BY <1>1, EmptyList DEF Rooted
<1>7. Touched
  BY <1>1 DEF Touched
<1> QED
  BY <1>1, <1>3, <1>4, <1>5, <1>6, <1>7 DEF QInv, Delivering

(* For every disk, catalog and configuration: what a dry run promises, a   *)
(* call with the same flags right after it delivers to the byte, unless a  *)
(* removal fails.  No removal of the call changes what it finds out about  *)
(* the candidates that are left (size_path, lock_present, within_root),    *)
(* where no location or scan root is an alias, and no location and no lock *)
(* is a link: a lock looked for behind a link may be gone by then.         *)
THEOREM DeliversWhatItPromised == Spec => [](Direct(scene) /\ Plain(scene) => PromiseKept)
<1>1. Init => QInv
  BY InitDelivers
<1>2. QInv /\ [Next]_vars => QInv'
  BY NextDelivers
<1>3. QInv => (Direct(scene) /\ Plain(scene) => PromiseKept)
  BY DEF QInv, Sure
<1> QED
  BY <1>1, <1>2, <1>3, PTL DEF Spec

-----------------------------------------------------------------------------
(* What phase 2 keeps is in nothing else that it keeps.                    *)
LEMMA SamePath ==
    ASSUME NEW p \in Path, NEW q \in Path, StartsWith(p, q), StartsWith(q, p)
    PROVE  p = q
<1>1. /\ p \in Seq(Component) /\ q \in Seq(Component)
      /\ Len(p) <= Len(q) /\ Len(q) <= Len(p) /\ AgreeTo(q, p, Len(q))
  BY Prefix DEF Path
<1>2. Len(p) = Len(q) /\ \A i \in 1 .. Len(p) : p[i] = q[i]
  BY <1>1 DEF AgreeTo
<1> QED
  BY <1>1, <1>2

LEMMA HeldByItself ==
    ASSUME NEW found, Sortable(found), NEW i \in 1 .. Len(dedupe_nested(found)),
           NEW j \in 1 .. Len(dedupe_nested(found)),
           StartsWith(dedupe_nested(found)[i].path, dedupe_nested(found)[j].path)
    PROVE  i = j
<1> DEFINE list == dedupe_nested(found)
           p == list[i].path
           q == list[j].path
<1>1. Outer(found, list, Cardinality(found))
  BY DedupeKeeps
<1> HIDE DEF list
<1>2. i \in 1 .. Len(list) /\ j \in 1 .. Len(list) /\ i \in Nat /\ j \in Nat /\ StartsWith(p, q)
  BY DEF list
<1>3. list[i] \in found /\ list[j] \in found
  BY <1>1, <1>2, ElementType DEF Outer
<1>4. p \in Path /\ q \in Path
  BY <1>3 DEF Sortable
<1>5. ASSUME j < i PROVE FALSE
  <2>1. j \in 1 .. i - 1
    BY <1>2, <1>5
  <2> QED
    BY <1>1, <1>2, <2>1 DEF Outer
<1>6. ASSUME i < j PROVE FALSE
  <2>1. i \in 1 .. j - 1
    BY <1>2, <1>6
  <2>2. ~StartsWith(q, p) /\ SortsBefore(list[i], list[j])
    BY <1>1, <1>2, <2>1 DEF Outer
  <2>3. Less(p, q) \/ p = q
    BY <1>4, <2>2, PrecedesIsLess DEF SortsBefore
  <2>4. Less(q, p) \/ p = q
    BY <1>2, <1>4, PrecedesIsLess DEF Precedes, IsStrictPrefix, StartsWith
  <2>5. p = q
    BY <1>4, <2>3, <2>4, LessTransitive, LessIrreflexive
  <2> QED
    BY <1>2, <2>2, <2>5
<1> QED
  BY <1>2, <1>5, <1>6

(* No kept candidate is inside any candidate, kept or dropped.             *)
LEMMA KeptIsOutermost ==
    ASSUME NEW found, Sortable(found), NEW i \in 1 .. Len(dedupe_nested(found)), NEW x \in found,
           StartsWith(dedupe_nested(found)[i].path, x.path)
    PROVE  StartsWith(x.path, dedupe_nested(found)[i].path)
<1> DEFINE list == dedupe_nested(found)
           n    == Cardinality(found)
<1>1. Outer(found, list, n)
  BY DedupeKeeps
<1>2. PICK l \in 1 .. n : Nth(found, l) = x
  BY NthOf
<1> HIDE DEF list, n
<1>3. i \in 1 .. Len(list)
  BY DEF list
<1>4. PICK j \in 1 .. Len(list) : StartsWith(x.path, list[j].path)
  BY <1>1, <1>2 DEF Outer
<1>5. list[i] \in found /\ list[j] \in found
  BY <1>1, <1>3, ElementType DEF Outer
<1> DEFINE p == list[i].path
           q == list[j].path
<1>6. p \in Path /\ q \in Path /\ x.path \in Path /\ StartsWith(p, x.path)
  BY <1>5 DEF Sortable, list
<1>7. StartsWith(p, q)
  BY <1>4, <1>6, InsideTwice
<1>8. i = j
  BY <1>3, <1>7, HeldByItself DEF list
<1> QED
  BY <1>4, <1>8 DEF list

-----------------------------------------------------------------------------
(* The newest install of a product there is stays the newest.              *)
Newest(all, q) ==
    /\ q \in all
    /\ \A r \in all : version_group(Last(r)) = version_group(Last(q)) =>
           r = q \/ scene.disk[r].mtime < scene.disk[q].mtime

Leads(disk, all, q) ==
    /\ q \in DOMAIN disk /\ disk[q].mtime <= Now
    /\ \A r \in all : r \in DOMAIN disk /\ version_group(Last(r)) = version_group(Last(q)) =>
           r = q \/ disk[r].mtime < disk[q].mtime

Site(dir) ==
    \E h \in Homes : \E idx \in DOMAIN catalog : \E k \in DOMAIN catalog[idx].subs :
        catalog[idx].kind = "VersionedDirs" /\ dir = h \o catalog[idx].subs[k]

Stands(disk) ==
    \A dir : Site(dir) => \A q : Newest(Installs(dir), q) => Leads(disk, Installs(dir), q)

LEMMA SameScene ==
    ASSUME scene' = scene
    PROVE  (Stands(fs)' <=> Stands(fs')) /\ (Stands(before)' <=> Stands(before'))
<1>1. \A dir : (Site(dir)' <=> Site(dir)) /\ Installs(dir)' = Installs(dir)
  BY DEF Site, Homes, Installs
<1>2. \A all, q : Newest(all, q)' <=> Newest(all, q)
  BY DEF Newest
<1> QED
  BY <1>1, <1>2 DEF Stands, Leads

LEMMA NewestIs == ASSUME Stands(fs) PROVE NewestKept
  BY DEF Stands, Site, Newest, Leads, NewestKept

LEMMA InitStands ==
    ASSUME Orderly(scene), NEW disk, disk = scene.disk PROVE Stands(disk)
<1> SUFFICES ASSUME NEW dir, Site(dir), NEW q, Newest(Installs(dir), q)
             PROVE  Leads(disk, Installs(dir), q)
  BY DEF Stands
<1>1. \E h \in Homes : \E idx \in DOMAIN catalog : \E k \in DOMAIN catalog[idx].subs :
          catalog[idx].kind = "VersionedDirs" /\ dir = h \o catalog[idx].subs[k]
  BY DEF Site
<1>2. q \in Children(scene.disk, dir)
  BY DEF Newest, Installs
<1>3. scene.disk[q].mtime <= Now
  BY <1>1, <1>2 DEF Orderly, Homes
<1>4. q \in DOMAIN scene.disk
  BY <1>2 DEF Children
<1> QED
  BY <1>3, <1>4 DEF Leads, Newest

(* Where the installs of one versioned target are.                         *)
PlaceOf(dir, idx, k) ==
    /\ idx \in DOMAIN catalog /\ k \in DOMAIN catalog[idx].subs
    /\ catalog[idx].kind = "VersionedDirs" /\ catalog[idx].keep = 1
    /\ catalog[idx].tier = "package-cache"
    /\ catalog[idx].subs[k] \in VersionPlaces /\ catalog[idx].subs[k] \in Path
    /\ dir = home \o catalog[idx].subs[k] /\ dir = home_path(home, catalog[idx].subs[k])

LEMMA CallHome ==
    ASSUME IInv, Asked, OneHome(scene), NEW h \in Homes PROVE h = home
<1>1. scene \in Scenes /\ nth \in 0 .. Len(scene.calls) /\ nth > 0 /\ HomeIs
  BY DEF IInv, Basics, Asked
<1>2. Len(scene.calls) \in Nat /\ DOMAIN scene.calls = 1 .. Len(scene.calls)
  BY <1>1, SystemAssumption, Indexes
<1>3. nth \in DOMAIN scene.calls
  BY <1>1, <1>2
<1> QED
  BY <1>1, <1>3 DEF Homes, OneHome, HomeIs, home

LEMMA SiteIs ==
    ASSUME JInv, Asked, Direct(scene), OneHome(scene), NEW dir, Site(dir)
    PROVE  /\ dir \in Path /\ dir # << >> /\ home \in Path
           /\ Straight(scene.disk, dir) /\ Straight(before, dir)
           /\ \E idx, k : PlaceOf(dir, idx, k)
<1>1. \E h \in Homes : \E idx \in DOMAIN catalog : \E k \in DOMAIN catalog[idx].subs :
          catalog[idx].kind = "VersionedDirs" /\ dir = h \o catalog[idx].subs[k]
  BY DEF Site
<1>2. \E idx \in DOMAIN catalog : \E k \in DOMAIN catalog[idx].subs :
          catalog[idx].kind = "VersionedDirs" /\ dir = home \o catalog[idx].subs[k]
  BY <1>1, CallHome DEF JInv
<1>3. PICK idx \in DOMAIN catalog :
          \E k \in DOMAIN catalog[idx].subs :
              catalog[idx].kind = "VersionedDirs" /\ dir = home \o catalog[idx].subs[k]
  BY <1>2
<1>4. PICK k \in DOMAIN catalog[idx].subs :
          catalog[idx].kind = "VersionedDirs" /\ dir = home \o catalog[idx].subs[k]
  BY <1>3
<1>5. HomeIs /\ NoAlias(scene.disk, home, cfg) /\ NoAlias(before, home, cfg)
  BY CallDirect DEF JInv, Asked
<1>6. dir = home_path(home, catalog[idx].subs[k]) /\ dir \in Path /\ HasName(dir)
  BY <1>4, <1>5, LocationPath
<1>7. Straight(scene.disk, dir) /\ Straight(before, dir)
  BY <1>4, <1>5, <1>6 DEF NoAlias
<1>8. /\ Sound(catalog[idx]) /\ Aside(catalog[idx]) /\ catalog[idx].subs[k] \in Path
  BY CatalogIs
<1>9. PlaceOf(dir, idx, k)
  BY <1>4, <1>6, <1>8 DEF PlaceOf, Sound, Aside
<1> QED
  BY <1>5, <1>6, <1>7, <1>9 DEF HasName, HomeIs

LEMMA InstallIs ==
    ASSUME NEW dir \in Path, dir # << >>, WellFormed(scene.disk), Straight(scene.disk, dir),
           NEW r \in Installs(dir)
    PROVE  /\ r \in DOMAIN scene.disk /\ r \in Path /\ scene.disk[r].type = "dir"
           /\ Parent(r) = dir /\ r = Append(dir, Last(r)) /\ Last(r) \in Component
           /\ Walk(scene.disk, dir) = dir /\ scene.disk[dir].mode # "none"
<1>1. /\ r \in DOMAIN scene.disk /\ scene.disk[r].type = "dir" /\ Len(r) > 1
      /\ is_dir(scene.disk, dir) /\ scene.disk[Walk(scene.disk, dir)].mode # "none"
      /\ Parent(r) = Walk(scene.disk, dir)
  BY DEF Installs, Children
<1>2. Walk(scene.disk, dir) = dir
  BY <1>1 DEF is_dir, exists, Straight
<1>3. r \in Path
  BY <1>1, WellFormedParts
<1>4. r = Append(Parent(r), Last(r)) /\ Last(r) \in Component
  BY <1>1, <1>3 DEF Parent, Front, Last, Path
<1> QED
  BY <1>1, <1>2, <1>3, <1>4

(* What of the installs a call finds it finds where they were.             *)
LEMMA InstallFound ==
    ASSUME NEW dir \in Path, dir # << >>, WellFormed(scene.disk), Straight(scene.disk, dir),
           WellFormed(before), Remains(before, scene.disk),
           NEW r \in Installs(dir), r \in DOMAIN before
    PROVE  r \in Children(before, dir) /\ before[r].type = "dir" /\ Walk(before, dir) = dir
<1>1. /\ r \in Path /\ scene.disk[r].type = "dir" /\ Parent(r) = dir /\ r = Append(dir, Last(r))
      /\ Walk(scene.disk, dir) = dir /\ scene.disk[dir].mode # "none"
  BY InstallIs
<1>2. Len(dir) \in Nat /\ Len(dir) > 0 /\ Len(r) > 1 /\ Len(dir) \in 1 .. Len(dir)
      /\ SubSeq(dir, 1, Len(dir)) = dir
  BY <1>1 DEF Path
<1>3. dir \in DOMAIN before /\ before[dir].type = "dir" /\ before[r].type = "dir"
  <2>1. r # <<"/">>
    BY <1>2, NotRoot
  <2> QED
    BY <1>1, <2>1, WellFormedParts DEF Remains
<1>4. WalkFrom(before, Here(before), dir) = WalkFrom(scene.disk, Here(scene.disk), dir)
  <2>1. Unlinked(before, dir, Len(dir))
    BY <1>3 DEF Unlinked
  <2> QED
    BY <1>2, <1>3, <2>1, WalkKept
<1>5. Walk(before, dir) = dir
  BY <1>1, <1>4 DEF Walk
<1>6. is_dir(before, dir) /\ before[dir].mode # "none"
  BY <1>1, <1>3, <1>5, WellFormedParts DEF is_dir, exists, Remains
<1> QED
  BY <1>1, <1>2, <1>3, <1>5, <1>6 DEF Children

(* Two ways that part do not meet again.                                   *)
LEMMA PartedWays ==
    ASSUME NEW h \in Path, NEW s \in Path, NEW v \in Path, Parts(s, v),
           NEW p \in Path, StartsWith(p, h \o v)
    PROVE  ~StartsWith(p, h \o s)
<1>1. PICK i \in DOMAIN s \cap DOMAIN v : s[i] # v[i]
  BY DEF Parts
<1>2. /\ h \o v \in Path /\ h \o s \in Path /\ Len(h) \in Nat
      /\ Len(h \o v) = Len(h) + Len(v) /\ Len(h \o s) = Len(h) + Len(s)
      /\ i \in 1 .. Len(v) /\ i \in 1 .. Len(s) /\ Len(v) \in Nat /\ Len(s) \in Nat
  BY <1>1 DEF Path
<1>3. (h \o v)[Len(h) + i] = v[i] /\ (h \o s)[Len(h) + i] = s[i]
  BY <1>1, <1>2 DEF Path
<1>4. Len(h) + i \in 1 .. Len(h \o v) /\ Len(h) + i \in 1 .. Len(h \o s)
  BY <1>2
<1>5. p[Len(h) + i] = v[i]
  <2>1. AgreeTo(h \o v, p, Len(h \o v))
    BY <1>2, Prefix
  <2> QED
    BY <1>3, <1>4, <2>1 DEF AgreeTo
<1>6. ASSUME StartsWith(p, h \o s) PROVE FALSE
  <2>1. AgreeTo(h \o s, p, Len(h \o s))
    BY <1>2, <1>6, Prefix
  <2>2. p[Len(h) + i] = s[i]
    BY <1>3, <1>4, <2>1 DEF AgreeTo
  <2> QED
    BY <1>1, <1>5, <2>2
<1> QED
  BY <1>6

(* An install that is not the newest any more is a candidate of the call.  *)
LEMMA OlderFound ==
    ASSUME JInv, Asked, Direct(scene), OneHome(scene), Stands(before),
           NEW dir, Site(dir), NEW q, Newest(Installs(dir), q),
           NEW r \in Installs(dir), r \in DOMAIN before, r # q,
           version_group(Last(r)) = version_group(Last(q))
    PROVE  \E x \in Candidates(before, cfg, home) : x.path = r
<1>1. /\ dir \in Path /\ dir # << >> /\ Straight(scene.disk, dir)
      /\ \E idx, k : PlaceOf(dir, idx, k)
  BY SiteIs
<1>2. PICK idx, k : PlaceOf(dir, idx, k)
  BY <1>1
<1>3. /\ WellFormed(scene.disk) /\ WellFormed(before) /\ Remains(before, scene.disk)
  BY SystemAssumption DEF JInv, IInv, Basics, Spelled
<1>4. q \in Installs(dir) /\ q \in DOMAIN before /\ before[r].mtime < before[q].mtime
  BY DEF Stands, Newest, Leads
<1>5. /\ r \in Children(before, dir) /\ before[r].type = "dir"
      /\ q \in Children(before, dir) /\ before[q].type = "dir"
  BY <1>1, <1>3, <1>4, InstallFound
<1> DEFINE versions    == {y \in Children(before, dir) : before[y].type = "dir"}
           newer(y, z) == \/ before[y].mtime > before[z].mtime
                          \/ before[y].mtime = before[z].mtime /\ Rank(Last(y)) > Rank(Last(z))
           ahead(z)    == {y \in versions : version_group(Last(y)) = version_group(Last(z)) /\ newer(y, z)}
<1>6. r \in versions /\ q \in ahead(r)
  <2>1. before[r].mtime \in Nat /\ before[q].mtime \in Nat
    BY <1>3, <1>4, NodeParts
  <2> QED
    BY <1>4, <1>5, <2>1
<1>7. Cardinality(ahead(r)) >= 1
  <2>1. ahead(r) \subseteq DOMAIN before
    BY DEF Children
  <2>2. IsFiniteSet(ahead(r))
    BY <1>3, <2>1, WellFormedParts, FS_Subset
  <2> HIDE DEF ahead
  <2> QED
    BY <1>6, <2>2, FS_EmptySet, FS_CardinalityType
<1>8. stale_versions(before, dir, 1) = {Append(dir, Last(s)) : s \in {v \in versions : Cardinality(ahead(v)) >= 1}}
  BY DEF stale_versions
<1> HIDE DEF versions, ahead
<1>9. Append(dir, Last(r)) \in stale_versions(before, dir, 1)
  BY <1>6, <1>7, <1>8
<1>10. r \in stale_versions(before, dir, 1)
  BY <1>1, <1>3, <1>9, InstallIs
<1> DEFINE x == Found(idx, k, r, dir)
<1>11. x \in VersionCandidates(before, home, idx)
  BY <1>2, <1>10 DEF VersionCandidates, PlaceOf
<1>12. idx \in Considered(cfg)
  BY <1>2 DEF Considered, PlaceOf, deletable, default_on
<1>13. x.path = r
  BY DEF Found
<1> HIDE DEF x
<1>14. x \in Candidates(before, cfg, home)
  BY <1>2, <1>11, <1>12 DEF Candidates, PlaceOf
<1> QED
  BY <1>13, <1>14

LEMMA AroundParent ==
    ASSUME NEW p \in Path, NEW e \in Path, StartsWith(p, e), p # e, p # << >>
    PROVE  StartsWith(Parent(p), e)
<1>1. Len(p) \in Nat /\ Len(e) \in Nat /\ Len(e) <= Len(p) /\ AgreeTo(e, p, Len(e))
  BY Prefix DEF Path
<1>2. Len(e) # Len(p)
  <2>1. ASSUME Len(e) = Len(p) PROVE e = p
    BY <1>1, <2>1 DEF AgreeTo, Path
  <2> QED
    BY <2>1
<1>3. /\ Parent(p) \in Path /\ Len(Parent(p)) = Len(p) - 1
      /\ \A i \in 1 .. Len(p) - 1 : Parent(p)[i] = p[i]
  <2> DEFINE m == Len(p) - 1
  <2>1. m \in Nat /\ m <= Len(p) /\ p \in Seq(Component) /\ Parent(p) = SubSeq(p, 1, m)
    BY <1>1, <1>2 DEF Parent, Front, Path
  <2> HIDE DEF m
  <2>2. LET s == SubSeq(p, 1, m) IN s \in Seq(Component) /\ Len(s) = m /\ \A i \in 1 .. m : s[i] = p[i]
    BY <1>1, <2>1
  <2> QED
    BY <2>1, <2>2 DEF m, Path
<1>4. AgreeTo(e, Parent(p), Len(e))
  BY <1>1, <1>2, <1>3 DEF AgreeTo
<1> QED
  BY <1>1, <1>2, <1>3, <1>4, Prefix

(* What a removal takes is what the path of the candidate says.            *)
LEMMA TakenIs ==
    ASSUME JInv, Delete, Direct(scene)
    PROVE  LET p == Head(kept).path
           IN  /\ pc = "judge" /\ kept # << >> /\ Asked /\ p \in Path /\ HasName(p)
               /\ Head(kept) \in Candidate /\ Resolved(before, cfg, Head(kept))
               /\ Entry(fs, p) = p /\ Entry(before, p) = p /\ p \in DOMAIN fs /\ p \in DOMAIN before
               /\ ~StartsWith(home, p)
<1> DEFINE c == Head(kept)
           p == c.path
<1>1. pc = "judge" /\ kept # << >> /\ Reason(c) = "ok"
  BY DeleteTakes
<1>2. /\ c \in Candidate /\ p \in Path /\ HasName(p) /\ Resolved(before, cfg, c)
      /\ WellFormed(fs) /\ WellFormed(before) /\ Remains(fs, before) /\ Asked
  BY <1>1, HeadIs DEF JInv, IInv, Basics, Phases, Resolved
<1>3. Entry(before, p) \in {p, Nowhere}
  <2>1. 1 \in 1 .. Len(kept) /\ c = kept[1]
    BY <1>1, HeadFirst DEF JInv, IInv, Phases
  <2> HIDE DEF c
  <2> QED
    BY <2>1 DEF JInv, Spelled, AsSpelled
<1>4. exists(fs, p)
  BY <1>1, OkExists
<1> HIDE DEF c
<1>5. Entry(fs, p) # Nowhere
  BY <1>2, <1>4, ExistsEntry
<1>6. Entry(before, p) = Entry(fs, p) /\ Entry(fs, p) = p
  BY <1>2, <1>3, <1>5, EntryRemains
<1>7. p \in DOMAIN fs
  BY <1>2, <1>5, <1>6 DEF Entry
<1>8. ~StartsWith(home, p)
  <2>1. ASSUME is_protected(p, home) PROVE verdict(fs, home, c) = "protected"
    BY <2>1 DEF verdict, evaluate
  <2> QED
    BY <1>1, <2>1 DEF is_protected, Reason, ReasonAt, c
<1> QED
  BY <1>1, <1>2, <1>6, <1>7, <1>8 DEF c, Remains

LEMMA NewestSpared ==
    ASSUME JInv, Delete, Direct(scene), OneHome(scene), Orderly(scene), Stands(before),
           NEW dir, Site(dir), NEW q, Newest(Installs(dir), q)
    PROVE  ~StartsWith(q, Head(kept).path)
<1> DEFINE c == Head(kept)
           e == c.path
<1>1. /\ Asked /\ e \in Path /\ HasName(e) /\ Resolved(before, cfg, c)
      /\ Entry(before, e) = e /\ e \in DOMAIN before /\ ~StartsWith(home, e)
  BY TakenIs
<1>2. /\ dir \in Path /\ dir # << >> /\ home \in Path
      /\ Straight(scene.disk, dir) /\ Straight(before, dir)
      /\ \E idx, k : PlaceOf(dir, idx, k)
  BY <1>1, SiteIs
<1>3. PICK idx, k : PlaceOf(dir, idx, k)
  BY <1>2
<1> DEFINE sub == catalog[idx].subs[k]
           t   == catalog[c.target_idx]
<1>4. /\ WellFormed(scene.disk) /\ WellFormed(before) /\ Remains(before, scene.disk)
      /\ HomeIs /\ cfg \in Config
  BY <1>1, SystemAssumption DEF JInv, IInv, Basics, Spelled, Asked
<1>5. /\ q \in Path /\ q \in Installs(dir) /\ Parent(q) = dir /\ q = Append(dir, Last(q))
      /\ Walk(scene.disk, dir) = dir
  BY <1>2, <1>4, InstallIs DEF Newest
<1>6. sub \in VersionPlaces /\ sub \in Path /\ dir = home \o sub
  BY <1>3 DEF PlaceOf
<1>7. /\ c.target_idx \in DOMAIN catalog /\ t.kind \in {"HomeDirs", "VersionedDirs", "NamedDirUnder"}
      /\ Sound(t) /\ Aside(t) /\ Grounds(before, cfg, t, e) /\ t.subs \in Seq(Path)
  <2>1. c.target_idx \in DOMAIN catalog /\ catalog[c.target_idx].kind # "External"
    BY <1>1 DEF Resolved
  <2>2. Sound(t) /\ Aside(t) /\ t.subs \in Seq(Path)
    BY <2>1, CatalogIs
  <2>3. Grounds(before, cfg, t, e)
    BY <1>1 DEF Resolved
  <2> QED
    BY <2>1, <2>2, <2>3 DEF Sound
<1>8. NoAlias(before, home, cfg)
  BY <1>1, CallDirect DEF JInv
<1> HIDE DEF c, sub
<1> SUFFICES ASSUME StartsWith(q, e) PROVE FALSE
  BY DEF c
<1>9. StartsWith(q, dir)
  BY <1>2, <1>5, InParent
<1>10. CASE t.kind = "HomeDirs"
  <2>1. PICK m \in DOMAIN t.subs : e = Entry(before, home \o t.subs[m])
    BY <1>7, <1>10 DEF Grounds
  <2>2. Entry(before, home \o t.subs[m]) \in {home \o t.subs[m], Nowhere}
    BY <1>4, <1>7, <1>8, <1>10, StraightLocation
  <2>3. e = home \o t.subs[m]
    BY <1>1, <2>1, <2>2 DEF HasName, Nowhere
  <2>4. t.subs[m] \in Path /\ Parts(t.subs[m], sub)
    BY <1>6, <1>7, <1>10 DEF Aside
  <2> HIDE DEF t
  <2> QED
    BY <1>2, <1>5, <1>6, <1>9, <2>3, <2>4, PartedWays
<1>11. CASE t.kind = "VersionedDirs"
  <2>1. PICK m \in DOMAIN t.subs :
            \E r \in DOMAIN before :
                /\ Parent(e) = Walk(before, home \o t.subs[m]) /\ Parent(r) = Parent(e)
                /\ before[r].type = "dir" /\ version_group(Last(r)) = version_group(Last(e))
                /\ r # e /\ before[r].mtime >= before[e].mtime
    BY <1>7, <1>11 DEF Grounds
  <2>2. t.subs[m] \in Path /\ t.subs[m] \in VersionPlaces
    BY <1>7, <1>11 DEF Aside
  <2>3. Straight(before, home \o t.subs[m])
    <3>1. home_path(home, t.subs[m]) = home \o t.subs[m]
      BY DEF home_path
    <3> QED
      BY <1>7, <1>8, <1>11, <3>1 DEF NoAlias
  <2>4. Parent(e) # << >>
    <3>1. e # <<"/">>
      BY <1>1 DEF HasName, Special, Last
    <3>2. Parent(e) \in DOMAIN before
      BY <1>1, <1>4, <3>1, WellFormedParts
    <3> QED
      BY <1>4, <3>2, WellFormedParts DEF Nowhere
  <2>5. Parent(e) = home \o t.subs[m]
    BY <2>1, <2>3, <2>4 DEF Straight, Nowhere
  <2>6. StartsWith(e, Parent(e)) /\ e # << >> /\ Parent(e) \in Path
    BY <1>1, InParent, ParentPath DEF HasName
  <2>7. StartsWith(q, home \o t.subs[m])
    BY <1>1, <1>5, <2>5, <2>6, InsideTwice
  <2>8. t.subs[m] = sub
    <3>1. t.subs[m] = sub \/ Parts(t.subs[m], sub)
      BY <1>6, <2>2, PlacesApart
    <3> HIDE DEF t
    <3> QED
      BY <1>2, <1>5, <1>6, <1>9, <2>2, <2>7, <3>1, PartedWays
  <2>9. Parent(e) = dir
    BY <1>6, <2>5, <2>8
  <2>10. e = q
    <3>1. Len(dir) \in Nat /\ Len(q) = Len(dir) + 1 /\ Len(e) = Len(dir) + 1
      BY <1>1, <1>2, <1>5, <2>9, ParentPath DEF Path
    <3>2. AgreeTo(e, q, Len(e))
      BY <1>1, <1>5, Prefix
    <3> QED
      BY <1>1, <1>5, <3>1, <3>2 DEF AgreeTo, Path
  <2>11. PICK r \in DOMAIN before :
             /\ Parent(r) = dir /\ before[r].type = "dir" /\ r # q
             /\ version_group(Last(r)) = version_group(Last(q)) /\ before[r].mtime >= before[q].mtime
    BY <2>1, <2>9, <2>10
  <2>12. r \in Installs(dir)
    <3>1. r \in DOMAIN scene.disk /\ scene.disk[r].type = "dir" /\ r \in Path /\ r # << >>
      BY <1>4, <2>11, WellFormedParts DEF Remains, Nowhere
    <3>2. Len(r) > 1
      <4>1. Len(dir) \in Nat /\ Len(dir) > 0
        BY <1>2 DEF Path
      <4>2. Len(r) \in Nat /\ r = Append(Parent(r), Last(r))
        BY <3>1 DEF Parent, Front, Last, Path
      <4>3. Len(Append(dir, Last(r))) = Len(dir) + 1
        BY <1>2 DEF Path
      <4> QED
        BY <2>11, <4>1, <4>2, <4>3
    <3>3. is_dir(scene.disk, dir) /\ scene.disk[dir].mode # "none"
      BY <1>5 DEF Installs, Children
    <3> QED
      BY <1>5, <2>11, <3>1, <3>2, <3>3 DEF Installs, Children
  <2>13. before[r].mtime < before[q].mtime
    BY <2>11, <2>12 DEF Stands, Leads
  <2>14. before[r].mtime \in Nat /\ before[q].mtime \in Nat
    BY <1>1, <1>4, <2>10, <2>11, NodeParts
  <2> QED
    BY <2>11, <2>13, <2>14
<1>12. CASE t.kind = "NamedDirUnder"
  <2>1. Last(e) = t.name
    BY <1>7, <1>12 DEF Grounds
  <2>2. \A i \in DOMAIN sub : sub[i] # t.name
    BY <1>6, <1>7, <1>12 DEF Aside
  <2>3. Last(q) # t.name
    <3>1. q \in Children(scene.disk, dir)
      BY <1>5 DEF Installs
    <3>2. \E h \in Homes : \E i \in DOMAIN catalog : \E j \in DOMAIN catalog[i].subs :
              catalog[i].kind = "VersionedDirs" /\ dir = h \o catalog[i].subs[j]
      BY DEF Site
    <3> QED
      BY <1>7, <3>1, <3>2 DEF Orderly, Homes
  <2>4. StartsWith(q, home)
    <3>1. StartsWith(dir, home)
      <4>1. Len(home) \in Nat /\ Len(home) <= Len(dir) /\ \A i \in 1 .. Len(home) : dir[i] = home[i]
        BY <1>2, <1>6 DEF Path
      <4> QED
        BY <1>2, <4>1, Prefix DEF AgreeTo
    <3> QED
      BY <1>2, <1>5, <1>9, <3>1, InsideTwice
  <2>5. StartsWith(e, home) /\ e # home
    <3>1. StartsWith(home, home)
      BY <1>2, Prefix DEF AgreeTo, Path
    <3>2. StartsWith(e, home) \/ StartsWith(home, e)
      BY <1>1, <1>2, <1>5, <2>4, OneInOther
    <3> QED
      BY <1>1, <3>1, <3>2
  <2>6. /\ Len(home) \in Nat /\ Len(e) \in Nat /\ Len(q) \in Nat /\ Len(sub) \in Nat
        /\ Len(home) < Len(e) /\ Len(e) <= Len(q) /\ e[Len(e)] = q[Len(e)]
        /\ Len(dir) = Len(home) + Len(sub) /\ Len(q) = Len(dir) + 1
        /\ \A i \in 1 .. Len(sub) : dir[Len(home) + i] = sub[i]
        /\ \A i \in 1 .. Len(dir) : q[i] = dir[i]
    <3>1. Len(home) \in Nat /\ Len(e) \in Nat /\ Len(q) \in Nat /\ Len(sub) \in Nat
      BY <1>1, <1>2, <1>5, <1>6 DEF Path
    <3>2. Len(home) <= Len(e) /\ AgreeTo(home, e, Len(home)) /\ Len(e) <= Len(q) /\ AgreeTo(e, q, Len(e))
      BY <1>1, <1>2, <1>5, <2>5, Prefix
    <3>3. Len(home) # Len(e)
      <4>1. ASSUME Len(home) = Len(e) PROVE home = e
        BY <1>1, <1>2, <3>2, <4>1 DEF AgreeTo, Path
      <4> QED
        BY <2>5, <4>1
    <3>4. e[Len(e)] = q[Len(e)]
      <4>1. Len(e) \in 1 .. Len(e)
        BY <3>1, <3>2, <3>3
      <4> QED
        BY <3>2, <4>1 DEF AgreeTo
    <3>5. Len(dir) = Len(home) + Len(sub) /\ \A i \in 1 .. Len(sub) : dir[Len(home) + i] = sub[i]
      BY <1>2, <1>6 DEF Path
    <3>6. Len(q) = Len(dir) + 1 /\ \A i \in 1 .. Len(dir) : q[i] = dir[i]
      BY <1>2, <1>5 DEF Path
    <3> QED
      BY <3>1, <3>2, <3>3, <3>4, <3>5, <3>6
  <2>7. Last(e) = e[Len(e)] /\ Last(q) = q[Len(q)]
    BY DEF Last
  <2>8. CASE Len(e) = Len(q)
    BY <2>1, <2>3, <2>6, <2>7, <2>8
  <2>9. CASE Len(e) # Len(q)
    <3>1. Len(e) - Len(home) \in 1 .. Len(sub) /\ Len(e) \in 1 .. Len(dir)
      BY <2>6, <2>9
    <3>2. Len(home) + (Len(e) - Len(home)) = Len(e)
      BY <2>6
    <3>3. q[Len(e)] = sub[Len(e) - Len(home)]
      BY <2>6, <3>1, <3>2
    <3>4. DOMAIN sub = 1 .. Len(sub)
      BY <1>6 DEF Path
    <3> QED
      BY <2>1, <2>2, <2>6, <2>7, <3>1, <3>3, <3>4
  <2> QED
    BY <2>8, <2>9
<1> QED
  BY <1>7, <1>10, <1>11, <1>12

-----------------------------------------------------------------------------
(* The invariant.  What is left to judge has no candidate inside it that   *)
(* it is not inside of, a failed removal stays in the reports, and of each *)
(* product the newest install is still ahead of the others.                *)
Outermost ==
    pc = "judge" => \A k \in 1 .. Len(kept) : \A x \in Candidates(before, cfg, home) :
        StartsWith(kept[k].path, x.path) => StartsWith(x.path, kept[k].path)

Confessed == pc = "called" /\ Failed(items) => \E n \in DOMAIN reports : Failed(reports[n].items)

Calm     == Direct(scene) /\ OneHome(scene) /\ Orderly(scene) /\ NoneFailed
Standing == Calm => Stands(fs) /\ (pc # "called" => Stands(before))

MInv == PInv /\ JInv /\ Outermost /\ Confessed /\ Standing

(* One more candidate judged.                                              *)
LEMMA JudgedOutermost ==
    ASSUME IInv, Outermost, pc = "judge", kept # << >>, NEW it, Judged(it)
    PROVE  Outermost' /\ Confessed'
<1>1. kept \in Seq(Candidate) /\ kept' = Tail(kept) /\ pc' = pc /\ UNCHANGED call
  BY DEF IInv, Phases, Judged
<1>2. before' = before /\ cfg' = cfg /\ home' = home
  BY <1>1, SameCall
<1>3. /\ Len(kept') = Len(kept) - 1 /\ Len(kept) \in Nat
      /\ \A j \in 1 .. Len(kept) - 1 : j + 1 \in 1 .. Len(kept) /\ kept'[j] = kept[j + 1]
  BY <1>1
<1>4. ASSUME NEW k \in 1 .. Len(kept'), NEW x \in Candidates(before, cfg, home),
             StartsWith(kept'[k].path, x.path)
      PROVE  StartsWith(x.path, kept'[k].path)
  <2>1. k + 1 \in 1 .. Len(kept) /\ kept'[k] = kept[k + 1]
    BY <1>3
  <2> QED
    BY <1>4, <2>1 DEF Outermost
<1>5. Outermost'
  BY <1>2, <1>4 DEF Outermost
<1> QED
  BY <1>1, <1>5 DEF Confessed

(* A removal that does not fail takes no newest install, and makes no      *)
(* other install of the product any newer: it takes nothing right in one.  *)
LEMMA DeleteStands ==
    ASSUME MInv, Delete, Calm, NoneFailed'
    PROVE  Stands(fs')
<1> DEFINE c == Head(kept)
           e == c.path
<1>1. PICK gone, reason : Outcome(c, gone, reason)
  BY DeleteOutcome
<1>2. /\ JInv /\ IInv /\ pc = "judge" /\ kept # << >> /\ Asked /\ e \in Path /\ Entry(fs, e) = e
      /\ e \in DOMAIN fs /\ c \in Candidate
  BY TakenIs DEF MInv, Calm, JInv
<1>3. reason = "deleted" /\ gone = Tree(fs, e)
  <2>1. ~Failed(items') /\ reason \in {"deleted", "delete failed"}
    BY <1>1 DEF NoneFailed, Outcome
  <2>2. reason \in Reasons /\ WellFormed(fs)
    BY <1>2, <2>1 DEF Reasons, IInv, Basics
  <2>3. Item(c, reason) \in ItemSet /\ Item(c, reason).reason = reason
    BY <1>2, <2>2, ItemType
  <2>4. Added(Item(c, reason))
    BY <1>1, <1>2, <2>3 DEF Added, Outcome, Judged, IInv, Reported
  <2>5. reason # "delete failed"
    BY <2>1, <2>3, <2>4, AddedFailed
  <2> QED
    BY <1>1, <1>2, <2>5 DEF Outcome
<1>4. fs' = Without(fs, gone, Now)
  BY <1>1 DEF Outcome
<1>5. Stands(fs) /\ Stands(before) /\ WellFormed(fs) /\ Remains(fs, before) /\ Now \in Nat
  BY <1>2, SystemAssumption DEF MInv, Standing, IInv, Basics
<1>6. /\ DOMAIN fs' = DOMAIN fs \ gone
      /\ \A r \in DOMAIN fs' : \/ fs'[r] = fs[r]
                               \/ fs'[r].mtime = Now /\ \E g \in gone : g # <<"/">> /\ Parent(g) = r
  <2>1. DOMAIN fs' = DOMAIN fs \ gone
    BY <1>4 DEF Without
  <2>2. ASSUME NEW r \in DOMAIN fs', NEW g \in gone, g # <<"/">>, Parent(g) = r
        PROVE  fs'[r].mtime = Now
    <3>1. fs'[r] = [fs[r] EXCEPT !.mtime = Now]
      BY <1>4, <2>1, <2>2 DEF Without
    <3>2. fs[r] \in Nodes
      BY <1>5, <2>1, WellFormedParts
    <3> QED
      BY <3>1, <3>2 DEF Nodes
  <2>3. ASSUME NEW r \in DOMAIN fs', \A g \in gone : ~(g # <<"/">> /\ Parent(g) = r)
        PROVE  fs'[r] = fs[r]
    BY <1>4, <2>1, <2>3 DEF Without
  <2> QED
    BY <2>1, <2>2, <2>3
<1> HIDE DEF c
<1> SUFFICES ASSUME NEW dir, Site(dir), NEW q, Newest(Installs(dir), q)
             PROVE  Leads(fs', Installs(dir), q)
  BY DEF Stands
<1>7. Leads(fs, Installs(dir), q)
  BY <1>5 DEF Stands
<1>8. q \in DOMAIN fs'
  <2>1. ~StartsWith(q, e)
    BY <1>2, <1>5, NewestSpared DEF Calm, c
  <2> QED
    BY <1>3, <1>6, <1>7, <2>1 DEF Leads, Tree
<1>9. fs'[q].mtime <= Now /\ fs[q].mtime <= fs'[q].mtime /\ fs[q].mtime \in Nat /\ fs'[q].mtime \in Nat
  <2>1. fs[q].mtime \in Nat /\ fs[q].mtime <= Now
    BY <1>5, <1>7, NodeParts DEF Leads
  <2> QED
    BY <1>5, <1>6, <1>8, <2>1
<1>10. ASSUME NEW r \in Installs(dir), r \in DOMAIN fs', r # q,
              version_group(Last(r)) = version_group(Last(q))
       PROVE  fs'[r].mtime < fs'[q].mtime
  <2>1. r \in DOMAIN fs /\ fs[r].mtime < fs[q].mtime /\ fs[r].mtime \in Nat
    BY <1>5, <1>6, <1>7, <1>10, NodeParts DEF Leads
  <2>2. ASSUME NEW g \in gone, g # <<"/">>, Parent(g) = r PROVE FALSE
    <3>1. g \in DOMAIN fs /\ StartsWith(g, e) /\ g \in Path /\ g # << >>
      BY <1>3, <1>5, <2>2, WellFormedParts DEF Tree, Nowhere
    <3>2. g = e
      <4>1. ASSUME g # e PROVE FALSE
        <5>1. StartsWith(r, e)
          BY <1>2, <2>2, <3>1, <4>1, AroundParent
        <5>2. r \in gone
          <6>1. Entry(fs, e) = e /\ e # Nowhere
            BY <1>2, <1>5, WellFormedParts
          <6> QED
            BY <1>3, <2>1, <5>1, <6>1 DEF Tree
        <5> QED
          BY <1>6, <1>10, <5>2
      <4> QED
        BY <4>1
    <3>3. PICK x \in Candidates(before, cfg, home) : x.path = r
      <4>1. r \in DOMAIN before
        BY <1>5, <2>1 DEF Remains
      <4> QED
        BY <1>2, <1>5, <1>10, <4>1, OlderFound DEF Calm
    <3>4. StartsWith(e, r)
      BY <2>2, <3>1, <3>2, InParent
    <3>5. StartsWith(r, e)
      <4>1. 1 \in 1 .. Len(kept) /\ c = kept[1]
        BY <1>2, HeadFirst DEF IInv, Phases, c
      <4> QED
        BY <1>2, <3>3, <3>4, <4>1 DEF MInv, Outermost
    <3>6. r \in Path /\ Len(r) \in Nat /\ Len(e) \in Nat /\ e = Append(r, Last(e))
      <4>1. r \in Path
        BY <1>5, <2>1, WellFormedParts
      <4> QED
        BY <2>2, <3>1, <3>2, <4>1 DEF Parent, Front, Last, Path
    <3>7. Len(e) = Len(r) + 1
      <4>1. Len(Append(r, Last(e))) = Len(r) + 1
        BY <3>6 DEF Path
      <4> QED
        BY <3>6, <4>1
    <3>8. Len(e) <= Len(r)
      BY <1>2, <3>5, <3>6, Prefix
    <3> QED
      BY <3>6, <3>7, <3>8
  <2>3. fs'[r] = fs[r]
    BY <1>6, <1>10, <2>2
  <2> QED
    BY <1>9, <2>1, <2>3
<1> QED
  BY <1>8, <1>9, <1>10 DEF Leads

(* Where nothing is removed, all stands that stood.                        *)
LEMMA StillStands ==
    ASSUME Standing, fs' = fs, scene' = scene, NoneFailed' => NoneFailed,
           pc' # "called" => (pc # "called" /\ before' = before) \/ before' = fs
    PROVE  Standing'
<1> SUFFICES ASSUME Calm' PROVE Stands(fs') /\ (pc' # "called" => Stands(before'))
  BY SameScene DEF Standing
<1>1. Calm
  BY DEF Calm
<1> QED
  BY <1>1 DEF Standing

LEMMA CallStands == ASSUME MInv, Call PROVE Outermost' /\ Confessed' /\ Standing'
<1>1. /\ pc = "called" /\ before' = fs /\ fs' = fs /\ items' = << >> /\ scene' = scene
      /\ reports' = reports /\ pc' \in {"called", "resolve"}
  BY DEF Call
<1>2. ~Failed(items')
  BY <1>1 DEF Failed
<1>3. NoneFailed' => NoneFailed
  BY <1>1 DEF MInv, Confessed, NoneFailed
<1> QED
  BY <1>1, <1>2, <1>3, StillStands DEF MInv, Outermost, Confessed

LEMMA ResolveStands == ASSUME MInv, Resolve PROVE Outermost' /\ Confessed' /\ Standing'
<1>1. /\ pc = "resolve" /\ pc' = "judge" /\ kept' = Listing(fs, cfg, home)
      /\ UNCHANGED call /\ fs' = fs /\ items' = items /\ reports' = reports
  BY DEF Resolve
<1>2. before' = before /\ cfg' = cfg /\ home' = home /\ scene' = scene
  BY <1>1, SameCall
<1>3. HomeIs /\ WellFormed(fs) /\ cfg \in Config /\ fs = before
  BY <1>1 DEF MInv, JInv, IInv, Phases, Basics, Asked
<1> DEFINE found == Candidates(before, cfg, home)
<1>4. Sortable(found)
  BY <1>3, CandidatesAre
<1>5. kept' = dedupe_nested(found)
  BY <1>1, <1>3 DEF Listing
<1>6. Sortable(found) /\ kept' = dedupe_nested(found)
  BY <1>4, <1>5
<1> HIDE DEF found
<1>7. \A k \in 1 .. Len(kept') : \A x \in found :
          StartsWith(kept'[k].path, x.path) => StartsWith(x.path, kept'[k].path)
  BY <1>6, KeptIsOutermost
<1>8. Outermost'
  BY <1>2, <1>7 DEF Outermost, found
<1> QED
  BY <1>1, <1>2, <1>8, StillStands DEF MInv, Confessed, NoneFailed

LEMMA SkipStands ==
    ASSUME MInv, Skip \/ WouldDelete PROVE Outermost' /\ Confessed' /\ Standing'
<1> DEFINE c == Head(kept)
<1>1. IInv /\ pc = "judge" /\ kept # << >> /\ fs' = fs
  BY DEF Skip, WouldDelete, MInv, JInv
<1>2. \E reason \in Reasons : Judged(Item(c, reason))
  <2>1. CASE Skip
    BY <2>1, ReasonIs DEF Skip, Reasons
  <2>2. CASE WouldDelete
    BY <2>2 DEF WouldDelete, Reasons
  <2> QED
    BY <2>1, <2>2
<1>3. PICK reason \in Reasons : Judged(Item(c, reason))
  BY <1>2
<1>4. /\ UNCHANGED call /\ pc' = pc /\ reports' = reports /\ items' = Append(items, Item(c, reason))
  BY <1>3 DEF Judged
<1>5. Outermost' /\ Confessed'
  BY <1>1, <1>3, JudgedOutermost DEF MInv
<1>6. c \in Candidate /\ WellFormed(fs)
  BY <1>1, HeadIs DEF IInv, Basics
<1>7. Added(Item(c, reason))
  BY <1>1, <1>4, <1>6, ItemType DEF Added, IInv, Reported
<1>8. NoneFailed' => NoneFailed
  BY <1>4, <1>7, AddedFailed DEF NoneFailed
<1>9. scene' = scene /\ before' = before
  BY <1>4, SameCall
<1> QED
  BY <1>1, <1>4, <1>5, <1>8, <1>9, StillStands DEF MInv

LEMMA DeletePasses == ASSUME MInv, Delete PROVE Outermost' /\ Confessed' /\ Standing'
<1> DEFINE c == Head(kept)
<1>1. IInv /\ pc = "judge" /\ kept # << >>
  BY DEF Delete, MInv, JInv
<1>2. PICK reason \in {"deleted", "delete failed"} : Judged(Item(c, reason))
  BY DeleteTakes
<1>3. /\ UNCHANGED call /\ pc' = pc /\ reports' = reports /\ items' = Append(items, Item(c, reason))
  BY <1>2 DEF Judged
<1>4. Outermost' /\ Confessed'
  BY <1>1, <1>2, JudgedOutermost DEF MInv
<1>5. c \in Candidate /\ WellFormed(fs) /\ reason \in Reasons
  BY <1>1, HeadIs DEF IInv, Basics, Reasons
<1>6. Added(Item(c, reason))
  BY <1>1, <1>3, <1>5, ItemType DEF Added, IInv, Reported
<1>7. NoneFailed' => NoneFailed
  BY <1>3, <1>6, AddedFailed DEF NoneFailed
<1>8. scene' = scene /\ before' = before
  BY <1>3, SameCall
<1>9. ASSUME Calm' PROVE Stands(fs') /\ Stands(before')
  <2>1. Calm /\ NoneFailed'
    BY <1>7, <1>8, <1>9 DEF Calm
  <2>2. Stands(before)
    BY <1>1, <2>1 DEF MInv, Standing
  <2> QED
    BY <1>8, <2>1, <2>2, DeleteStands
<1>10. Standing'
  BY <1>8, <1>9, SameScene DEF Standing
<1> QED
  BY <1>4, <1>10

LEMMA RetainStands == ASSUME MInv, Retain PROVE Outermost' /\ Confessed' /\ Standing'
<1>1. pc = "judge" /\ pc' = "delegate" /\ UNCHANGED call /\ fs' = fs /\ reports' = reports
  BY DEF Retain
<1>2. scene' = scene /\ before' = before
  BY <1>1, SameCall
<1>3. NoneFailed' => NoneFailed
  BY <1>1, RetainFailed DEF NoneFailed, MInv, JInv
<1> QED
  BY <1>1, <1>2, <1>3, StillStands DEF MInv, Outermost, Confessed

LEMMA ExternalStands == ASSUME MInv, handle_external PROVE Outermost' /\ Confessed' /\ Standing'
<1>1. pc = "delegate" /\ pc' = pc /\ UNCHANGED call /\ fs' = fs /\ reports' = reports
  BY DEF handle_external
<1>2. scene' = scene /\ before' = before
  BY <1>1, SameCall
<1>3. NoneFailed' => NoneFailed
  BY <1>1, ExternalAdded, AddedFailed DEF NoneFailed, MInv, JInv
<1> QED
  BY <1>1, <1>2, <1>3, StillStands DEF MInv, Outermost, Confessed

LEMMA FinishStands == ASSUME MInv, Finish PROVE Outermost' /\ Confessed' /\ Standing'
<1>1. /\ pc' = "called" /\ UNCHANGED call /\ fs' = fs /\ items' = items
      /\ \E r : r.items = items /\ reports' = Append(reports, r)
  BY DEF Finish
<1>2. PICK r : r.items = items /\ reports' = Append(reports, r)
  BY <1>1
<1>3. reports \in Seq(Report)
  BY DEF MInv, PInv
<1>4. /\ DOMAIN reports = 1 .. Len(reports) /\ DOMAIN reports' = 1 .. Len(reports) + 1
      /\ Len(reports) \in Nat /\ reports'[Len(reports) + 1] = r
      /\ \A n \in 1 .. Len(reports) : reports'[n] = reports[n]
  BY <1>2, <1>3
<1>5. Len(reports) + 1 \in DOMAIN reports' /\ \A n \in DOMAIN reports : n \in DOMAIN reports'
  BY <1>4
<1>6. Confessed'
  BY <1>1, <1>2, <1>4, <1>5 DEF Confessed
<1>7. NoneFailed' => NoneFailed
  BY <1>1, <1>4, <1>5 DEF NoneFailed
<1>8. scene' = scene /\ before' = before
  BY <1>1, SameCall
<1> QED
  BY <1>1, <1>6, <1>7, <1>8, StillStands DEF MInv, Outermost

LEMMA NextStands == ASSUME MInv, [Next]_vars PROVE MInv'
<1>1. PInv' /\ JInv'
  BY NextPrints, NextApart DEF MInv
<1>2. ASSUME UNCHANGED vars PROVE Outermost' /\ Confessed' /\ Standing'
  <2>1. /\ UNCHANGED call /\ fs' = fs /\ items' = items /\ kept' = kept /\ pc' = pc /\ reports' = reports
    BY <1>2 DEF vars
  <2>2. before' = before /\ scene' = scene /\ cfg' = cfg /\ home' = home
    BY <2>1, SameCall
  <2> QED
    BY <2>1, <2>2, StillStands DEF MInv, Outermost, Confessed, NoneFailed
<1> QED
  BY <1>1, <1>2, CallStands, ResolveStands, SkipStands, DeletePasses, RetainStands, ExternalStands,
     FinishStands DEF Next, MInv

(* For every disk, catalog and configuration, and any number of calls: of  *)
(* every product the newest install at the start is still there, unless a  *)
(* removal failed, an install was from the future or named like what a     *)
(* search looks for, a location or scan root is an alias, or the homes     *)
(* differ.  stale_versions goes by the times of the directories, and a     *)
(* removal changes the time of the one around it: this one is never        *)
(* another install of the product, for what would be removed in it is      *)
(* itself in a candidate, and phase 2 only keeps the outermost.            *)
THEOREM KeepsNewest == Spec => [](Direct(scene) /\ OneHome(scene) /\ Orderly(scene) /\ NoneFailed => NewestKept)
<1>1. Init => MInv
  <2> SUFFICES ASSUME Init PROVE MInv
    OBVIOUS
  <2>1. /\ items = << >> /\ reports = << >> /\ pc = "called" /\ fs = scene.disk
    BY DEF Init
  <2>2. AllFit(cfg, items) /\ reports \in Seq(Report) /\ DOMAIN reports = {} /\ ~Failed(items)
    BY <2>1 DEF AllFit, Failed
  <2>3. PInv
    BY <2>2, InitKeeps DEF PInv
  <2>4. JInv
    BY InitKeeps, InitApart DEF JInv
  <2>5. Standing
    BY <2>1, InitStands DEF Standing, Calm
  <2> QED
    BY <2>1, <2>2, <2>3, <2>4, <2>5 DEF MInv, Outermost, Confessed
<1>2. MInv /\ [Next]_vars => MInv'
  BY NextStands
<1>3. MInv => (Direct(scene) /\ OneHome(scene) /\ Orderly(scene) /\ NoneFailed => NewestKept)
  BY NewestIs DEF MInv, Standing, Calm
<1> QED
  BY <1>1, <1>2, <1>3, PTL DEF Spec

-----------------------------------------------------------------------------
(* What a search finds, where the way to it is straight: stated by the     *)
(* canonical paths themselves.                                             *)
VersionsIn(disk, dir) == {r \in Children(disk, dir) : disk[r].type = "dir"}

Newer(disk, r, s) == \/ disk[r].mtime > disk[s].mtime
                     \/ disk[r].mtime = disk[s].mtime /\ Rank(Last(r)) > Rank(Last(s))

Outlived(disk, dir, s) ==
    \E r \in VersionsIn(disk, dir) :
        version_group(Last(r)) = version_group(Last(s)) /\ Newer(disk, r, s)

LEMMA VersionsAre ==
    ASSUME NEW disk, WellFormed(disk), NEW dir \in Path, dir # << >>, Straight(disk, dir),
           NEW r \in VersionsIn(disk, dir)
    PROVE  /\ r \in DOMAIN disk /\ r \in Path /\ disk[r].type = "dir" /\ Len(r) > 1
           /\ Parent(r) = dir /\ r = Append(dir, Last(r)) /\ Last(r) \in Component
           /\ is_dir(disk, dir) /\ Walk(disk, dir) = dir /\ disk[dir].mode # "none" /\ dir \in DOMAIN disk
<1>1. /\ r \in DOMAIN disk /\ disk[r].type = "dir" /\ Len(r) > 1
      /\ is_dir(disk, dir) /\ disk[Walk(disk, dir)].mode # "none"
      /\ Parent(r) = Walk(disk, dir)
  BY DEF VersionsIn, Children
<1>2. Walk(disk, dir) = dir
  BY <1>1 DEF is_dir, exists, Straight
<1>3. r \in Path
  BY <1>1, WellFormedParts
<1>4. r = Append(Parent(r), Last(r)) /\ Last(r) \in Component
  BY <1>1, <1>3 DEF Parent, Front, Last, Path
<1>5. r # <<"/">>
  BY <1>1, NotRoot
<1>6. Parent(r) \in DOMAIN disk
  BY <1>1, <1>5, WellFormedParts
<1> QED
  BY <1>1, <1>2, <1>3, <1>4, <1>6

LEMMA StaleIs ==
    ASSUME NEW disk, WellFormed(disk), NEW dir \in Path, dir # << >>, Straight(disk, dir), NEW p
    PROVE  p \in stale_versions(disk, dir, 1) <=> p \in VersionsIn(disk, dir) /\ Outlived(disk, dir, p)
<1> DEFINE versions    == {y \in Children(disk, dir) : disk[y].type = "dir"}
           newer(y, z) == \/ disk[y].mtime > disk[z].mtime
                          \/ disk[y].mtime = disk[z].mtime /\ Rank(Last(y)) > Rank(Last(z))
           ahead(z)    == {y \in versions : version_group(Last(y)) = version_group(Last(z)) /\ newer(y, z)}
<1>1. stale_versions(disk, dir, 1) = {Append(dir, Last(s)) : s \in {v \in versions : Cardinality(ahead(v)) >= 1}}
  BY DEF stale_versions
<1>2. versions = VersionsIn(disk, dir)
  BY DEF VersionsIn
<1>3. ASSUME NEW s PROVE Cardinality(ahead(s)) >= 1 <=> Outlived(disk, dir, s)
  <2>1. ahead(s) \subseteq DOMAIN disk
    BY DEF Children
  <2>2. IsFiniteSet(ahead(s))
    BY <2>1, WellFormedParts, FS_Subset
  <2>3. Outlived(disk, dir, s) <=> ahead(s) # {}
    BY DEF Outlived, Newer, VersionsIn
  <2> HIDE DEF ahead
  <2> QED
    BY <2>2, <2>3, FS_EmptySet, FS_CardinalityType
<1> HIDE DEF versions, ahead
<1>4. \A s \in versions : Append(dir, Last(s)) = s
  BY <1>2, VersionsAre
<1> QED
  BY <1>1, <1>2, <1>3, <1>4

Matches(disk, root, name, siblings) ==
    {r \in Readable(disk, root) :
        /\ is_dir(disk, root) /\ r # root /\ disk[r].type = "dir" /\ Last(r) = name
        /\ siblings = {} \/ has_sibling(disk, r, siblings)}

LEMMA BelowRoot ==
    ASSUME NEW disk, WellFormed(disk), NEW root \in Path, NEW r \in Readable(disk, root)
    PROVE  root \o SubSeq(r, Len(root) + 1, Len(r)) = r
<1>1. r \in Path /\ StartsWith(r, root)
  BY WellFormedParts DEF Readable, Tree
<1>2. Len(root) <= Len(r) /\ AgreeTo(root, r, Len(root))
  BY <1>1, Prefix
<1> QED
  BY <1>1, <1>2 DEF AgreeTo, Path

LEMMA NamedIs ==
    ASSUME NEW disk, WellFormed(disk), NEW root \in Path, Straight(disk, root), NEW name, NEW siblings, NEW p
    PROVE  p \in find_named_dirs(disk, root, name, siblings) <=>
               /\ p \in Matches(disk, root, name, siblings)
               /\ \A a \in Matches(disk, root, name, siblings) : StartsWith(p, a) => a = p
<1>1. CASE ~is_dir(disk, root)
  BY <1>1 DEF find_named_dirs, Matches
<1>2. CASE is_dir(disk, root)
  <2>1. Walk(disk, root) = root
    BY <1>2 DEF is_dir, exists, Straight
  <2> DEFINE among(r)  == root \o SubSeq(r, Len(root) + 1, Len(r))
             below    == {r \in Readable(disk, root) : r # root /\ disk[r].type = "dir"}
             match(r) == Last(r) = name /\ (siblings = {} \/ has_sibling(disk, among(r), siblings))
             matches  == {r \in below : match(r)}
  <2>2. find_named_dirs(disk, root, name, siblings) =
            {among(r) : r \in {m \in matches : \A a \in matches : StartsWith(m, a) => a = m}}
    BY <1>2, <2>1 DEF find_named_dirs
  <2>3. \A r \in Readable(disk, root) : among(r) = r
    BY BelowRoot
  <2>4. matches = Matches(disk, root, name, siblings)
    BY <1>2, <2>3 DEF Matches
  <2>5. matches \subseteq Readable(disk, root)
    OBVIOUS
  <2> HIDE DEF matches, among
  <2>6. \A r \in matches : among(r) = r
    BY <2>3, <2>5
  <2> QED
    BY <2>2, <2>4, <2>6
<1> QED
  BY <1>1, <1>2

(* A candidate, by the kind of its target.                                 *)
HomeFound(x, idx) == catalog[idx].kind = "HomeDirs" /\ x \in HomeCandidates(home, idx)

VersionFound(disk, x, idx) ==
    /\ catalog[idx].kind = "VersionedDirs"
    /\ \E k \in DOMAIN catalog[idx].subs :
           LET dir == home \o catalog[idx].subs[k]
           IN  /\ x = Found(idx, k, x.path, dir)
               /\ x.path \in VersionsIn(disk, dir) /\ Outlived(disk, dir, x.path)

NamedFound(disk, c, x, idx) ==
    /\ catalog[idx].kind = "NamedDirUnder"
    /\ \E k \in DOMAIN c.scan_roots :
           LET all == Matches(disk, c.scan_roots[k], catalog[idx].name, catalog[idx].siblings)
           IN  /\ x = Found(idx, k, x.path, c.scan_roots[k])
               /\ x.path \in all /\ \A a \in all : StartsWith(x.path, a) => a = x.path

LEMMA VersionsFound ==
    ASSUME HomeIs, NEW disk, WellFormed(disk), NEW c \in Config, NoAlias(disk, home, c),
           NEW idx \in DOMAIN catalog, catalog[idx].kind = "VersionedDirs", NEW x
    PROVE  x \in VersionCandidates(disk, home, idx) <=> VersionFound(disk, x, idx)
<1> DEFINE dir(k) == home \o catalog[idx].subs[k]
<1>1. \A k \in DOMAIN catalog[idx].subs :
          /\ dir(k) \in Path /\ dir(k) # << >> /\ home_path(home, catalog[idx].subs[k]) = dir(k)
          /\ Straight(disk, dir(k))
  <2> SUFFICES ASSUME NEW k \in DOMAIN catalog[idx].subs
               PROVE  /\ dir(k) \in Path /\ dir(k) # << >>
                      /\ home_path(home, catalog[idx].subs[k]) = dir(k) /\ Straight(disk, dir(k))
    OBVIOUS
  <2>1. LET p == home_path(home, catalog[idx].subs[k]) IN p \in Path /\ HasName(p) /\ p = dir(k)
    BY LocationPath
  <2>2. Straight(disk, home_path(home, catalog[idx].subs[k]))
    BY DEF NoAlias
  <2> HIDE DEF dir
  <2> QED
    BY <2>1, <2>2 DEF HasName
<1>2. catalog[idx].keep = 1
  BY CatalogIs DEF Sound
<1>3. VersionCandidates(disk, home, idx) =
          UNION {{Found(idx, k, p, dir(k)) : p \in stale_versions(disk, dir(k), 1)} :
                 k \in DOMAIN catalog[idx].subs}
  BY <1>2 DEF VersionCandidates, home_path
<1> HIDE DEF dir
<1>4. \A k \in DOMAIN catalog[idx].subs : \A p :
          p \in stale_versions(disk, dir(k), 1) <=> p \in VersionsIn(disk, dir(k)) /\ Outlived(disk, dir(k), p)
  BY <1>1, StaleIs
<1>5. \A k, p : Found(idx, k, p, dir(k)).path = p
  BY DEF Found
<1>6. x \in VersionCandidates(disk, home, idx) <=>
          \E k \in DOMAIN catalog[idx].subs : \E p \in stale_versions(disk, dir(k), 1) :
              x = Found(idx, k, p, dir(k))
  BY <1>3
<1>7. x \in VersionCandidates(disk, home, idx) <=>
          \E k \in DOMAIN catalog[idx].subs :
              /\ x = Found(idx, k, x.path, dir(k)) /\ x.path \in stale_versions(disk, dir(k), 1)
  BY <1>5, <1>6
<1> QED
  BY <1>4, <1>7 DEF VersionFound, dir

LEMMA NamedDirsFound ==
    ASSUME NEW disk, WellFormed(disk), NEW c \in Config, NoAlias(disk, home, c),
           NEW idx \in DOMAIN catalog, catalog[idx].kind = "NamedDirUnder", NEW x
    PROVE  x \in NamedCandidates(disk, idx, c.scan_roots) <=> NamedFound(disk, c, x, idx)
<1> DEFINE name == catalog[idx].name
           siblings == catalog[idx].siblings
           root(k) == c.scan_roots[k]
           all(k)  == Matches(disk, root(k), name, siblings)
<1>1. \A k \in DOMAIN c.scan_roots : root(k) \in Path /\ Straight(disk, root(k))
  <2>1. c.scan_roots \in Seq(Path)
    BY DEF Config
  <2> QED
    BY <2>1 DEF NoAlias
<1>2. NamedCandidates(disk, idx, c.scan_roots) =
          UNION {{Found(idx, k, p, root(k)) : p \in find_named_dirs(disk, root(k), name, siblings)} :
                 k \in DOMAIN c.scan_roots}
  BY DEF NamedCandidates
<1> HIDE DEF root, name, siblings
<1>3. \A k \in DOMAIN c.scan_roots : \A p :
          p \in find_named_dirs(disk, root(k), name, siblings) <=>
              p \in all(k) /\ \A a \in all(k) : StartsWith(p, a) => a = p
  BY <1>1, NamedIs
<1>4. \A k, p : Found(idx, k, p, root(k)).path = p
  BY DEF Found
<1>5. x \in NamedCandidates(disk, idx, c.scan_roots) <=>
          \E k \in DOMAIN c.scan_roots : \E p \in find_named_dirs(disk, root(k), name, siblings) :
              x = Found(idx, k, p, root(k))
  BY <1>2
<1>6. x \in NamedCandidates(disk, idx, c.scan_roots) <=>
          \E k \in DOMAIN c.scan_roots :
              /\ x = Found(idx, k, x.path, root(k))
              /\ x.path \in find_named_dirs(disk, root(k), name, siblings)
  BY <1>4, <1>5
<1> HIDE DEF all
<1>7. x \in NamedCandidates(disk, idx, c.scan_roots) <=>
          \E k \in DOMAIN c.scan_roots :
              /\ x = Found(idx, k, x.path, root(k))
              /\ x.path \in all(k) /\ \A a \in all(k) : StartsWith(x.path, a) => a = x.path
  BY <1>3, <1>6
<1> QED
  BY <1>7 DEF NamedFound, all, root, name, siblings

LEMMA FoundIs ==
    ASSUME HomeIs, NEW disk, WellFormed(disk), NEW c \in Config, NoAlias(disk, home, c), NEW x
    PROVE  x \in Candidates(disk, c, home) <=>
               \E idx \in Considered(c) : \/ HomeFound(x, idx) \/ VersionFound(disk, x, idx)
                                          \/ NamedFound(disk, c, x, idx)
<1> DEFINE at(idx) == CASE catalog[idx].kind = "HomeDirs"      -> HomeCandidates(home, idx)
                        [] catalog[idx].kind = "VersionedDirs" -> VersionCandidates(disk, home, idx)
                        [] catalog[idx].kind = "NamedDirUnder" -> NamedCandidates(disk, idx, c.scan_roots)
                        [] catalog[idx].kind = "External"      -> {}
<1>1. x \in Candidates(disk, c, home) <=> \E idx \in Considered(c) : x \in at(idx)
  BY DEF Candidates
<1>2. ASSUME NEW idx \in Considered(c)
      PROVE  x \in at(idx) <=> \/ HomeFound(x, idx) \/ VersionFound(disk, x, idx)
                               \/ NamedFound(disk, c, x, idx)
  <2>1. idx \in DOMAIN catalog
    BY DEF Considered
  <2>2. catalog[idx].kind \in {"HomeDirs", "VersionedDirs", "NamedDirUnder", "External"}
    BY <2>1, CatalogIs DEF Sound
  <2>3. CASE catalog[idx].kind = "HomeDirs"
    BY <2>3 DEF HomeFound, VersionFound, NamedFound
  <2>4. CASE catalog[idx].kind = "VersionedDirs"
    <3>1. at(idx) = VersionCandidates(disk, home, idx)
      BY <2>4
    <3> HIDE DEF at
    <3>2. ~HomeFound(x, idx) /\ ~NamedFound(disk, c, x, idx)
      BY <2>4 DEF HomeFound, NamedFound
    <3> QED
      BY <2>1, <2>4, <3>1, <3>2, VersionsFound
  <2>5. CASE catalog[idx].kind = "NamedDirUnder"
    <3>1. at(idx) = NamedCandidates(disk, idx, c.scan_roots)
      BY <2>5
    <3> HIDE DEF at
    <3>2. ~HomeFound(x, idx) /\ ~VersionFound(disk, x, idx)
      BY <2>5 DEF HomeFound, VersionFound
    <3> QED
      BY <2>1, <2>5, <3>1, <3>2, NamedDirsFound
  <2>6. CASE catalog[idx].kind = "External"
    BY <2>6 DEF HomeFound, VersionFound, NamedFound
  <2> QED
    BY <2>2, <2>3, <2>4, <2>5, <2>6
<1> QED
  BY <1>1, <1>2

-----------------------------------------------------------------------------
(* What a call that deletes has removed by the time it reports: all that   *)
(* is in a candidate that was fit to go when the call found it, and no     *)
(* more.                                                                   *)
Was     == Listing(before, cfg, home)
Dies(i) == ReasonAt(before, cfg, home, Was[i]) = "ok"

Swept(n) == \A q \in DOMAIN before : q \in Gone <=> \E i \in 1 .. n : Dies(i) /\ StartsWith(q, Was[i].path)

Emptied(old, c, h, disk, n) ==
    \A q \in DOMAIN old :
        q \notin DOMAIN disk <=> \E i \in 1 .. n : /\ ReasonAt(old, c, h, Listing(old, c, h)[i]) = "ok"
                                                 /\ StartsWith(q, Listing(old, c, h)[i].path)

LEMMA SweptIs == ASSUME NEW n PROVE Swept(n) <=> Emptied(before, cfg, home, fs, n)
  BY DEF Swept, Emptied, Dies, Was, Gone

Wiped ==
    \A q \in DOMAIN fs :
        fs[q] = IF \E g \in Gone : g # <<"/">> /\ Parent(g) = q
                THEN [before[q] EXCEPT !.mtime = Now] ELSE before[q]

Clocked ==
    /\ \A q \in DOMAIN fs : fs[q].mtime \in {scene.disk[q].mtime, Now}
    /\ \A q \in DOMAIN before : before[q].mtime \in {scene.disk[q].mtime, Now}

Fit == Sure /\ Orderly(scene) /\ Vouched(scene)

Settled == /\ JInv /\ pc = "delegate" /\ Fit /\ Wiped /\ Clocked
           /\ Swept(Len(Was))

LEMMA SettledIs ==
    ASSUME Settled
    PROVE  /\ WellFormed(fs) /\ WellFormed(before) /\ WellFormed(scene.disk)
           /\ Remains(fs, before) /\ Remains(before, scene.disk)
           /\ cfg \in Config /\ Asked /\ HomeIs /\ IInv /\ Now \in Nat
           /\ NoAlias(fs, home, cfg) /\ NoAlias(before, home, cfg) /\ NoAlias(scene.disk, home, cfg)
<1>1. /\ WellFormed(fs) /\ WellFormed(before) /\ WellFormed(scene.disk)
      /\ Remains(fs, before) /\ Remains(before, scene.disk)
      /\ cfg \in Config /\ Asked /\ HomeIs /\ IInv /\ Now \in Nat
  BY SystemAssumption DEF Settled, JInv, IInv, Basics, Phases, Spelled, Asked
<1>2. NoAlias(scene.disk, home, cfg) /\ NoAlias(before, home, cfg)
  BY <1>1, CallDirect DEF Settled, Fit, Sure, JInv
<1>3. NoAlias(fs, home, cfg)
  BY <1>1, <1>2, NoAliasRemains
<1> QED
  BY <1>1, <1>2, <1>3

LEMMA ListingIs ==
    ASSUME HomeIs, cfg \in Config, NEW disk, WellFormed(disk), NoAlias(disk, home, cfg)
    PROVE  LET found == Candidates(disk, cfg, home)
               list  == Listing(disk, cfg, home)
           IN  /\ Sortable(found) /\ Outer(found, list, Cardinality(found)) /\ list = dedupe_nested(found)
               /\ list \in Seq(found) /\ Ordered(list)
               /\ \A x \in found : /\ Resolved(disk, cfg, x) /\ x.path \in Path /\ HasName(x.path)
                                   /\ x.root \in Path /\ StartsWith(x.path, x.root)
                                   /\ Entry(disk, x.path) \in {x.path, Nowhere}
                                   /\ x.target_idx \in DOMAIN catalog
<1> DEFINE found == Candidates(disk, cfg, home)
           list  == Listing(disk, cfg, home)
<1>1. found = Candidates(disk, cfg, home) /\ list = dedupe_nested(found)
  BY DEF Listing
<1> HIDE DEF found, list
<1>2. Sortable(found) /\ \A x \in found : Resolved(disk, cfg, x)
  BY <1>1, CandidatesAre
<1>3. Outer(found, list, Cardinality(found))
  BY <1>1, <1>2, DedupeKeeps
<1>4. list \in Seq(found) /\ Ordered(list)
  BY <1>3 DEF Outer, Ordered
<1>5. \A x \in found : StartsWith(x.path, x.root) /\ Entry(disk, x.path) \in {x.path, Nowhere}
  BY <1>1, FoundInRoot, CandidatesStraight
<1> QED
  BY <1>1, <1>2, <1>3, <1>4, <1>5 DEF Resolved, found, list

(* A candidate that is left over from the disk the call found.             *)
LEMMA WasIs ==
    ASSUME Settled, NEW i \in 1 .. Len(Was)
    PROVE  LET x == Was[i]
           IN  /\ x \in Candidates(before, cfg, home) /\ Resolved(before, cfg, x)
               /\ x.path \in Path /\ HasName(x.path) /\ x.root \in Path /\ StartsWith(x.path, x.root)
               /\ Entry(before, x.path) \in {x.path, Nowhere}
               /\ \A j \in 1 .. Len(Was) : i # j => ~StartsWith(x.path, Was[j].path)
<1>1. /\ HomeIs /\ cfg \in Config /\ WellFormed(before) /\ NoAlias(before, home, cfg)
  BY SettledIs
<1> DEFINE found == Candidates(before, cfg, home)
<1>2. /\ Was \in Seq(found) /\ Ordered(Was)
      /\ \A x \in found : /\ Resolved(before, cfg, x) /\ x.path \in Path /\ HasName(x.path)
                          /\ x.root \in Path /\ StartsWith(x.path, x.root)
                          /\ Entry(before, x.path) \in {x.path, Nowhere}
  BY <1>1, ListingIs DEF Was
<1> HIDE DEF found
<1>3. Was[i] \in found
  BY <1>2, ElementType
<1>4. Was \in Seq(Candidate)
  <2>1. \A x \in found : x \in Candidate
    BY <1>2 DEF Resolved, Found, Candidate
  <2> QED
    BY <1>2, <2>1
<1>5. \A j \in 1 .. Len(Was) : i # j => ~StartsWith(Was[i].path, Was[j].path)
  <2> SUFFICES ASSUME NEW j \in 1 .. Len(Was), i # j PROVE ~StartsWith(Was[i].path, Was[j].path)
    OBVIOUS
  <2>1. i \in 1 .. j - 1 \/ j \in 1 .. i - 1
    OBVIOUS
  <2> QED
    BY <1>2, <1>4, <2>1, NeverBack
<1> QED
  BY <1>2, <1>3, <1>5 DEF found

LEMMA DyingIs ==
    ASSUME Settled, NEW i \in 1 .. Len(Was), Dies(i)
    PROVE  LET p == Was[i].path
           IN  /\ p \in DOMAIN before /\ p \in Gone /\ Entry(before, p) = p /\ p # <<"/">>
               /\ \A q \in DOMAIN before : StartsWith(q, p) => q \notin DOMAIN fs
<1> DEFINE p == Was[i].path
<1>1. p \in Path /\ HasName(p) /\ Entry(before, p) \in {p, Nowhere} /\ WellFormed(before)
  BY SettledIs, WasIs
<1>2. Entry(before, p) # Nowhere
  BY <1>1, NothingThere DEF Dies
<1>3. Entry(before, p) = p /\ p \in DOMAIN before /\ p # <<"/">>
  BY <1>1, <1>2, EntryPlace DEF Places
<1>4. \A q \in DOMAIN before : StartsWith(q, p) => q \in Gone
  BY DEF Settled, Swept
<1>5. StartsWith(p, p)
  BY <1>1, Prefix DEF AgreeTo, Path
<1> QED
  BY <1>3, <1>4, <1>5 DEF Gone

(* Only the directories such candidates were in are touched.               *)
LEMMA OnlyAround ==
    ASSUME Settled, NEW q \in DOMAIN fs
    PROVE  \/ fs[q] = before[q]
           \/ fs[q].mtime = Now /\ \E i \in 1 .. Len(Was) : Dies(i) /\ Parent(Was[i].path) = q
<1>1. WellFormed(before) /\ WellFormed(fs) /\ Remains(fs, before)
  BY SettledIs
<1>2. q \in DOMAIN before /\ before[q] \in Nodes
  BY <1>1, WellFormedParts DEF Remains
<1> SUFFICES ASSUME fs[q] # before[q]
             PROVE  fs[q].mtime = Now /\ \E i \in 1 .. Len(Was) : Dies(i) /\ Parent(Was[i].path) = q
  OBVIOUS
<1>3. /\ \E g \in Gone : g # <<"/">> /\ Parent(g) = q
      /\ fs[q] = [before[q] EXCEPT !.mtime = Now]
  BY DEF Settled, Wiped
<1>4. fs[q].mtime = Now
  BY <1>2, <1>3 DEF Nodes
<1>5. PICK g \in Gone : g # <<"/">> /\ Parent(g) = q
  BY <1>3
<1>6. g \in DOMAIN before /\ g \in Path /\ g # << >>
  BY <1>1, WellFormedParts DEF Gone, Nowhere
<1>7. PICK i \in 1 .. Len(Was) : Dies(i) /\ StartsWith(g, Was[i].path)
  BY <1>6 DEF Settled, Swept
<1>8. Was[i].path \in Path
  BY WasIs
<1>9. g = Was[i].path
  <2> SUFFICES ASSUME g # Was[i].path PROVE FALSE
    OBVIOUS
  <2>1. StartsWith(q, Was[i].path)
    BY <1>5, <1>6, <1>7, <1>8, AroundParent
  <2> QED
    BY <1>2, <1>7, <2>1, DyingIs
<1> QED
  BY <1>4, <1>5, <1>7, <1>9

(* What is not deleted itself is left alone to the last file.              *)
LEMMA LeftAlone ==
    ASSUME Settled, NEW j \in 1 .. Len(Was), ~Dies(j), Was[j].path \in DOMAIN before
    PROVE  Untouched(fs, before, Was[j].path)
<1> DEFINE p == Was[j].path
<1>1. WellFormed(before) /\ Remains(fs, before) /\ p \in Path
  BY SettledIs, WasIs
<1>2. ASSUME NEW i \in 1 .. Len(Was), Dies(i), NEW r \in Path, StartsWith(r, p), StartsWith(r, Was[i].path)
      PROVE  FALSE
  <2>1. Was[i].path \in Path /\ i # j
    BY <1>2, WasIs
  <2>2. StartsWith(p, Was[i].path) \/ StartsWith(Was[i].path, p)
    BY <1>1, <1>2, <2>1, OneInOther
  <2> QED
    BY <2>1, <2>2, WasIs
<1> HIDE DEF p
<1>3. ASSUME NEW r \in DOMAIN before, StartsWith(r, p) PROVE r \in DOMAIN fs
  <2>1. r \in Path
    BY <1>1, WellFormedParts
  <2>2. r \notin Gone
    BY <1>2, <1>3, <2>1 DEF Settled, Swept
  <2> QED
    BY <2>2 DEF Gone
<1>4. ASSUME NEW r \in DOMAIN before, StartsWith(r, p) PROVE fs[r] = before[r]
  <2> SUFFICES ASSUME NEW i \in 1 .. Len(Was), Dies(i), Parent(Was[i].path) = r PROVE FALSE
    BY <1>3, <1>4, OnlyAround
  <2>1. Was[i].path \in Path /\ Was[i].path # << >> /\ r \in Path
    BY <1>1, WasIs, WellFormedParts DEF HasName
  <2>2. StartsWith(Was[i].path, r) /\ StartsWith(Was[i].path, Was[i].path)
    BY <2>1, InParent, Prefix DEF AgreeTo, Path
  <2>3. StartsWith(Was[i].path, p)
    BY <1>1, <1>4, <2>1, <2>2, InsideTwice
  <2> QED
    BY <1>2, <2>1, <2>2, <2>3
<1>5. p \in DOMAIN before /\ StartsWith(p, p)
  BY <1>1, Prefix DEF p, AgreeTo, Path
<1> QED
  BY <1>3, <1>4, <1>5 DEF Untouched, p

LEMMA ReasonLeft ==
    ASSUME Settled, NEW j \in 1 .. Len(Was), ~Dies(j), Was[j].path \in DOMAIN fs
    PROVE  ReasonAt(fs, cfg, home, Was[j]) # "ok"
<1> DEFINE x == Was[j]
           p == x.path
<1>1. /\ WellFormed(fs) /\ WellFormed(before) /\ Remains(fs, before) /\ Asked
      /\ Resolved(before, cfg, x) /\ p \in Path /\ HasName(p) /\ x.root \in Path
      /\ StartsWith(p, x.root) /\ Entry(before, p) \in {p, Nowhere}
  BY SettledIs, WasIs
<1>2. ReasonAt(before, cfg, home, x) # "ok"
  BY DEF Dies
<1>3. Untouched(fs, before, p)
  <2>1. p \in DOMAIN before
    BY <1>1 DEF Remains
  <2> QED
    BY <2>1, LeftAlone
<1> HIDE DEF x
<1>4. CASE Entry(before, p) = p
  <2>1. before[p].type # "link" /\ Locks(fs)
    BY <1>1, <1>4, CandidateNoLink DEF Settled, Fit
  <2>2. fs[p].type # "link"
    BY <1>1, <1>3, <2>1 DEF Untouched, Remains
  <2>3. ReasonAt(fs, cfg, home, x) = ReasonAt(before, cfg, home, x)
    BY <1>1, <1>3, <1>4, <2>1, <2>2, ReasonKept
  <2> QED
    BY <1>2, <2>3 DEF x
<1>5. CASE Entry(before, p) = Nowhere
  <2>1. Entry(fs, p) = Nowhere
    BY <1>1, <1>5, EntryRemains
  <2>2. ReasonAt(fs, cfg, home, x) # "ok"
    BY <1>1, <2>1, NothingThere
  <2> QED
    BY <2>2 DEF x
<1> QED
  BY <1>1, <1>4, <1>5

(* What is gone was in a candidate that one of the searches found.         *)
LEMMA GoneIsFound ==
    ASSUME Settled, NEW q \in DOMAIN before, q \notin DOMAIN fs
    PROVE  \E i \in 1 .. Len(Was) :
               /\ Dies(i) /\ StartsWith(q, Was[i].path)
               /\ \E idx \in Considered(cfg) : \/ HomeFound(Was[i], idx)
                                               \/ VersionFound(before, Was[i], idx)
                                               \/ NamedFound(before, cfg, Was[i], idx)
<1>1. PICK i \in 1 .. Len(Was) : Dies(i) /\ StartsWith(q, Was[i].path)
  BY DEF Settled, Swept, Gone
<1>2. Was[i] \in Candidates(before, cfg, home)
  BY WasIs
<1> QED
  BY <1>1, <1>2, SettledIs, FoundIs

(* A directory that installs are searched in: nothing there is from the    *)
(* future or has a name that another search looks for.                     *)
LEMMA InstallPlace ==
    ASSUME Settled, NEW idx \in DOMAIN catalog, catalog[idx].kind = "VersionedDirs",
           NEW k \in DOMAIN catalog[idx].subs,
           NEW disk, WellFormed(disk), Remains(disk, scene.disk),
           is_dir(disk, home \o catalog[idx].subs[k]),
           disk[Walk(disk, home \o catalog[idx].subs[k])].mode # "none"
    PROVE  LET dir == home \o catalog[idx].subs[k]
           IN  /\ dir \in Path /\ dir # << >> /\ Walk(disk, dir) = dir
               /\ \A a \in DOMAIN disk : Len(a) > 1 /\ Parent(a) = dir =>
                      /\ scene.disk[a].mtime <= Now
                      /\ \A t \in DOMAIN catalog : Last(a) # catalog[t].name
<1> DEFINE dir == home \o catalog[idx].subs[k]
<1>1. /\ HomeIs /\ cfg \in Config /\ WellFormed(scene.disk) /\ NoAlias(scene.disk, home, cfg)
      /\ Asked /\ IInv
  BY SettledIs
<1>2. LET p == home_path(home, catalog[idx].subs[k]) IN p \in Path /\ HasName(p) /\ p = dir
  BY <1>1, LocationPath
<1>3. dir \in Path /\ dir # << >> /\ dir = home_path(home, catalog[idx].subs[k])
  BY <1>2 DEF HasName
<1>4. Straight(scene.disk, dir)
  BY <1>1, <1>3 DEF NoAlias
<1> HIDE DEF dir
<1>5. is_dir(disk, dir) /\ disk[Walk(disk, dir)].mode # "none"
  BY DEF dir
<1>6. Walk(disk, dir) = dir /\ Walk(scene.disk, dir) = dir
  <2>1. Walk(disk, dir) # Nowhere /\ Walk(disk, dir) = WalkFrom(disk, Here(disk), dir)
        /\ Walk(scene.disk, dir) = WalkFrom(scene.disk, Here(scene.disk), dir)
    BY <1>3, <1>5 DEF is_dir, exists, Walk
  <2>2. Walk(scene.disk, dir) = Walk(disk, dir)
    BY <1>1, <1>3, <2>1, WalkRemains
  <2> QED
    BY <1>4, <2>1, <2>2 DEF Straight
<1>7. dir \in DOMAIN disk /\ disk[dir].type = "dir" /\ disk[dir].mode # "none"
  <2>1. Here(disk) \in Places(disk)
    BY HereStays
  <2>2. WalkFrom(disk, Here(disk), dir) \in Places(disk)
    BY <1>3, <2>1, WalkStays
  <2> QED
    BY <1>3, <1>5, <1>6, <2>2 DEF Places, Walk, is_dir, Nowhere
<1>8. ASSUME NEW a \in DOMAIN disk, Len(a) > 1, Parent(a) = dir
      PROVE  a \in Children(scene.disk, dir)
  <2>1. a \in DOMAIN scene.disk /\ scene.disk[dir].type = "dir" /\ scene.disk[dir].mode # "none"
    BY <1>7 DEF Remains
  <2>2. is_dir(scene.disk, dir)
    BY <1>3, <1>6, <2>1 DEF is_dir, exists, Nowhere
  <2> QED
    BY <1>6, <1>8, <2>1, <2>2 DEF Children
<1>9. home \in {scene.calls[i].home : i \in DOMAIN scene.calls} \ {Nowhere}
  <2>1. scene.calls \in Seq([home : Path, args : Seq(DOMAIN Paths)])
    BY <1>1, SystemAssumption DEF IInv, Basics
  <2>2. Len(scene.calls) \in Nat /\ DOMAIN scene.calls = 1 .. Len(scene.calls)
    BY <2>1, Indexes
  <2>3. nth \in DOMAIN scene.calls
    BY <1>1, <2>2, AboveZero DEF IInv, Basics, Asked
  <2> QED
    BY <1>1, <2>3 DEF home, HomeIs
<1>10. \A a \in Children(scene.disk, home \o catalog[idx].subs[k]) :
           scene.disk[a].mtime <= Now /\ \A t \in DOMAIN catalog : Last(a) # catalog[t].name
  BY <1>9 DEF Settled, Fit, Orderly
<1> QED
  BY <1>3, <1>6, <1>8, <1>10 DEF dir

(* Proof of a build directory outlives a call that leaves the directory.   *)
LEMMA SiblingKept ==
    ASSUME Settled, NEW idx \in DOMAIN catalog, NEW a \in DOMAIN fs, Len(a) > 1,
           Last(a) = catalog[idx].name, NEW n \in catalog[idx].siblings,
           exists(before, Append(Parent(a), n))
    PROVE  exists(fs, Append(Parent(a), n))
<1> DEFINE d == Parent(a)
           s == Append(d, n)
<1>1. /\ WellFormed(fs) /\ WellFormed(before) /\ Remains(fs, before) /\ Remains(before, scene.disk)
      /\ HomeIs /\ cfg \in Config
  BY SettledIs
<1>2. n \in Component \ Special /\ n \in Manifests
  BY CatalogIs DEF Sound
<1>3. a \in Path /\ Len(a) \in Nat /\ a \in DOMAIN before /\ a # << >>
  BY <1>1, WellFormedParts DEF Path, Remains
<1>4. d \in Path /\ d = SubSeq(a, 1, Len(a) - 1) /\ Len(a) - 1 \in 1 .. Len(a) /\ Len(a) - 1 < Len(a)
  BY <1>3 DEF Parent, Front, Path
<1>5. d \in DOMAIN fs /\ d \in DOMAIN before /\ d # Nowhere
  <2>1. d \in DOMAIN fs
    BY <1>1, <1>4, PrefixesExist
  <2> QED
    BY <1>1, <2>1, WellFormedParts DEF Remains
<1>6. /\ WalkFrom(fs, Here(fs), d) = WalkFrom(before, Here(before), d)
      /\ WalkFrom(fs, Here(fs), d) \in {d, Nowhere}
  BY <1>1, <1>4, WalkKept DEF Unlinked
<1> HIDE DEF d
<1>7. s \in Path /\ s # << >> /\ Parent(s) = d /\ Last(s) = n
  BY <1>2, <1>4 DEF Path, Parent, Front, Last
<1>8. /\ Here(fs) \in Places(fs) /\ Here(before) \in Places(before)
  BY HereStays
<1>9. /\ Walk(before, s) = Step(before, WalkFrom(before, Here(before), d), n)
      /\ Walk(fs, s) = Step(fs, WalkFrom(fs, Here(fs), d), n)
  <2>1. WalkFrom(before, Here(before), Append(d, n)) = Step(before, WalkFrom(before, Here(before), d), n)
    BY <1>1, <1>4, <1>8, WalkAppend
  <2>2. WalkFrom(fs, Here(fs), Append(d, n)) = Step(fs, WalkFrom(fs, Here(fs), d), n)
    BY <1>1, <1>4, <1>8, WalkAppend
  <2> QED
    BY <1>7, <2>1, <2>2 DEF Walk
<1>10. Walk(before, s) # Nowhere
  BY DEF exists, d
<1>11. /\ WalkFrom(before, Here(before), d) = d /\ s \in DOMAIN before /\ before[d].mode # "none"
  <2>1. WalkFrom(before, Here(before), d) # Nowhere
    BY <1>2, <1>9, <1>10 DEF Step, Special
  <2>2. Step(before, d, n) # Nowhere /\ WalkFrom(before, Here(before), d) = d
    BY <1>6, <1>9, <1>10, <2>1
  <2> QED
    BY <1>2, <1>5, <2>2 DEF Step, Special, Lookup
<1>12. before[s].type # "link"
  <2>1. s \in DOMAIN scene.disk /\ scene.disk[s].type = before[s].type
    BY <1>1, <1>11 DEF Remains
  <2> QED
    BY <1>7, <2>1 DEF Settled, Fit, Vouched
<1>13. s \in DOMAIN fs
  <2> SUFFICES ASSUME s \notin DOMAIN fs PROVE FALSE
    OBVIOUS
  <2>1. PICK i \in 1 .. Len(Was) :
            /\ Dies(i) /\ StartsWith(s, Was[i].path)
            /\ \E t \in Considered(cfg) : \/ HomeFound(Was[i], t)
                                          \/ VersionFound(before, Was[i], t)
                                          \/ NamedFound(before, cfg, Was[i], t)
    BY <1>11, GoneIsFound
  <2> DEFINE e == Was[i].path
  <2>2. e \in Path
    BY WasIs
  <2>3. e = s
    <3> SUFFICES ASSUME e # s PROVE FALSE
      OBVIOUS
    <3>1. StartsWith(d, e)
      BY <1>7, <2>1, <2>2, AroundParent
    <3>2. StartsWith(a, d)
      BY <1>3, InParent DEF d
    <3>3. StartsWith(a, e)
      BY <1>3, <1>4, <2>2, <3>1, <3>2, InsideTwice
    <3> QED
      BY <1>3, <2>1, <3>3, DyingIs
  <2>4. PICK t \in Considered(cfg) : \/ HomeFound(Was[i], t)
                                     \/ VersionFound(before, Was[i], t)
                                     \/ NamedFound(before, cfg, Was[i], t)
    BY <2>1
  <2>5. t \in DOMAIN catalog
    BY DEF Considered
  <2>6. CASE HomeFound(Was[i], t)
    <3>1. PICK k \in DOMAIN catalog[t].subs : e = home \o catalog[t].subs[k]
      BY <2>6 DEF HomeFound, HomeCandidates, Found, home_path
    <3>2. catalog[t].subs \in Seq(Path) /\ Placed(catalog[t].subs[k])
      BY <2>5, CatalogIs DEF Sound, AllNamed
    <3> DEFINE sub == catalog[t].subs[k]
    <3>3. sub \in Path /\ sub # << >> /\ Last(sub) \notin Manifests
      BY <3>2 DEF Placed, HasName
    <3> HIDE DEF sub
    <3>4. Last(home \o sub) = Last(sub)
      <4>1. home \in Seq(Component) /\ sub \in Seq(Component) /\ Len(sub) > 0
        BY <1>1, <3>3 DEF HomeIs, Path
      <4> QED
        BY <4>1, EndOfConcat
    <3> QED
      BY <1>2, <1>7, <2>3, <3>1, <3>3, <3>4 DEF sub
  <2>7. CASE VersionFound(before, Was[i], t)
    <3>1. PICK k \in DOMAIN catalog[t].subs : s \in VersionsIn(before, home \o catalog[t].subs[k])
      BY <2>3, <2>7 DEF VersionFound
    <3>2. /\ catalog[t].kind = "VersionedDirs" /\ is_dir(before, home \o catalog[t].subs[k])
          /\ before[Walk(before, home \o catalog[t].subs[k])].mode # "none"
          /\ Parent(s) = Walk(before, home \o catalog[t].subs[k])
      BY <2>7, <3>1 DEF VersionFound, VersionsIn, Children
    <3>3. Parent(a) = home \o catalog[t].subs[k] => Last(a) # catalog[idx].name
      BY <1>1, <1>3, <2>5, <3>2, InstallPlace
    <3>4. Walk(before, home \o catalog[t].subs[k]) = home \o catalog[t].subs[k]
      BY <1>1, <2>5, <3>2, InstallPlace
    <3> QED
      BY <1>7, <3>2, <3>3, <3>4 DEF d
  <2>8. CASE NamedFound(before, cfg, Was[i], t)
    <3>1. Last(e) = catalog[t].name
      BY <2>8 DEF NamedFound, Matches
    <3>2. catalog[t].name \notin Manifests
      BY <2>5, CatalogIs DEF Sound
    <3> QED
      BY <1>2, <1>7, <2>3, <3>1, <3>2
  <2> QED
    BY <2>4, <2>6, <2>7, <2>8
<1>14. fs[s].type # "link" /\ fs[d].mode # "none"
  BY <1>1, <1>5, <1>11, <1>12, <1>13 DEF Remains
<1>15. Step(fs, d, n) = s
  BY <1>2, <1>5, <1>13, <1>14 DEF Step, Special, Lookup
<1> QED
  BY <1>6, <1>7, <1>9, <1>11, <1>15 DEF exists, Nowhere, d

(* A search for build directories finds again what is left of the first.   *)
LEMMA MatchesLeft ==
    ASSUME Settled, NEW idx \in DOMAIN catalog, NEW k \in DOMAIN cfg.scan_roots, NEW r
    PROVE  LET m(disk) == Matches(disk, cfg.scan_roots[k], catalog[idx].name, catalog[idx].siblings)
           IN  r \in m(fs) <=> r \in m(before) /\ r \in DOMAIN fs
<1> DEFINE root == cfg.scan_roots[k]
           name == catalog[idx].name
           siblings == catalog[idx].siblings
<1>1. /\ WellFormed(fs) /\ WellFormed(before) /\ Remains(fs, before) /\ cfg \in Config
      /\ NoAlias(before, home, cfg)
  BY SettledIs
<1>2. root \in Path /\ Straight(before, root)
  <2>1. cfg.scan_roots \in Seq(Path)
    BY <1>1 DEF Config
  <2> QED
    BY <1>1, <2>1 DEF NoAlias
<1>3. siblings \subseteq Component \ Special
  BY CatalogIs
<1> HIDE DEF root, name, siblings
<1>4. ASSUME NEW q \in DOMAIN fs
      PROVE  q \in Readable(fs, root) <=> q \in Readable(before, root)
  <2>1. q \in DOMAIN before /\ q \in Path /\ Len(q) \in Nat
    BY <1>1, WellFormedParts DEF Remains, Path
  <2>2. ASSUME NEW i \in Len(root) .. Len(q) - 1, root # << >>
        PROVE  fs[SubSeq(q, 1, i)].mode = before[SubSeq(q, 1, i)].mode
    <3>1. i \in 1 .. Len(q)
      BY <1>2, <2>1, <2>2 DEF Path
    <3>2. SubSeq(q, 1, i) \in DOMAIN fs
      BY <1>1, <3>1, PrefixesExist
    <3> QED
      BY <1>1, <3>2 DEF Remains
  <2> QED
    BY <2>1, <2>2 DEF Readable, Tree, Nowhere
<1>5. ASSUME NEW q \in DOMAIN fs, Len(q) > 1, Last(q) = name
      PROVE  has_sibling(fs, q, siblings) <=> has_sibling(before, q, siblings)
  <2>1. ASSUME NEW n \in siblings
        PROVE  exists(fs, Append(Parent(q), n)) <=> exists(before, Append(Parent(q), n))
    <3> DEFINE s == Append(Parent(q), n)
    <3>1. q \in Path /\ n \in Component
      BY <1>1, <1>3, WellFormedParts
    <3>2. s \in Path /\ s # << >>
      BY <1>5, <3>1 DEF Path, Parent, Front
    <3>3. exists(before, s) => exists(fs, s)
      BY <1>5, <2>1, SiblingKept DEF name, siblings
    <3> HIDE DEF s
    <3>4. exists(fs, s) => exists(before, s)
      BY <1>1, <3>2, WalkRemains DEF exists, Walk
    <3> QED
      BY <3>3, <3>4 DEF s
  <2> QED
    BY <2>1 DEF has_sibling
<1>6. ASSUME NEW q \in DOMAIN fs, q \in Readable(before, root), q # root
      PROVE  /\ is_dir(fs, root) <=> is_dir(before, root)
             /\ Len(q) > 1
  <2>1. q \in Path /\ Len(q) \in Nat /\ root # << >> /\ StartsWith(q, root)
    BY <1>1, <1>6, WellFormedParts DEF Readable, Tree, Path, Nowhere
  <2>2. Len(root) \in Nat /\ Len(root) > 0 /\ Len(root) < Len(q) /\ root = SubSeq(q, 1, Len(root))
    <3>1. Len(root) <= Len(q) /\ AgreeTo(root, q, Len(root)) /\ Len(root) \in Nat
      BY <1>2, <2>1, Prefix DEF Path
    <3>2. root = SubSeq(q, 1, Len(root))
      BY <1>2, <2>1, <3>1 DEF Path, AgreeTo
    <3>3. SubSeq(q, 1, Len(q)) = q
      BY <2>1 DEF Path
    <3> QED
      BY <1>2, <1>6, <2>1, <3>1, <3>2, <3>3 DEF Path
  <2>3. Len(root) \in 1 .. Len(q) /\ Unlinked(fs, q, Len(root))
    BY <2>1, <2>2 DEF Unlinked
  <2>4. WalkFrom(fs, Here(fs), root) = WalkFrom(before, Here(before), root)
    BY <1>1, <2>2, <2>3, WalkKept
  <2>5. root \in DOMAIN fs /\ root # Nowhere
    <3>1. SubSeq(q, 1, Len(root)) \in DOMAIN fs
      BY <1>1, <2>3, PrefixesExist
    <3> QED
      BY <1>1, <2>2, <3>1, WellFormedParts
  <2>6. Walk(fs, root) = Walk(before, root) /\ Walk(before, root) \in {root, Nowhere}
    BY <1>2, <2>1, <2>4 DEF Walk, Straight
  <2> QED
    BY <1>1, <2>2, <2>5, <2>6 DEF is_dir, exists, Remains
<1>7. r \in Matches(fs, root, name, siblings) => r \in Matches(before, root, name, siblings) /\ r \in DOMAIN fs
  <2> SUFFICES ASSUME r \in Matches(fs, root, name, siblings)
               PROVE  r \in Matches(before, root, name, siblings) /\ r \in DOMAIN fs
    OBVIOUS
  <2>1. r \in DOMAIN fs /\ r \in Readable(fs, root) /\ r # root
    BY DEF Matches, Readable, Tree
  <2>2. fs[r].type = before[r].type
    BY <1>1, <2>1 DEF Remains
  <2>3. Len(r) > 1 /\ (is_dir(fs, root) <=> is_dir(before, root)) /\ r \in Readable(before, root)
    BY <1>4, <1>6, <2>1
  <2> QED
    BY <1>5, <2>1, <2>2, <2>3 DEF Matches
<1>8. r \in Matches(before, root, name, siblings) /\ r \in DOMAIN fs => r \in Matches(fs, root, name, siblings)
  <2> SUFFICES ASSUME r \in Matches(before, root, name, siblings), r \in DOMAIN fs
               PROVE  r \in Matches(fs, root, name, siblings)
    OBVIOUS
  <2>1. r \in Readable(before, root) /\ r # root
    BY DEF Matches
  <2>2. fs[r].type = before[r].type
    BY <1>1 DEF Remains
  <2>3. Len(r) > 1 /\ (is_dir(fs, root) <=> is_dir(before, root)) /\ r \in Readable(fs, root)
    BY <1>4, <1>6, <2>1
  <2> QED
    BY <1>5, <2>1, <2>2, <2>3 DEF Matches
<1> QED
  BY <1>7, <1>8 DEF root, name, siblings

LEMMA AboveIn ==
    ASSUME NEW disk, WellFormed(disk), NEW q \in DOMAIN disk, NEW p \in Path, p # << >>, StartsWith(q, p)
    PROVE  p \in DOMAIN disk
<1>1. q \in Path /\ Len(q) \in Nat /\ Len(p) \in Nat /\ Len(p) > 0
  BY WellFormedParts DEF Path
<1>2. Len(p) <= Len(q) /\ AgreeTo(p, q, Len(p))
  BY <1>1, Prefix
<1>3. SubSeq(q, 1, Len(p)) = p
  BY <1>1, <1>2 DEF Path, AgreeTo
<1>4. Len(p) \in 1 .. Len(q)
  BY <1>1, <1>2
<1>5. SubSeq(q, 1, Len(p)) \in DOMAIN disk
  BY <1>4, PrefixesExist
<1> QED
  BY <1>3, <1>5

(* Every candidate the call found is in one that it judged.                *)
LEMMA Covered ==
    ASSUME Settled, NEW x \in Candidates(before, cfg, home)
    PROVE  \E j \in 1 .. Len(Was) : StartsWith(x.path, Was[j].path) /\ ~SortsBefore(x, Was[j])
<1>1. /\ HomeIs /\ cfg \in Config /\ WellFormed(before) /\ NoAlias(before, home, cfg)
  BY SettledIs
<1> DEFINE found == Candidates(before, cfg, home)
<1>2. Sortable(found) /\ Outer(found, Was, Cardinality(found))
  BY <1>1, ListingIs DEF Was
<1>3. PICK l \in 1 .. Cardinality(found) : Nth(found, l) = x
  BY <1>2, NthOf
<1> HIDE DEF found
<1> QED
  BY <1>2, <1>3 DEF Outer

(* What is in such a candidate and still there is as it was.               *)
LEMMA CoveredKept ==
    ASSUME Settled, NEW x \in Candidates(before, cfg, home), x.path \in DOMAIN fs
    PROVE  fs[x.path] = before[x.path]
<1>1. PICK j \in 1 .. Len(Was) : StartsWith(x.path, Was[j].path)
  BY Covered
<1>2. /\ WellFormed(before) /\ x.path \in DOMAIN before /\ Was[j].path \in Path /\ Was[j].path # << >>
  BY SettledIs, WasIs DEF Remains, HasName
<1>3. ~Dies(j)
  BY <1>1, <1>2, DyingIs
<1>4. Was[j].path \in DOMAIN before
  BY <1>1, <1>2, AboveIn
<1>5. Untouched(fs, before, Was[j].path)
  BY <1>3, <1>4, LeftAlone
<1> QED
  BY <1>1, <1>2, <1>5 DEF Untouched

LEMMA VersionPlace ==
    ASSUME Settled, NEW idx \in DOMAIN catalog, catalog[idx].kind = "VersionedDirs",
           NEW k \in DOMAIN catalog[idx].subs, NEW dir, dir = home \o catalog[idx].subs[k]
    PROVE  /\ dir \in Path /\ dir # << >> /\ Straight(fs, dir) /\ Straight(before, dir)
           /\ catalog[idx].subs[k] \in Path /\ catalog[idx].subs[k] \in VersionPlaces
<1>1. /\ HomeIs /\ NoAlias(fs, home, cfg) /\ NoAlias(before, home, cfg)
  BY SettledIs
<1>2. LET p == home_path(home, catalog[idx].subs[k]) IN p \in Path /\ HasName(p) /\ p = dir
  BY <1>1, LocationPath
<1>3. catalog[idx].subs[k] \in Path /\ catalog[idx].subs[k] \in VersionPlaces
  BY CatalogIs DEF Aside
<1> QED
  BY <1>1, <1>2, <1>3 DEF NoAlias, HasName

LEMMA VersionsLeft ==
    ASSUME Settled, NEW idx \in DOMAIN catalog, catalog[idx].kind = "VersionedDirs",
           NEW k \in DOMAIN catalog[idx].subs, NEW dir, dir = home \o catalog[idx].subs[k], NEW r
    PROVE  r \in VersionsIn(fs, dir) <=> r \in VersionsIn(before, dir) /\ r \in DOMAIN fs
<1>1. /\ WellFormed(fs) /\ WellFormed(before) /\ Remains(fs, before)
      /\ dir \in Path /\ dir # << >> /\ Straight(fs, dir) /\ Straight(before, dir)
  BY SettledIs, VersionPlace
<1>2. ASSUME r \in VersionsIn(fs, dir) PROVE r \in VersionsIn(before, dir) /\ r \in DOMAIN fs
  <2>1. /\ r \in DOMAIN fs /\ fs[r].type = "dir" /\ Len(r) > 1 /\ Parent(r) = dir
        /\ is_dir(fs, dir) /\ Walk(fs, dir) = dir /\ fs[dir].mode # "none" /\ dir \in DOMAIN fs
    BY <1>1, <1>2, VersionsAre
  <2>2. /\ r \in DOMAIN before /\ before[r].type = "dir" /\ before[dir].mode # "none"
        /\ before[dir].type = "dir" /\ fs[dir].type = "dir"
    BY <1>1, <2>1 DEF Remains, is_dir
  <2>3. Walk(before, dir) = dir
    BY <1>1, <2>1, WalkRemains DEF Walk, Nowhere
  <2> QED
    BY <1>1, <2>1, <2>2, <2>3 DEF VersionsIn, Children, is_dir, exists, Nowhere
<1>3. ASSUME r \in VersionsIn(before, dir), r \in DOMAIN fs PROVE r \in VersionsIn(fs, dir)
  <2>1. /\ r \in Path /\ Len(r) > 1 /\ Parent(r) = dir /\ before[r].type = "dir"
        /\ is_dir(before, dir) /\ Walk(before, dir) = dir /\ before[dir].mode # "none"
    BY <1>1, <1>3, VersionsAre
  <2>2. dir = SubSeq(r, 1, Len(r) - 1) /\ Len(r) - 1 \in 1 .. Len(r) /\ Len(r) - 1 < Len(r)
    BY <2>1 DEF Parent, Front, Path
  <2>3. dir \in DOMAIN fs
    BY <1>1, <1>3, <2>2, PrefixesExist
  <2>4. WalkFrom(fs, Here(fs), dir) = WalkFrom(before, Here(before), dir)
    BY <1>1, <1>3, <2>2, WalkKept DEF Unlinked
  <2>5. Walk(fs, dir) = dir
    BY <1>1, <2>1, <2>4 DEF Walk
  <2>6. fs[r].type = "dir" /\ fs[dir].mode # "none" /\ fs[dir].type = "dir"
    BY <1>1, <1>3, <2>1, <2>3 DEF Remains, is_dir
  <2> QED
    BY <1>1, <1>3, <2>1, <2>5, <2>6 DEF VersionsIn, Children, is_dir, exists, Nowhere
<1> QED
  BY <1>2, <1>3

(* No install that is left is older than it was.                           *)
LEMMA NoYounger ==
    ASSUME Settled, NEW idx \in DOMAIN catalog, catalog[idx].kind = "VersionedDirs",
           NEW k \in DOMAIN catalog[idx].subs, NEW dir, dir = home \o catalog[idx].subs[k],
           NEW r \in VersionsIn(before, dir), r \in DOMAIN fs
    PROVE  /\ fs[r].mtime >= before[r].mtime /\ fs[r].mtime \in Nat /\ before[r].mtime \in Nat
<1>1. /\ WellFormed(fs) /\ WellFormed(before) /\ Remains(before, scene.disk) /\ Now \in Nat
      /\ dir \in Path /\ dir # << >> /\ Straight(before, dir)
  BY SettledIs, VersionPlace
<1>2. /\ r \in DOMAIN before /\ Len(r) > 1 /\ Parent(r) = dir /\ is_dir(before, dir)
      /\ Walk(before, dir) = dir /\ before[dir].mode # "none"
  BY <1>1, VersionsAre
<1>3. fs[r].mtime \in Nat /\ before[r].mtime \in Nat
  BY <1>1, <1>2, NodeParts
<1>4. scene.disk[r].mtime <= Now
  BY <1>1, <1>2, InstallPlace
<1>5. before[r].mtime <= Now
  BY <1>1, <1>2, <1>4 DEF Settled, Clocked
<1>6. fs[r].mtime = before[r].mtime \/ fs[r].mtime = Now
  BY OnlyAround
<1> QED
  BY <1>1, <1>3, <1>5, <1>6

LEMMA NewerIs ==
    ASSUME NEW disk, WellFormed(disk), NEW dir \in Path, dir # << >>, Straight(disk, dir)
    PROVE  /\ \A r, s \in VersionsIn(disk, dir) :
                  /\ disk[r].mtime \in Nat /\ Rank(Last(r)) \in Nat
                  /\ Rank(Last(r)) = Rank(Last(s)) => r = s
           /\ \A r, s \in VersionsIn(disk, dir) : Newer(disk, r, s) \/ Newer(disk, s, r) \/ r = s
           /\ \A r, s \in VersionsIn(disk, dir) : ~(Newer(disk, r, s) /\ Newer(disk, s, r))
<1>1. ASSUME NEW r \in VersionsIn(disk, dir)
      PROVE  /\ disk[r].mtime \in Nat /\ Rank(Last(r)) \in Nat
             /\ Last(r) \in Component /\ r = Append(dir, Last(r))
  <2>1. r \in DOMAIN disk /\ Last(r) \in Component /\ r = Append(dir, Last(r))
    BY VersionsAre
  <2> QED
    BY <2>1, NodeParts, RankType
<1>2. \A r, s \in VersionsIn(disk, dir) : Rank(Last(r)) = Rank(Last(s)) => r = s
  BY <1>1, RankType
<1> QED
  BY <1>1, <1>2 DEF Newer

LEMMA NewestIn ==
    ASSUME NEW disk, WellFormed(disk), NEW dir \in Path, dir # << >>, Straight(disk, dir),
           NEW s \in VersionsIn(disk, dir)
    PROVE  \E r \in VersionsIn(disk, dir) :
               /\ version_group(Last(r)) = version_group(Last(s))
               /\ \A q \in VersionsIn(disk, dir) :
                      version_group(Last(q)) = version_group(Last(s)) => q = r \/ Newer(disk, r, q)
<1> DEFINE V == {r \in VersionsIn(disk, dir) : version_group(Last(r)) = version_group(Last(s))}
           T == {disk[r].mtime : r \in V}
           L == {r \in V : disk[r].mtime = Max(T)}
           U == {Rank(Last(r)) : r \in L}
<1>1. V \subseteq VersionsIn(disk, dir) /\ V \subseteq DOMAIN disk /\ IsFiniteSet(V) /\ s \in V
  <2>1. V \subseteq DOMAIN disk
    BY DEF VersionsIn, Children
  <2> QED
    BY <2>1, WellFormedParts, FS_Subset
<1>2. \A r, q \in V : /\ disk[r].mtime \in Nat /\ Rank(Last(r)) \in Nat
                      /\ Rank(Last(r)) = Rank(Last(q)) => r = q
  BY <1>1, NewerIs
<1> HIDE DEF V
<1>3. T \in SUBSET Nat /\ T # {} /\ IsFiniteSet(T)
  <2> DEFINE f == [r \in V |-> disk[r].mtime]
  <2>1. T = {f[r] : r \in V}
    OBVIOUS
  <2> HIDE DEF f
  <2>2. IsFiniteSet({f[r] : r \in V})
    BY <1>1, ImageFinite
  <2>3. T \in SUBSET Nat /\ T # {}
    BY <1>1, <1>2
  <2> HIDE DEF T
  <2> QED
    BY <2>1, <2>2, <2>3
<1>4. Max(T) \in T /\ \A y \in T : Max(T) >= y
  BY <1>3, MaxOf
<1> HIDE DEF T
<1>5. L # {} /\ L \subseteq V /\ IsFiniteSet(L)
  <2>1. L # {}
    BY <1>4 DEF T
  <2> QED
    BY <1>1, <2>1, FS_Subset
<1> HIDE DEF L
<1>6. U \in SUBSET Nat /\ U # {} /\ IsFiniteSet(U)
  <2> DEFINE f == [r \in L |-> Rank(Last(r))]
  <2>1. U = {f[r] : r \in L}
    OBVIOUS
  <2> HIDE DEF f
  <2>2. IsFiniteSet({f[r] : r \in L})
    BY <1>5, ImageFinite
  <2>3. U \in SUBSET Nat /\ U # {}
    BY <1>2, <1>5
  <2> HIDE DEF U
  <2> QED
    BY <2>1, <2>2, <2>3
<1>7. Max(U) \in U /\ \A y \in U : Max(U) >= y
  BY <1>6, MaxOf
<1>8. PICK r \in L : Rank(Last(r)) = Max(U)
  BY <1>7
<1>9. r \in V /\ disk[r].mtime = Max(T)
  BY <1>5 DEF L
<1>10. ASSUME NEW q \in V, q # r PROVE Newer(disk, r, q)
  <2>1. disk[q].mtime \in T /\ disk[q].mtime \in Nat /\ disk[r].mtime \in Nat /\ disk[r].mtime >= disk[q].mtime
    BY <1>2, <1>4, <1>9 DEF T
  <2>2. CASE disk[q].mtime = disk[r].mtime
    <3>1. q \in L
      BY <1>9, <2>2 DEF L
    <3>2. Rank(Last(r)) >= Rank(Last(q))
      BY <1>7, <1>8, <3>1
    <3>3. Rank(Last(r)) # Rank(Last(q)) /\ Rank(Last(r)) \in Nat /\ Rank(Last(q)) \in Nat
      BY <1>2, <1>9, <1>10
    <3>4. Rank(Last(r)) > Rank(Last(q))
      BY <3>2, <3>3
    <3> QED
      BY <2>2, <3>4 DEF Newer
  <2> QED
    BY <2>1, <2>2 DEF Newer
<1> QED
  BY <1>1, <1>9, <1>10 DEF V

LEMMA HomeFoundIs ==
    ASSUME NEW x, NEW t, HomeFound(x, t)
    PROVE  \E l \in DOMAIN catalog[t].subs : x.path = home \o catalog[t].subs[l]
<1>1. PICK l \in DOMAIN catalog[t].subs :
          x = Found(t, l, home \o catalog[t].subs[l], home \o catalog[t].subs[l])
  BY DEF HomeFound, HomeCandidates, home_path
<1> QED
  BY <1>1 DEF Found

(* Nothing is a candidate of the next call that was none of this one.      *)
LEMMA FoundBefore ==
    ASSUME Settled, NEW x \in Candidates(fs, cfg, home)
    PROVE  x \in Candidates(before, cfg, home)
<1>1. /\ WellFormed(fs) /\ WellFormed(before) /\ Remains(fs, before) /\ HomeIs /\ cfg \in Config
      /\ NoAlias(fs, home, cfg) /\ NoAlias(before, home, cfg)
  BY SettledIs
<1>2. PICK idx \in Considered(cfg) : \/ HomeFound(x, idx) \/ VersionFound(fs, x, idx)
                                     \/ NamedFound(fs, cfg, x, idx)
  BY <1>1, FoundIs
<1>3. idx \in DOMAIN catalog
  BY DEF Considered
<1>4. CASE HomeFound(x, idx)
  BY <1>1, <1>4, FoundIs
<1>5. CASE VersionFound(fs, x, idx)
  <2>1. catalog[idx].kind = "VersionedDirs"
    BY <1>5 DEF VersionFound
  <2> DEFINE place(k) == home \o catalog[idx].subs[k]
  <2>2. PICK k \in DOMAIN catalog[idx].subs :
            /\ x = Found(idx, k, x.path, place(k))
            /\ x.path \in VersionsIn(fs, place(k)) /\ Outlived(fs, place(k), x.path)
    BY <1>5 DEF VersionFound
  <2> DEFINE dir == place(k)
             s == x.path
  <2>3. PICK r \in VersionsIn(fs, dir) : version_group(Last(r)) = version_group(Last(s)) /\ Newer(fs, r, s)
    BY <2>2 DEF Outlived
  <2>4. dir = home \o catalog[idx].subs[k]
    OBVIOUS
  <2> HIDE DEF place
  <2>5. dir \in Path /\ dir # << >> /\ Straight(fs, dir) /\ Straight(before, dir)
    BY <1>3, <2>1, <2>4, VersionPlace
  <2>6. \A q : q \in VersionsIn(fs, dir) <=> q \in VersionsIn(before, dir) /\ q \in DOMAIN fs
    BY <1>3, <2>1, <2>4, VersionsLeft
  <2>7. /\ s \in VersionsIn(before, dir) /\ r \in VersionsIn(before, dir) /\ r \in DOMAIN fs /\ s \in DOMAIN fs
    BY <2>2, <2>6
  <2>8. r # s
    <3>1. ~(Newer(fs, r, s) /\ Newer(fs, s, r))
      BY <1>1, <2>2, <2>5, NewerIs
    <3> QED
      BY <2>3, <3>1
  <2>9. ASSUME Newer(before, s, r) PROVE FALSE
    <3> DEFINE y == Found(idx, k, r, dir)
    <3>1. y.path = r /\ y = Found(idx, k, y.path, dir)
      BY DEF Found
    <3>2. Outlived(before, dir, r)
      BY <2>3, <2>7, <2>9 DEF Outlived
    <3> HIDE DEF y
    <3>3. VersionFound(before, y, idx)
      BY <2>1, <2>4, <2>7, <3>1, <3>2 DEF VersionFound
    <3>4. y \in Candidates(before, cfg, home)
      BY <1>1, <3>3, FoundIs
    <3>5. fs[r] = before[r]
      BY <2>7, <3>1, <3>4, CoveredKept
    <3>6. fs[s].mtime >= before[s].mtime /\ fs[s].mtime \in Nat /\ before[s].mtime \in Nat
      BY <1>3, <2>1, <2>4, <2>7, NoYounger
    <3>7. before[r].mtime \in Nat /\ Rank(Last(r)) \in Nat /\ Rank(Last(s)) \in Nat
      BY <1>1, <2>5, <2>7, NewerIs
    <3> QED
      BY <2>3, <2>9, <3>5, <3>6, <3>7 DEF Newer
  <2>10. Newer(before, r, s)
    BY <1>1, <2>5, <2>7, <2>8, <2>9, NewerIs
  <2>11. Outlived(before, dir, s)
    BY <2>3, <2>7, <2>10 DEF Outlived
  <2>12. VersionFound(before, x, idx)
    BY <2>1, <2>2, <2>4, <2>7, <2>11 DEF VersionFound
  <2> QED
    BY <1>1, <2>12, FoundIs
<1>6. CASE NamedFound(fs, cfg, x, idx)
  <2> DEFINE m(disk, k) == Matches(disk, cfg.scan_roots[k], catalog[idx].name, catalog[idx].siblings)
  <2>1. PICK k \in DOMAIN cfg.scan_roots :
            /\ x = Found(idx, k, x.path, cfg.scan_roots[k])
            /\ x.path \in m(fs, k) /\ \A a \in m(fs, k) : StartsWith(x.path, a) => a = x.path
    BY <1>6 DEF NamedFound
  <2>2. \A r : r \in m(fs, k) <=> r \in m(before, k) /\ r \in DOMAIN fs
    BY <1>3, MatchesLeft
  <2>3. \A a \in m(before, k) : a \in DOMAIN before
    BY DEF Matches, Readable, Tree
  <2> HIDE DEF m
  <2>4. ASSUME NEW a \in m(before, k), StartsWith(x.path, a) PROVE a = x.path
    <3>1. a \in Path /\ a # << >>
      BY <1>1, <2>3, WellFormedParts DEF Nowhere
    <3>2. x.path \in DOMAIN fs
      BY <2>1, <2>2
    <3>3. a \in DOMAIN fs
      BY <1>1, <2>4, <3>1, <3>2, AboveIn
    <3> QED
      BY <2>1, <2>2, <2>4, <3>3
  <2>5. x.path \in m(before, k)
    BY <2>1, <2>2
  <2>6. catalog[idx].kind = "NamedDirUnder"
    BY <1>6 DEF NamedFound
  <2>7. NamedFound(before, cfg, x, idx)
    BY <2>1, <2>4, <2>5, <2>6 DEF NamedFound, m
  <2> QED
    BY <1>1, <2>7, FoundIs
<1> QED
  BY <1>2, <1>4, <1>5, <1>6

(* The newest install of a product is not touched by the call.             *)
LEMMA NewestStays ==
    ASSUME Settled, NEW idx \in DOMAIN catalog, catalog[idx].kind = "VersionedDirs",
           NEW k \in DOMAIN catalog[idx].subs, NEW dir, dir = home \o catalog[idx].subs[k],
           NEW r \in VersionsIn(before, dir), ~Outlived(before, dir, r),
           NEW s \in VersionsIn(before, dir), s \in DOMAIN fs
    PROVE  r \in DOMAIN fs
<1> SUFFICES ASSUME r \notin DOMAIN fs PROVE FALSE
  OBVIOUS
<1>1. /\ WellFormed(fs) /\ WellFormed(before) /\ Remains(fs, before) /\ HomeIs /\ cfg \in Config
      /\ dir \in Path /\ dir # << >> /\ Straight(before, dir) /\ Remains(before, scene.disk)
      /\ catalog[idx].subs[k] \in Path /\ catalog[idx].subs[k] \in VersionPlaces
  BY SettledIs, VersionPlace
<1>2. /\ r \in DOMAIN before /\ r \in Path /\ Len(r) > 1 /\ Parent(r) = dir /\ r # << >>
      /\ is_dir(before, dir) /\ Walk(before, dir) = dir /\ before[dir].mode # "none"
  BY <1>1, VersionsAre, WellFormedParts DEF Nowhere
<1>3. /\ s \in DOMAIN before /\ s \in Path /\ Parent(s) = dir /\ s # << >>
  BY <1>1, VersionsAre, WellFormedParts DEF Nowhere
<1>4. PICK i \in 1 .. Len(Was) :
          /\ Dies(i) /\ StartsWith(r, Was[i].path)
          /\ \E t \in Considered(cfg) : \/ HomeFound(Was[i], t)
                                        \/ VersionFound(before, Was[i], t)
                                        \/ NamedFound(before, cfg, Was[i], t)
  BY <1>2, GoneIsFound
<1> DEFINE e == Was[i].path
<1>5. e \in Path
  BY WasIs
<1>6. e = r
  <2> SUFFICES ASSUME e # r PROVE FALSE
    OBVIOUS
  <2>1. StartsWith(dir, e)
    BY <1>2, <1>4, <1>5, AroundParent
  <2>2. StartsWith(s, dir)
    BY <1>3, InParent
  <2>3. StartsWith(s, e)
    BY <1>1, <1>3, <1>5, <2>1, <2>2, InsideTwice
  <2> QED
    BY <1>3, <1>4, <2>3, DyingIs
<1>7. PICK t \in Considered(cfg) : \/ HomeFound(Was[i], t)
                                   \/ VersionFound(before, Was[i], t)
                                   \/ NamedFound(before, cfg, Was[i], t)
  BY <1>4
<1>8. t \in DOMAIN catalog
  BY DEF Considered
<1>9. CASE HomeFound(Was[i], t)
  <2>1. PICK l \in DOMAIN catalog[t].subs : Was[i].path = home \o catalog[t].subs[l]
    BY <1>9, HomeFoundIs
  <2> DEFINE v == catalog[idx].subs[k]
             w == catalog[t].subs[l]
  <2>2. Parts(w, v) /\ w \in Path
    BY <1>1, <1>8, <1>9, CatalogIs DEF Aside, HomeFound
  <2>3. v \in Path /\ home \in Path
    BY <1>1 DEF HomeIs
  <2>4. StartsWith(r, home \o v) /\ r = home \o w
    BY <1>2, <1>6, <2>1, InParent
  <2>5. StartsWith(r, r)
    BY <1>2, Prefix DEF AgreeTo, Path
  <2> HIDE DEF v, w
  <2> QED
    BY <1>2, <2>2, <2>3, <2>4, <2>5, PartedWays
<1>10. CASE VersionFound(before, Was[i], t)
  <2>1. catalog[t].kind = "VersionedDirs"
    BY <1>10 DEF VersionFound
  <2>2. PICK l \in DOMAIN catalog[t].subs :
            LET d == home \o catalog[t].subs[l] IN r \in VersionsIn(before, d) /\ Outlived(before, d, r)
    BY <1>6, <1>10 DEF VersionFound
  <2> DEFINE d == home \o catalog[t].subs[l]
  <2>3. d \in Path /\ d # << >> /\ Straight(before, d)
    BY <1>8, <2>1, VersionPlace
  <2>4. r \in VersionsIn(before, d) /\ Outlived(before, d, r)
    BY <2>2
  <2> HIDE DEF d
  <2>5. Parent(r) = d
    BY <1>1, <2>3, <2>4, VersionsAre
  <2> QED
    BY <1>2, <2>4, <2>5
<1>11. CASE NamedFound(before, cfg, Was[i], t)
  <2>1. Last(r) = catalog[t].name
    BY <1>6, <1>11 DEF NamedFound, Matches
  <2>2. Last(r) # catalog[t].name
    BY <1>1, <1>2, <1>8, InstallPlace
  <2> QED
    BY <2>1, <2>2
<1> QED
  BY <1>7, <1>9, <1>10, <1>11

(* A candidate that the call left is one of the next call again.           *)
LEMMA FoundAgain ==
    ASSUME Settled, NEW j \in 1 .. Len(Was), ~Dies(j), Was[j].path \in DOMAIN fs
    PROVE  Was[j] \in Candidates(fs, cfg, home)
<1> DEFINE x == Was[j]
<1>1. /\ WellFormed(fs) /\ WellFormed(before) /\ Remains(fs, before) /\ HomeIs /\ cfg \in Config
      /\ NoAlias(fs, home, cfg) /\ NoAlias(before, home, cfg)
  BY SettledIs
<1>2. x \in Candidates(before, cfg, home) /\ x.path \in DOMAIN before
  BY <1>1, WasIs DEF Remains
<1>3. fs[x.path] = before[x.path]
  BY <1>2, CoveredKept
<1> HIDE DEF x
<1>4. x.path \in DOMAIN fs
  BY DEF x
<1>5. PICK idx \in Considered(cfg) : \/ HomeFound(x, idx) \/ VersionFound(before, x, idx)
                                     \/ NamedFound(before, cfg, x, idx)
  BY <1>1, <1>2, FoundIs
<1>6. idx \in DOMAIN catalog
  BY DEF Considered
<1>7. CASE HomeFound(x, idx)
  BY <1>1, <1>7, FoundIs DEF x
<1>8. CASE VersionFound(before, x, idx)
  <2>1. catalog[idx].kind = "VersionedDirs"
    BY <1>8 DEF VersionFound
  <2> DEFINE place(k) == home \o catalog[idx].subs[k]
  <2>2. PICK k \in DOMAIN catalog[idx].subs :
            /\ x = Found(idx, k, x.path, place(k))
            /\ x.path \in VersionsIn(before, place(k)) /\ Outlived(before, place(k), x.path)
    BY <1>8 DEF VersionFound
  <2> DEFINE dir == place(k)
             s == x.path
  <2>3. dir = home \o catalog[idx].subs[k]
    OBVIOUS
  <2> HIDE DEF place
  <2>4. dir \in Path /\ dir # << >> /\ Straight(before, dir)
    BY <1>6, <2>1, <2>3, VersionPlace
  <2>5. PICK r \in VersionsIn(before, dir) :
            /\ version_group(Last(r)) = version_group(Last(s))
            /\ \A q \in VersionsIn(before, dir) :
                   version_group(Last(q)) = version_group(Last(s)) => q = r \/ Newer(before, r, q)
    BY <1>1, <2>2, <2>4, NewestIn
  <2>6. \A q1, q2 \in VersionsIn(before, dir) : ~(Newer(before, q1, q2) /\ Newer(before, q2, q1))
    BY <1>1, <2>4, NewerIs
  <2>7. Newer(before, r, s)
    <3>1. PICK q \in VersionsIn(before, dir) :
              version_group(Last(q)) = version_group(Last(s)) /\ Newer(before, q, s)
      BY <2>2 DEF Outlived
    <3>2. q = r \/ Newer(before, r, q)
      BY <2>5, <3>1
    <3>3. s = r \/ Newer(before, r, s)
      BY <2>2, <2>5
    <3> QED
      BY <2>2, <2>6, <3>1, <3>2, <3>3
  <2>8. ~Outlived(before, dir, r)
    BY <2>5, <2>6 DEF Outlived
  <2>9. r \in DOMAIN fs
    BY <1>4, <1>6, <2>1, <2>2, <2>3, <2>8, NewestStays
  <2>10. r \in VersionsIn(fs, dir) /\ s \in VersionsIn(fs, dir)
    BY <1>4, <1>6, <2>1, <2>2, <2>3, <2>9, VersionsLeft
  <2>11. Newer(fs, r, s)
    <3>1. fs[r].mtime >= before[r].mtime /\ fs[r].mtime \in Nat /\ before[r].mtime \in Nat
      BY <1>6, <2>1, <2>3, <2>9, NoYounger
    <3>2. before[s].mtime \in Nat /\ fs[s] = before[s]
      BY <1>1, <1>3, <2>2, <2>4, NewerIs
    <3> QED
      BY <2>7, <3>1, <3>2 DEF Newer
  <2>12. Outlived(fs, dir, s)
    BY <2>5, <2>10, <2>11 DEF Outlived
  <2>13. VersionFound(fs, x, idx)
    BY <2>1, <2>2, <2>3, <2>10, <2>12 DEF VersionFound
  <2> QED
    BY <1>1, <2>13, FoundIs DEF x
<1>9. CASE NamedFound(before, cfg, x, idx)
  <2> DEFINE m(disk, k) == Matches(disk, cfg.scan_roots[k], catalog[idx].name, catalog[idx].siblings)
  <2>1. PICK k \in DOMAIN cfg.scan_roots :
            /\ x = Found(idx, k, x.path, cfg.scan_roots[k])
            /\ x.path \in m(before, k) /\ \A a \in m(before, k) : StartsWith(x.path, a) => a = x.path
    BY <1>9 DEF NamedFound
  <2>2. \A r : r \in m(fs, k) <=> r \in m(before, k) /\ r \in DOMAIN fs
    BY <1>6, MatchesLeft
  <2>3. catalog[idx].kind = "NamedDirUnder"
    BY <1>9 DEF NamedFound
  <2>4. x.path \in m(fs, k) /\ \A a \in m(fs, k) : StartsWith(x.path, a) => a = x.path
    BY <1>4, <2>1, <2>2
  <2>5. NamedFound(fs, cfg, x, idx)
    BY <2>1, <2>3, <2>4 DEF NamedFound
  <2> QED
    BY <1>1, <2>5, FoundIs DEF x
<1> QED
  BY <1>5, <1>7, <1>8, <1>9

(* Nothing is fit to go any more.                                          *)
AllClean(disk, c, h) ==
    \A i \in 1 .. Len(Listing(disk, c, h)) : ReasonAt(disk, c, h, Listing(disk, c, h)[i]) # "ok"

LEMMA CleanAfter == ASSUME Settled PROVE AllClean(fs, cfg, home)
<1> DEFINE found == Candidates(fs, cfg, home)
           again == Listing(fs, cfg, home)
<1>1. /\ WellFormed(fs) /\ WellFormed(before) /\ Remains(fs, before) /\ HomeIs /\ cfg \in Config
      /\ NoAlias(fs, home, cfg)
  BY SettledIs
<1>2. /\ Sortable(found) /\ Outer(found, again, Cardinality(found))
      /\ again \in Seq(found) /\ Ordered(again)
      /\ \A x \in found : /\ Resolved(fs, cfg, x) /\ x.path \in Path /\ HasName(x.path)
                          /\ Entry(fs, x.path) \in {x.path, Nowhere}
  BY <1>1, ListingIs
<1>3. again \in Seq(Candidate)
  <2>1. \A x \in found : x \in Candidate
    BY <1>2 DEF Resolved, Found, Candidate
  <2> HIDE DEF found, again
  <2> QED
    BY <1>2, <2>1
<1>4. \A x \in found : x \in Candidates(before, cfg, home)
  BY FoundBefore
<1>5. \A j \in 1 .. Len(Was) : ~Dies(j) /\ Was[j].path \in DOMAIN fs => Was[j] \in found
  BY FoundAgain
<1> SUFFICES ASSUME NEW i \in 1 .. Len(again), ReasonAt(fs, cfg, home, again[i]) = "ok" PROVE FALSE
  BY DEF AllClean
<1> HIDE DEF found, again
<1> DEFINE x == again[i]
<1>6. x \in found
  BY <1>2, ElementType
<1>7. x.path \in DOMAIN fs /\ x.path \in DOMAIN before /\ x.path \in Path
  <2>1. Entry(fs, x.path) # Nowhere
    BY <1>1, <1>2, <1>6, NothingThere
  <2>2. Entry(fs, x.path) \in Places(fs)
    BY <1>1, <1>2, <1>6, EntryPlace
  <2> QED
    BY <1>1, <1>2, <1>6, <2>1, <2>2 DEF Places, Remains
<1>8. PICK j \in 1 .. Len(Was) : StartsWith(x.path, Was[j].path) /\ ~SortsBefore(x, Was[j])
  BY <1>4, <1>6, Covered
<1> DEFINE y == Was[j]
<1>9. y.path \in Path /\ y.path # << >>
  BY WasIs DEF HasName
<1>10. y.path \in DOMAIN fs
  BY <1>1, <1>7, <1>8, <1>9, AboveIn
<1>11. ~Dies(j)
  BY <1>7, <1>8, DyingIs
<1>12. y \in found
  BY <1>5, <1>10, <1>11
<1>13. PICK l \in 1 .. Cardinality(found) : Nth(found, l) = y
  BY <1>2, <1>12, NthOf
<1>14. PICK h \in 1 .. Len(again) : StartsWith(y.path, again[h].path) /\ ~SortsBefore(y, again[h])
  BY <1>2, <1>13 DEF Outer
<1>15. again[h].path \in Path
  BY <1>2, <1>14, ElementType
<1>16. StartsWith(x.path, again[h].path)
  BY <1>7, <1>8, <1>9, <1>14, <1>15, InsideTwice
<1>17. h = i
  <2> SUFFICES ASSUME h # i PROVE FALSE
    OBVIOUS
  <2>1. h \in 1 .. i - 1 \/ i \in 1 .. h - 1
    BY <1>3
  <2> QED
    BY <1>2, <1>3, <1>16, <2>1, NeverBack
<1>18. ~SortsBefore(y, x)
  BY <1>14, <1>17
<1>19. x = y
  BY <1>2, <1>6, <1>8, <1>12, <1>18, SortsTotally
<1>20. ReasonAt(fs, cfg, home, Was[j]) # "ok"
  BY <1>10, <1>11, ReasonLeft
<1> QED
  BY <1>19, <1>20

-----------------------------------------------------------------------------
(* The invariant: a call has the effect it was settled to have, up to the  *)
(* candidate it is at; the last one that deleted, and failed at nothing,   *)
(* has left a disk with nothing more to do.                                *)
Idle(its) == \A i \in DOMAIN its : its[i].reason \notin {"deleted", "delete failed"}

Clean(reps, disk) ==
    reps # << >> /\ reps[Len(reps)].cfg.apply /\ ~Failed(reps[Len(reps)].items) =>
        AllClean(disk, reps[Len(reps)].cfg, reps[Len(reps)].home)

CInv == /\ QInv /\ Wiped /\ Clocked
        /\ Delivering /\ pc = "judge" => Emptied(before, cfg, home, fs, Len(items))
        /\ Delivering /\ pc = "delegate" => Emptied(before, cfg, home, fs, Len(Listing(before, cfg, home)))
        /\ pc # "called" /\ Sure /\ AllClean(before, cfg, home) => Idle(items)
        /\ Fit => Clean(reports, Between) /\ SecondCallClean

(* All of it that a step with no report has to show.                       *)
EffectOn ==
    /\ Wiped' /\ Clocked'
    /\ Delivering' /\ pc' = "judge" => Emptied(before', cfg', home', fs', Len(items'))
    /\ Delivering' /\ pc' = "delegate" => Emptied(before', cfg', home', fs', Len(Listing(before', cfg', home')))
    /\ pc' # "called" /\ Sure' /\ AllClean(before', cfg', home') => Idle(items')

LEMMA SameEffect ==
    ASSUME Wiped, Clocked, fs' = fs, UNCHANGED call
    PROVE  Wiped' /\ Clocked'
<1>1. before' = before /\ scene' = scene
  BY SameCall
<1> QED
  BY <1>1 DEF Wiped, Clocked, Gone

LEMMA AddedIdle ==
    ASSUME NEW it, Added(it)
    PROVE  Idle(items') <=> Idle(items) /\ it.reason \notin {"deleted", "delete failed"}
<1>1. /\ Len(items) \in Nat /\ DOMAIN items = 1 .. Len(items)
      /\ DOMAIN items' = 1 .. Len(items) + 1 /\ items'[Len(items) + 1] = it
      /\ \A i \in 1 .. Len(items) : i \in 1 .. Len(items) + 1 /\ items'[i] = items[i]
      /\ \A i \in 1 .. Len(items) + 1 : i \in 1 .. Len(items) \/ i = Len(items) + 1
  BY AddedIs
<1>2. Len(items) + 1 \in 1 .. Len(items) + 1
  BY <1>1
<1> QED
  BY <1>1, <1>2 DEF Idle

LEMMA RetainIdle ==
    ASSUME IInv, Retain, Idle(items)
    PROVE  Idle(items')
<1> DEFINE stays == {n \in DOMAIN items : ~(Matched(items[n].id) /\ items[n].reason = "missing")}
<1>1. items' = Retained(stays) /\ items \in Seq(ItemSet)
  BY DEF Retain, IInv, Reported
<1>2. DOMAIN items = 1 .. Len(items)
  BY <1>1, Indexes
<1> HIDE DEF stays
<1>3. Picks(ItemSet, items', stays, Len(items))
  BY <1>1, <1>2, RetainedIs
<1>4. items' \in Seq(ItemSet) /\ \A i \in 1 .. Len(items') : \E l \in 1 .. Len(items) : items'[i] = items[l]
  BY <1>3 DEF Picks
<1>5. DOMAIN items' = 1 .. Len(items')
  BY <1>4, Indexes
<1> QED
  BY <1>2, <1>4, <1>5 DEF Idle

(* A removal, however far it comes, is one more step of the same effect.   *)
LEMMA RemovalWipes ==
    ASSUME IInv, Wiped, Clocked, UNCHANGED call, NEW gone, gone \subseteq DOMAIN fs,
           fs' = Without(fs, gone, Now)
    PROVE  Wiped' /\ Clocked'
<1>1. before' = before /\ scene' = scene
  BY SameCall
<1>2. WellFormed(before) /\ DOMAIN fs \subseteq DOMAIN before
  BY DEF IInv, Basics, Remains
<1>3. DOMAIN fs' = DOMAIN fs \ gone
  BY DEF Without
<1>4. Gone' = Gone \cup gone
  BY <1>1, <1>2, <1>3 DEF Gone
<1> DEFINE around(s, q) == \E g \in s : g # <<"/">> /\ Parent(g) = q
<1>5. \A q \in DOMAIN fs' : around(Gone', q) <=> around(Gone, q) \/ around(gone, q)
  BY <1>4
<1>6. \A q \in DOMAIN fs' : fs'[q] = IF around(gone, q) THEN [fs[q] EXCEPT !.mtime = Now] ELSE fs[q]
  BY DEF Without
<1>7. \A q \in DOMAIN fs : fs[q] = IF around(Gone, q) THEN [before[q] EXCEPT !.mtime = Now] ELSE before[q]
  BY DEF Wiped
<1> HIDE DEF around
<1>8. ASSUME NEW q \in DOMAIN fs'
      PROVE  /\ fs'[q] = IF around(Gone', q) THEN [before[q] EXCEPT !.mtime = Now] ELSE before[q]
             /\ fs'[q].mtime \in {fs[q].mtime, Now}
  <2> DEFINE b == before[q]
  <2>1. q \in DOMAIN fs /\ b \in Nodes
    BY <1>2, <1>3, WellFormedParts
  <2> HIDE DEF b
  <2>2. [[b EXCEPT !.mtime = Now] EXCEPT !.mtime = Now] = [b EXCEPT !.mtime = Now]
    BY <2>1 DEF Nodes
  <2>3. [b EXCEPT !.mtime = Now].mtime = Now
    BY <2>1 DEF Nodes
  <2>4. fs[q] = IF around(Gone, q) THEN [b EXCEPT !.mtime = Now] ELSE b
    BY <1>7, <2>1 DEF b
  <2>5. fs'[q] = IF around(Gone', q) THEN [b EXCEPT !.mtime = Now] ELSE b
    BY <1>5, <1>6, <2>2, <2>4
  <2>6. around(gone, q) => fs'[q].mtime = Now
    BY <1>5, <2>3, <2>5
  <2>7. ~around(gone, q) => fs'[q] = fs[q]
    BY <1>6
  <2> QED
    BY <2>5, <2>6, <2>7 DEF b
<1>9. Wiped'
  BY <1>1, <1>8 DEF Wiped, around
<1>10. Clocked'
  BY <1>1, <1>3, <1>8 DEF Clocked
<1> QED
  BY <1>9, <1>10

LEMMA EmptiedOn ==
    ASSUME NEW old, NEW c, NEW h, NEW disk, NEW next, NEW n \in Nat, Emptied(old, c, h, disk, n),
           NEW x, x = Listing(old, c, h)[n + 1],
           \A q \in DOMAIN old :
               q \notin DOMAIN next <=> \/ q \notin DOMAIN disk
                                        \/ ReasonAt(old, c, h, x) = "ok" /\ StartsWith(q, x.path)
    PROVE  Emptied(old, c, h, next, n + 1)
<1> DEFINE goes(q, i) == /\ ReasonAt(old, c, h, Listing(old, c, h)[i]) = "ok"
                         /\ StartsWith(q, Listing(old, c, h)[i].path)
<1>1. \A q \in DOMAIN old : q \notin DOMAIN disk <=> \E i \in 1 .. n : goes(q, i)
  BY DEF Emptied
<1>2. \A q \in DOMAIN old : q \notin DOMAIN next <=> q \notin DOMAIN disk \/ goes(q, n + 1)
  OBVIOUS
<1> HIDE DEF goes
<1>3. \A i : i \in 1 .. n + 1 <=> i \in 1 .. n \/ i = n + 1
  OBVIOUS
<1>4. \A q \in DOMAIN old : q \notin DOMAIN next <=> \E i \in 1 .. n + 1 : goes(q, i)
  BY <1>1, <1>2, <1>3
<1> QED
  BY <1>4 DEF Emptied, goes

(* What the head of the list comes to was settled at the start.            *)
LEMMA HeadSettled ==
    ASSUME QInv, Delivering, pc = "judge", kept # << >>
    PROVE  LET L == Listing(before, cfg, home)
           IN  /\ Len(items) \in Nat /\ Len(items) + 1 \in 1 .. Len(L) /\ L[Len(items) + 1] = Head(kept)
               /\ ReasonAt(before, cfg, home, Head(kept)) = "ok" <=> Reason(Head(kept)) = "ok"
<1> DEFINE c  == Head(kept)
           it == [reason |-> As(cfg, Reason(c)), bytes |-> Sized(fs, c)]
           L  == Listing(before, cfg, home)
           m  == Len(items)
           l  == Len(kept)
<1>1. JInv /\ Rooted /\ Touched /\ Sure /\ cfg.apply /\ kept \in Seq(Candidate) /\ items \in Seq(ItemSet)
  BY DEF QInv, JInv, IInv, Phases, Reported, Delivering
<1>2. Judging(before, cfg, home, items, kept)
  BY DEF QInv
<1>3. /\ m \in Nat /\ l \in Nat /\ l > 0 /\ c = kept[1]
  BY <1>1
<1>4. m + l = Len(L) /\ \A j \in 1 .. l : kept[j] = L[m + j]
  BY <1>2 DEF Judging
<1>5. it.reason = As(cfg, Reason(c)) /\ it.bytes = Sized(fs, c)
  OBVIOUS
<1>6. Reason(c) # "deleted"
  BY ReasonAtIs DEF Reason
<1> HIDE DEF c, it, L, m, l
<1>7. 1 \in 1 .. l /\ m + 1 \in 1 .. Len(L)
  BY <1>3, <1>4
<1>8. Renders(before, cfg, home, it, c)
  BY <1>1, <1>5, HeadRenders DEF c
<1>9. ReasonAt(before, cfg, home, c) = "ok" <=> Reason(c) = "ok"
  BY <1>1, <1>5, <1>6, <1>8 DEF Renders, As
<1> QED
  BY <1>3, <1>4, <1>7, <1>9 DEF c, L, m, l

LEMMA CallEffect == ASSUME CInv, Call PROVE EffectOn
<1>1. /\ pc = "called" /\ before' = fs /\ fs' = fs /\ scene' = scene /\ items' = << >>
      /\ pc' \in {"called", "resolve"}
  BY DEF Call
<1>2. Wiped'
  BY <1>1 DEF Wiped, Gone
<1>3. Clocked'
  BY <1>1 DEF CInv, Clocked
<1>4. DOMAIN items' = {}
  BY <1>1
<1>5. Idle(items')
  BY <1>4 DEF Idle
<1> QED
  BY <1>1, <1>2, <1>3, <1>5 DEF EffectOn

LEMMA ResolveEffect == ASSUME CInv, Resolve PROVE EffectOn
<1>1. pc = "resolve" /\ pc' = "judge" /\ UNCHANGED call /\ fs' = fs /\ items' = items
  BY DEF Resolve
<1>2. IInv /\ items = << >> /\ fs = before
  BY <1>1 DEF CInv, QInv, OInv, PInv, IInv, Phases
<1>3. before' = before /\ cfg' = cfg /\ home' = home /\ scene' = scene
  BY <1>1, SameCall
<1>4. Wiped' /\ Clocked'
  BY <1>1, SameEffect DEF CInv
<1>5. Emptied(before, cfg, home, fs, 0)
  BY <1>2 DEF Emptied
<1>6. Len(items) = 0 /\ Idle(items)
  BY <1>2 DEF Idle
<1>7. Emptied(before', cfg', home', fs', Len(items')) /\ Idle(items')
  BY <1>1, <1>3, <1>5, <1>6
<1> QED
  BY <1>1, <1>4, <1>7 DEF EffectOn

(* One more candidate judged, or deleted.                                  *)
Took(c) == \A q \in DOMAIN before :
               q \notin DOMAIN fs' <=> q \notin DOMAIN fs \/ (Reason(c) = "ok" /\ StartsWith(q, c.path))

LEMMA JudgedEffect ==
    ASSUME CInv, pc = "judge", kept # << >>, NEW reason \in Reasons, Judged(Item(Head(kept), reason)),
           Wiped', Clocked',
           reason \in {"deleted", "delete failed"} => Reason(Head(kept)) = "ok" /\ cfg.apply,
           cfg.apply /\ Sure /\ reason # "delete failed" => Took(Head(kept))
    PROVE  EffectOn
<1> DEFINE c  == Head(kept)
           it == Item(c, reason)
<1>1. QInv /\ IInv /\ JInv /\ pc' = pc /\ UNCHANGED call /\ items \in Seq(ItemSet)
  BY DEF CInv, QInv, JInv, Judged, IInv, Reported
<1>2. before' = before /\ cfg' = cfg /\ home' = home /\ scene' = scene
  BY <1>1, SameCall
<1>3. it \in ItemSet /\ it.reason = reason
  BY <1>1, HeadIs, ItemType DEF IInv, Basics, Item
<1>4. Added(it)
  BY <1>1, <1>3 DEF Judged, Added, IInv, Reported
<1> HIDE DEF it
<1>5. ASSUME Delivering' PROVE Emptied(before, cfg, home, fs', Len(items'))
  <2>1. Delivering /\ reason # "delete failed" /\ cfg.apply /\ Sure
    BY <1>1, <1>2, <1>3, <1>4, <1>5, AddedFailed DEF Delivering, Sure
  <2>2. Emptied(before, cfg, home, fs, Len(items))
    BY <2>1 DEF CInv
  <2>3. /\ Len(items) \in Nat /\ Listing(before, cfg, home)[Len(items) + 1] = c
        /\ ReasonAt(before, cfg, home, c) = "ok" <=> Reason(c) = "ok"
    BY <1>1, <2>1, HeadSettled
  <2>4. Len(items') = Len(items) + 1
    BY <1>4, AddedIs
  <2>5. \A q \in DOMAIN before :
            q \notin DOMAIN fs' <=>
                \/ q \notin DOMAIN fs
                \/ ReasonAt(before, cfg, home, c) = "ok" /\ StartsWith(q, c.path)
    BY <2>1, <2>3 DEF Took
  <2> HIDE DEF c
  <2> QED
    BY <2>2, <2>3, <2>4, <2>5, EmptiedOn
<1>6. ASSUME Sure', AllClean(before', cfg', home') PROVE Idle(items')
  <2>1. Sure /\ AllClean(before, cfg, home) /\ Idle(items)
    BY <1>2, <1>6 DEF CInv, Sure
  <2>2. ~Failed(items)
    BY <2>1 DEF Idle, Failed
  <2>3. ASSUME reason \in {"deleted", "delete failed"} PROVE FALSE
    <3>1. Delivering
      BY <2>1, <2>2, <2>3 DEF Delivering
    <3> QED
      BY <1>1, <2>1, <2>3, <3>1, HeadSettled DEF AllClean
  <2> QED
    BY <1>3, <1>4, <2>1, <2>3, AddedIdle
<1>7. Delivering' => Emptied(before', cfg', home', fs', Len(items'))
  BY <1>2, <1>5
<1> QED
  BY <1>1, <1>6, <1>7 DEF EffectOn

LEMMA SkipEffect == ASSUME CInv, Skip \/ WouldDelete PROVE EffectOn
<1> DEFINE c == Head(kept)
<1>1. pc = "judge" /\ kept # << >> /\ fs' = fs
  BY DEF Skip, WouldDelete
<1>2. \E reason \in Reasons : /\ Judged(Item(c, reason)) /\ reason \notin {"deleted", "delete failed"}
                              /\ Reason(c) # "ok" \/ ~cfg.apply
  <2>1. CASE Skip
    <3>1. Reason(c) \in Reasons /\ Reason(c) \notin {"deleted", "delete failed"}
      BY <2>1, ReasonIs DEF Skip, Reasons
    <3> QED
      BY <2>1, <3>1 DEF Skip
  <2>2. CASE WouldDelete
    <3>1. "dry-run" \in Reasons /\ Judged(Item(c, "dry-run")) /\ ~cfg.apply
      BY <2>2 DEF WouldDelete, Reasons
    <3> QED
      BY <3>1
  <2> QED
    BY <2>1, <2>2
<1>3. PICK reason \in Reasons : /\ Judged(Item(c, reason)) /\ reason \notin {"deleted", "delete failed"}
                                /\ Reason(c) # "ok" \/ ~cfg.apply
  BY <1>2
<1>4. UNCHANGED call
  BY DEF Skip, WouldDelete, Judged
<1>5. Wiped' /\ Clocked'
  BY <1>1, <1>4, SameEffect DEF CInv
<1>6. cfg.apply => Took(c)
  BY <1>1, <1>3 DEF Took
<1> QED
  BY <1>1, <1>3, <1>5, <1>6, JudgedEffect

LEMMA DeleteEffect == ASSUME CInv, Delete PROVE EffectOn
<1> DEFINE c == Head(kept)
           p == c.path
<1>1. pc = "judge" /\ kept # << >> /\ Reason(c) = "ok" /\ cfg.apply /\ JInv /\ IInv
  BY DEF Delete, CInv, QInv, JInv
<1>2. PICK gone, reason : Outcome(c, gone, reason)
  BY DeleteOutcome
<1>3. /\ fs' = Without(fs, gone, Now) /\ gone \subseteq DOMAIN fs /\ UNCHANGED call
      /\ Judged(Item(c, reason)) /\ reason \in {"deleted", "delete failed"} /\ reason \in Reasons
      /\ reason = "deleted" => gone = Tree(fs, Entry(fs, p))
  BY <1>2 DEF Outcome, Judged, Tree, Reasons
<1>4. Wiped' /\ Clocked'
  BY <1>1, <1>3, RemovalWipes DEF CInv
<1>5. DOMAIN fs' = DOMAIN fs \ gone
  BY <1>3 DEF Without
<1>6. ASSUME reason = "deleted", Sure PROVE Took(c)
  <2>1. Entry(fs, p) = p /\ p # Nowhere
    BY <1>1, <1>6, TakenIs DEF Sure, HasName, Nowhere
  <2>2. gone = {r \in DOMAIN fs : StartsWith(r, p)}
    BY <1>3, <1>6, <2>1 DEF Tree
  <2> QED
    BY <1>1, <1>5, <2>2 DEF Took
<1> QED
  BY <1>1, <1>3, <1>4, <1>6, JudgedEffect

LEMMA RetainEffect == ASSUME CInv, Retain PROVE EffectOn
<1>1. pc = "judge" /\ pc' = "delegate" /\ UNCHANGED call /\ fs' = fs /\ kept = << >>
  BY DEF Retain
<1>2. before' = before /\ cfg' = cfg /\ home' = home /\ scene' = scene
  BY <1>1, SameCall
<1>3. IInv /\ QInv /\ Wiped' /\ Clocked'
  BY <1>1, SameEffect DEF CInv, QInv, JInv
<1>4. ASSUME Delivering' PROVE Emptied(before, cfg, home, fs, Len(Listing(before, cfg, home)))
  <2>1. Delivering
    BY <1>1, <1>2, <1>3, <1>4, RetainFailed DEF Delivering, Sure
  <2>2. Judging(before, cfg, home, items, kept) /\ Emptied(before, cfg, home, fs, Len(items))
    BY <1>1, <2>1 DEF CInv, QInv
  <2>3. Len(items) \in Nat /\ Len(kept) = 0
    BY <1>1, <1>3 DEF IInv, Reported
  <2>4. Len(items) = Len(Listing(before, cfg, home))
    BY <2>2, <2>3 DEF Judging
  <2> QED
    BY <2>2, <2>4
<1>5. Sure' /\ AllClean(before', cfg', home') => Idle(items')
  BY <1>1, <1>2, <1>3, RetainIdle DEF CInv, Sure
<1>6. Delivering' => Emptied(before', cfg', home', fs', Len(Listing(before', cfg', home')))
  BY <1>1, <1>2, <1>4
<1> QED
  BY <1>1, <1>3, <1>5, <1>6 DEF EffectOn

LEMMA ExternalEffect == ASSUME CInv, handle_external PROVE EffectOn
<1>1. pc = "delegate" /\ pc' = pc /\ UNCHANGED call /\ fs' = fs
  BY DEF handle_external
<1>2. before' = before /\ cfg' = cfg /\ home' = home /\ scene' = scene
  BY <1>1, SameCall
<1>3. IInv /\ Wiped' /\ Clocked'
  BY <1>1, SameEffect DEF CInv, QInv, JInv
<1>4. PICK it : Added(it) /\ it.reason \notin {"deleted", "delete failed"}
  BY <1>3, ExternalAdded
<1>5. ASSUME Delivering' PROVE Emptied(before, cfg, home, fs, Len(Listing(before, cfg, home)))
  BY <1>1, <1>2, <1>4, <1>5, AddedFailed DEF Delivering, Sure, CInv
<1>6. Sure' /\ AllClean(before', cfg', home') => Idle(items')
  BY <1>1, <1>2, <1>4, AddedIdle DEF CInv, Sure
<1>7. Delivering' => Emptied(before', cfg', home', fs', Len(Listing(before', cfg', home')))
  BY <1>1, <1>2, <1>5
<1> QED
  BY <1>1, <1>3, <1>6, <1>7 DEF EffectOn

(* What SecondCallClean says of a report and the next.                     *)
Cleans(r, s) ==
    Repeats(r, s) /\ r.cfg.apply /\ ~Failed(r.items) => Idle(s.items) /\ s.total_reclaimable = 0

LEMMA CleansOf ==
    /\ SecondCallClean <=> \A n \in 2 .. Len(reports) : Cleans(reports[n - 1], reports[n])
    /\ SecondCallClean' <=> \A n \in 2 .. Len(reports') : Cleans(reports'[n - 1], reports'[n])
BY DEF SecondCallClean, Cleans, Idle

LEMMA DryCleansTheSame ==
    ASSUME NEW c \in Config, NEW d, d = [c EXCEPT !.apply = d.apply], NEW disk, NEW h, AllClean(disk, c, h)
    PROVE  AllClean(disk, d, h)
<1>1. /\ d.scan_roots = c.scan_roots /\ d.min_age_days = c.min_age_days
      /\ d.include_os_caches = c.include_os_caches /\ d.include_vm_disks = c.include_vm_disks
  <2> DEFINE a == d.apply
  <2>1. d = [c EXCEPT !.apply = a]
    OBVIOUS
  <2> HIDE DEF a
  <2> QED
    BY <2>1 DEF Config
<1>2. \A tier : deletable(tier, d) <=> deletable(tier, c)
  BY <1>1 DEF deletable
<1>3. Considered(d) = Considered(c)
  BY <1>2 DEF Considered
<1>4. Listing(disk, d, h) = Listing(disk, c, h)
  BY <1>1, <1>3 DEF Listing, Candidates
<1>5. \A x : ReasonAt(disk, d, h, x) = ReasonAt(disk, c, h, x)
  BY <1>1, <1>2 DEF ReasonAt, too_new, gated
<1> QED
  BY <1>4, <1>5 DEF AllClean

LEMMA NothingOf == ASSUME NEW its PROVE Total(its, {}) = 0
<1>1. [i \in {} |-> its[i].bytes] \in [{} -> Nat]
  OBVIOUS
<1> QED
  BY <1>1, SumNone DEF Total

(* With nothing to do there is nothing to reclaim.                         *)
LEMMA CleanTotal ==
    ASSUME CInv, Finish, Sure, AllClean(before, cfg, home)
    PROVE  Idle(items) /\ reports'[Len(reports')].total_reclaimable = 0
<1> DEFINE d == Because(items, "deleted")
           v == {i \in DOMAIN items : items[i].verdict = "reclaimable"}
           s == reports'[Len(reports')]
<1>1. /\ pc = "delegate" /\ fs' = fs /\ pc' = "called" /\ OInv /\ items \in Seq(ItemSet)
      /\ reports \in Seq(Report) /\ AllFit(cfg, items)
  BY DEF Finish, CInv, QInv, OInv, PInv, IInv, Reported
<1>2. Idle(items)
  BY <1>1 DEF CInv
<1>3. /\ s.cfg = cfg /\ s.home = home /\ s.total_reclaimable = Total(items, v \cup d) /\ reports' # << >>
  <2> DEFINE r == [cfg |-> cfg, home |-> home, items |-> items,
                   total_reclaimable |-> Total(items, v \cup d),
                   total_opt_in      |-> Total(items, Because(items, "needs a flag")),
                   total_deleted     |-> Total(items, d)]
  <2>1. reports' = Append(reports, r)
    BY DEF Finish
  <2>2. r.cfg = cfg /\ r.home = home /\ r.total_reclaimable = Total(items, v \cup d)
    OBVIOUS
  <2> HIDE DEF r
  <2>3. s = r /\ reports' # << >>
    BY <1>1, <2>1, Appended
  <2> QED
    BY <2>2, <2>3
<1> HIDE DEF s
<1>4. CASE cfg.apply
  <2>1. d = {}
    BY <1>2 DEF Idle, Because
  <2>2. ASSUME NEW i \in v PROVE items[i].bytes = 0
    BY <1>1, <1>2, <1>4, <2>2 DEF AllFit, RowFit, Idle
  <2>3. v \cup d \in SUBSET DOMAIN items /\ {} \in SUBSET (v \cup d) /\ (v \cup d) \ {} = v
    BY <2>1
  <2> HIDE DEF v, d
  <2>4. Total(items, v \cup d) = Total(items, {})
    BY <1>1, <2>2, <2>3, DroppedZeros
  <2> QED
    BY <1>2, <1>3, <2>4, NothingOf DEF s
<1>5. CASE ~cfg.apply
  <2>1. fs = before
    BY <1>1, <1>5 DEF OInv, Dry
  <2>2. OInv'
    <3>1. PInv'
      BY <1>1, NextPrints DEF OInv, Next
    <3> QED
      BY <1>1, <3>1, FinishOn
  <2>3. Told(s, fs')
    BY <1>1, <1>3, <1>5, <2>2 DEF OInv, LastTold, Between, s
  <2>4. s.total_reclaimable = Share(before, cfg, home, "ok")
    BY <1>1, <1>3, <2>1, <2>3 DEF Told
  <2>5. Those(before, cfg, home, "ok") = {}
    BY DEF AllClean, Those
  <2>6. Share(before, cfg, home, "ok") = 0
    BY <2>5, OverNone DEF Share
  <2> QED
    BY <1>2, <2>4, <2>6 DEF s
<1> QED
  BY <1>4, <1>5

LEMMA FinishEffect ==
    ASSUME CInv, Finish
    PROVE  EffectOn /\ (Fit' => Clean(reports', Between') /\ SecondCallClean')
<1> DEFINE d == Because(items, "deleted")
           o == Because(items, "needs a flag")
           v == {i \in DOMAIN items : items[i].verdict = "reclaimable"}
           s == [cfg |-> cfg, home |-> home, items |-> items,
                 total_reclaimable |-> Total(items, v \cup d),
                 total_opt_in      |-> Total(items, o),
                 total_deleted     |-> Total(items, d)]
<1>1. /\ reports' = Append(reports, s) /\ fs' = fs /\ pc = "delegate" /\ pc' = "called"
      /\ UNCHANGED call
  BY DEF Finish
<1>2. reports \in Seq(Report) /\ before' = before /\ scene' = scene
  BY <1>1, SameCall DEF CInv, QInv, OInv, PInv
<1>3. s.cfg = cfg /\ s.home = home /\ s.items = items
  OBVIOUS
<1>4. EffectOn
  BY <1>1, SameEffect DEF EffectOn, CInv, Delivering
<1> HIDE DEF s, v, d, o
<1>5. /\ Len(reports') = Len(reports) + 1 /\ reports'[Len(reports) + 1] = s /\ reports' # << >>
      /\ \A i \in 1 .. Len(reports) : reports'[i] = reports[i]
      /\ \A n \in 2 .. Len(reports) + 1 : n \in 2 .. Len(reports) \/ n = Len(reports) + 1
      /\ \A n \in 2 .. Len(reports) : n \in 1 .. Len(reports) /\ n - 1 \in 1 .. Len(reports)
      /\ \A n \in 2 .. Len(reports) + 1 : n = Len(reports) + 1 =>
             n - 1 = Len(reports) /\ n - 1 \in 1 .. Len(reports) /\ reports # << >>
  BY <1>1, <1>2, Appended
<1>6. ASSUME Fit, cfg.apply, ~Failed(items) PROVE AllClean(fs, cfg, home)
  <2>1. Delivering
    BY <1>1, <1>6 DEF Delivering, Fit
  <2>2. Emptied(before, cfg, home, fs, Len(Listing(before, cfg, home)))
    BY <1>1, <2>1 DEF CInv
  <2>3. Swept(Len(Was))
    BY <2>2, SweptIs DEF Was
  <2>4. Settled
    BY <1>1, <1>6, <2>3 DEF Settled, CInv, QInv
  <2> QED
    BY <2>4, CleanAfter
<1>7. Fit => Clean(reports', Between')
  BY <1>1, <1>3, <1>5, <1>6 DEF Clean, Between
<1>8. ASSUME Fit, reports # << >>, NEW r, r = reports[Len(reports)], r \in Report
      PROVE  Cleans(r, s)
  <2> SUFFICES ASSUME Repeats(r, s), r.cfg.apply, ~Failed(r.items)
               PROVE  Idle(s.items) /\ s.total_reclaimable = 0
    BY DEF Cleans
  <2>1. AllClean(before, r.cfg, r.home)
    BY <1>1, <1>8 DEF CInv, Clean, Between
  <2>2. r.home = home /\ cfg = [r.cfg EXCEPT !.apply = cfg.apply] /\ r.cfg \in Config
    BY <1>3, <1>8 DEF Repeats, Report
  <2>3. AllClean(before, cfg, home)
    BY <2>1, <2>2, DryCleansTheSame
  <2> QED
    BY <1>3, <1>5, <1>8, <2>3, CleanTotal DEF Fit
<1>9. ASSUME Fit, NEW n \in 2 .. Len(reports') PROVE Cleans(reports'[n - 1], reports'[n])
  <2>1. n \in 2 .. Len(reports) + 1
    BY <1>5
  <2>2. CASE n \in 2 .. Len(reports)
    <3>1. reports'[n] = reports[n] /\ reports'[n - 1] = reports[n - 1]
      BY <1>5, <2>2
    <3>2. Cleans(reports[n - 1], reports[n])
      BY <1>9, <2>2, CleansOf DEF CInv
    <3> QED
      BY <3>1, <3>2
  <2>3. CASE n = Len(reports) + 1
    <3> DEFINE r == reports[Len(reports)]
    <3>1. /\ n - 1 = Len(reports) /\ Len(reports) \in 1 .. Len(reports) /\ reports # << >>
          /\ reports'[n] = s /\ reports'[n - 1] = r
      BY <1>5, <2>1, <2>3
    <3>2. r \in Report
      BY <1>2, <3>1, Indexed
    <3>3. Cleans(r, s)
      BY <1>8, <1>9, <3>1, <3>2
    <3> QED
      BY <3>1, <3>3
  <2> QED
    BY <2>1, <2>2, <2>3, <1>5
<1>10. Fit' <=> Fit
  BY <1>2 DEF Fit, Sure
<1> QED
  BY <1>4, <1>7, <1>9, <1>10, CleansOf

LEMMA NextCleans == ASSUME CInv, [Next]_vars PROVE CInv'
<1>1. QInv'
  BY NextDelivers DEF CInv
<1>2. CASE UNCHANGED vars
  <2>1. /\ pc' = pc /\ items' = items /\ fs' = fs /\ reports' = reports /\ UNCHANGED call
    BY <1>2 DEF vars
  <2>2. before' = before /\ cfg' = cfg /\ home' = home /\ scene' = scene
    BY <2>1, SameCall
  <2>3. Wiped' /\ Clocked'
    BY <2>1, SameEffect DEF CInv
  <2> QED
    BY <1>1, <2>1, <2>2, <2>3, CleansOf DEF CInv, Delivering, Sure, Fit, Between
<1>3. ASSUME EffectOn, reports' = reports, Between' = Between, scene' = scene PROVE CInv'
  <2>1. (Sure' <=> Sure) /\ (Fit' <=> Fit)
    BY <1>3 DEF Sure, Fit
  <2>2. SecondCallClean => SecondCallClean'
    BY <1>3, CleansOf
  <2>3. Fit => Clean(reports', Between')
    BY <1>3 DEF CInv
  <2> QED
    BY <1>1, <1>3, <2>1, <2>2, <2>3 DEF CInv, EffectOn
<1>4. CASE Call \/ Resolve \/ Skip \/ WouldDelete \/ Delete \/ Retain \/ handle_external
  <2>1. EffectOn
    BY <1>4, CallEffect, ResolveEffect, SkipEffect, DeleteEffect, RetainEffect, ExternalEffect
  <2>2. reports' = reports /\ Between' = Between
    BY <1>4, CallOn, ResolveOn, SkipOn, DeleteOn, RetainOn, ExternalOn DEF CInv, QInv
  <2>3. scene' = scene
    <3>1. CASE Call
      BY <3>1 DEF Call
    <3>2. CASE ~Call
      BY <1>4, <3>2, SameCall DEF Resolve, Skip, WouldDelete, Delete, Retain, handle_external, Judged
    <3> QED
      BY <3>1, <3>2
  <2> QED
    BY <1>3, <2>1, <2>2, <2>3
<1>5. CASE Finish
  <2>1. EffectOn /\ (Fit' => Clean(reports', Between') /\ SecondCallClean')
    BY <1>5, FinishEffect
  <2> QED
    BY <1>1, <2>1 DEF CInv, EffectOn
<1> QED
  BY <1>2, <1>4, <1>5 DEF Next

LEMMA InitCleans == ASSUME Init PROVE CInv
<1>1. /\ reports = << >> /\ pc = "called" /\ fs = before /\ fs = scene.disk
      /\ Len(reports) = 0
  BY DEF Init
<1>2. QInv
  BY InitDelivers
<1>3. Wiped
  BY <1>1 DEF Wiped, Gone
<1>4. Clocked
  BY <1>1 DEF Clocked
<1>5. SecondCallClean /\ Clean(reports, Between)
  BY <1>1 DEF SecondCallClean, Clean
<1> QED
  BY <1>1, <1>2, <1>3, <1>4, <1>5 DEF CInv, Delivering

LEMMA EffectHolds == Spec => []CInv
<1>1. Init => CInv
  BY InitCleans
<1>2. CInv /\ [Next]_vars => CInv'
  BY NextCleans
<1> QED
  BY <1>1, <1>2, PTL DEF Spec

(* For every disk, catalog and configuration: after a call none of whose   *)
(* removals failed, one with the same flags finds nothing more to delete,  *)
(* and a dry run nothing to reclaim.  What the first call kept is kept for *)
(* the same reason again: no search finds more on a disk with less on it   *)
(* (find_named_dirs, stale_versions), what was found and judged fit is     *)
(* gone with all that is in it, and what was refused, as it was, is found  *)
(* again, also where a candidate around it was the one refused.  The last  *)
(* two conditions are there for the rank of an install, which a removal in *)
(* it changes, and for a link that is no proof of a build directory once   *)
(* what it leads to is gone.                                               *)
THEOREM CleansOnce ==
    Spec => [](Direct(scene) /\ Plain(scene) /\ Orderly(scene) /\ Vouched(scene) => SecondCallClean)
<1>1. Spec => []CInv
  BY EffectHolds
<1>2. CInv => (Direct(scene) /\ Plain(scene) /\ Orderly(scene) /\ Vouched(scene) => SecondCallClean)
  BY DEF CInv, Fit, Sure
<1> QED
  BY <1>1, <1>2, PTL

-----------------------------------------------------------------------------
(* A whole call: it chooses from the candidates as they were at the start. *)
LEMMA ListedIsTopmost ==
    ASSUME NEW found, Sortable(found)
    PROVE  LET list == dedupe_nested(found)
           IN  /\ list \in Seq(found)
               /\ \A i \in 1 .. Len(list) : list[i] \in Topmost(found)
               /\ \A x \in Topmost(found) : \E i \in 1 .. Len(list) : list[i] = x
               /\ \A i, j \in 1 .. Len(list) : list[i] = list[j] => i = j
<1> DEFINE list == dedupe_nested(found)
           n    == Cardinality(found)
<1>1. Outer(found, list, n)
  BY DedupeKeeps
<1>2. /\ \A i, j \in 1 .. Len(list) : StartsWith(list[i].path, list[j].path) => i = j
      /\ \A i \in 1 .. Len(list) : \A x \in found :
             StartsWith(list[i].path, x.path) => StartsWith(x.path, list[i].path)
  BY HeldByItself, KeptIsOutermost
<1>3. \A x \in found : \E l \in 1 .. n : Nth(found, l) = x
  BY NthOf
<1> HIDE DEF list, n
<1>4. list \in Seq(found) /\ \A i \in 1 .. Len(list) : list[i] \in found
  BY <1>1, ElementType DEF Outer
<1>5. \A x \in found : x.path \in Path /\ StartsWith(x.path, x.path)
  BY Prefix DEF Sortable, AgreeTo, Path
<1>6. \A x \in found : \E j \in 1 .. Len(list) :
          StartsWith(x.path, list[j].path) /\ ~SortsBefore(x, list[j])
  <2> SUFFICES ASSUME NEW x \in found
               PROVE  \E j \in 1 .. Len(list) : StartsWith(x.path, list[j].path) /\ ~SortsBefore(x, list[j])
    OBVIOUS
  <2>1. PICK l \in 1 .. n : Nth(found, l) = x
    BY <1>3
  <2>2. \E j \in 1 .. Len(list) :
            StartsWith(Nth(found, l).path, list[j].path) /\ ~SortsBefore(Nth(found, l), list[j])
    BY <1>1, <2>1 DEF Outer
  <2> QED
    BY <2>1, <2>2
<1>7. ASSUME NEW i \in 1 .. Len(list) PROVE list[i] \in Topmost(found)
  <2>1. ASSUME NEW y \in found, StartsWith(list[i].path, y.path)
        PROVE  y.path = list[i].path /\ ~SortsBefore(y, list[i])
    <3>1. y.path = list[i].path
      BY <1>2, <1>4, <1>5, <2>1, SamePath
    <3>2. PICK j \in 1 .. Len(list) : StartsWith(y.path, list[j].path) /\ ~SortsBefore(y, list[j])
      BY <1>6
    <3>3. i = j
      BY <1>2, <3>1, <3>2
    <3> QED
      BY <3>1, <3>2, <3>3
  <2> QED
    BY <1>4, <2>1 DEF Topmost
<1>8. ASSUME NEW x \in Topmost(found) PROVE \E j \in 1 .. Len(list) : list[j] = x
  <2>1. x \in found
    BY DEF Topmost
  <2>2. PICK j \in 1 .. Len(list) : StartsWith(x.path, list[j].path) /\ ~SortsBefore(x, list[j])
    BY <1>6, <2>1
  <2>3. ~SortsBefore(list[j], x)
    BY <1>4, <2>2 DEF Topmost
  <2>4. list[j] = x
    BY <1>4, <2>1, <2>2, <2>3, SortsTotally
  <2> QED
    BY <2>4
<1>9. \A i, j \in 1 .. Len(list) : list[i] = list[j] => i = j
  BY <1>2, <1>4, <1>5
<1> QED
  BY <1>4, <1>7, <1>8, <1>9 DEF list

(* So what is fit of the listing is what a whole call takes.               *)
LEMMA ListingIsChosen ==
    ASSUME NEW disk, NEW c, NEW h, Sortable(Candidates(disk, c, h))
    PROVE  LET L == Listing(disk, c, h)
           IN  /\ \A x : x \in Chosen(disk, c, h) <=>
                      \E i \in 1 .. Len(L) : L[i] = x /\ ReasonAt(disk, c, h, x) = "ok"
               /\ \A i, j \in 1 .. Len(L) : L[i] = L[j] => i = j
  BY ListedIsTopmost DEF Listing, Chosen

LEMMA OverOne ==
    ASSUME NEW S, IsFiniteSet(S), NEW w \in [S -> Nat], NEW a \in S
    PROVE  SumOver(w, {a}) = w[a]
<1>1. {} \in SUBSET S /\ a \in S \ {} /\ {} \cup {a} = {a}
  OBVIOUS
<1>2. SumOver(w, {} \cup {a}) = w[a] + SumOver(w, {})
  BY <1>1, OverAdd
<1>3. SumOver(w, {}) = 0
  BY OverNone
<1>4. w[a] \in Nat
  OBVIOUS
<1> QED
  BY <1>1, <1>2, <1>3, <1>4

LEMMA ShareIsWorth ==
    ASSUME NEW disk, NEW c, NEW h, Weighed(disk, c, h), Sortable(Candidates(disk, c, h))
    PROVE  Share(disk, c, h, "ok") = Worth(disk, c, h)
<1> DEFINE L   == Listing(disk, c, h)
           K   == Chosen(disk, c, h)
           S   == Those(disk, c, h, "ok")
           w   == [i \in S |-> Sized(disk, L[i])]
           key == [i \in S |-> L[i]]
           G   == [x \in K |-> SumOver(w, {i \in S : key[i] = x})]
<1>1. Len(L) \in Nat /\ \A i \in 1 .. Len(L) : Sized(disk, L[i]) \in Nat
  <2>1. L \in Seq(Candidate) /\ \A i \in 1 .. Len(L) : Sized(disk, L[i]) \in Nat
    BY DEF Weighed
  <2> HIDE DEF L
  <2> QED
    BY <2>1
<1>2. S = {i \in 1 .. Len(L) : ReasonAt(disk, c, h, L[i]) = "ok"}
  BY DEF Those
<1>3. /\ \A x : x \in K <=> \E i \in 1 .. Len(L) : L[i] = x /\ ReasonAt(disk, c, h, x) = "ok"
      /\ \A i, j \in 1 .. Len(L) : L[i] = L[j] => i = j
  BY ListingIsChosen
<1>4. IsFiniteSet(K)
  <2>1. IsFiniteSet(Candidates(disk, c, h)) /\ K \subseteq Candidates(disk, c, h)
    BY DEF Sortable, Chosen, Topmost
  <2> QED
    BY <2>1, FS_Subset
<1>5. Share(disk, c, h, "ok") = SumFunction(w)
  <2>1. \A i \in S : Sizes(disk, c, h)[i] = Sized(disk, L[i])
    BY <1>2 DEF Sizes
  <2>2. [i \in S |-> Sizes(disk, c, h)[i]] = w
    BY <2>1
  <2> QED
    BY <2>2 DEF Share, SumOver
<1>6. Worth(disk, c, h) = SumFunction([x \in K |-> Sized(disk, x)])
  BY DEF Worth
<1> HIDE DEF L, K, S
<1>7. IsFiniteSet(S) /\ S \subseteq 1 .. Len(L)
  <2>1. IsFiniteSet(1 .. Len(L)) /\ S \subseteq 1 .. Len(L)
    BY <1>1, <1>2, FS_Interval
  <2> QED
    BY <2>1, FS_Subset
<1>8. w \in [S -> Nat] /\ key \in [S -> K]
  BY <1>1, <1>2, <1>3
<1>9. PartSums(K, S, w, key, G)
  BY DEF PartSums
<1>10. ASSUME NEW x \in K PROVE SumOver(w, {i \in S : key[i] = x}) = Sized(disk, x)
  <2>1. PICK i \in S : L[i] = x
    BY <1>2, <1>3
  <2>2. {l \in S : key[l] = x} = {i}
    BY <1>3, <1>7, <2>1
  <2>3. w[i] = Sized(disk, x)
    BY <2>1
  <2> HIDE DEF w, key
  <2>4. SumOver(w, {i}) = w[i]
    BY <1>7, <1>8, OverOne
  <2> QED
    BY <2>2, <2>3, <2>4
<1>11. G = [x \in K |-> Sized(disk, x)]
  BY <1>10
<1> HIDE DEF w, key, G
<1>12. SumFunction(w) = SumFunction(G)
  BY <1>4, <1>7, <1>8, <1>9, SumParts
<1> QED
  BY <1>5, <1>6, <1>11, <1>12

-----------------------------------------------------------------------------
(* The invariant: what phase 3 still has to look at is what a call chooses *)
(* from, and what is gone was chosen, removals that failed or not.         *)
Drawn == pc = "judge" => \A k \in 1 .. Len(kept) : kept[k] \in Topmost(Candidates(before, cfg, home))
Owed  == pc # "called" /\ Sure => Gone \subseteq Doomed(before, cfg, home)

SInv == CInv /\ Drawn /\ Owed

LEMMA CallChooses == ASSUME SInv, Call PROVE Drawn' /\ Owed'
<1>1. before' = fs /\ fs' = fs /\ pc' \in {"called", "resolve"}
  BY DEF Call
<1> QED
  BY <1>1 DEF Drawn, Owed, Gone

LEMMA ResolveChooses == ASSUME SInv, Resolve PROVE Drawn' /\ Owed'
<1>1. /\ UNCHANGED call /\ fs' = fs /\ pc = "resolve" /\ kept' = Listing(fs, cfg, home)
  BY DEF Resolve
<1>2. /\ fs = before /\ HomeIs /\ cfg \in Config /\ WellFormed(before)
  BY <1>1 DEF SInv, CInv, QInv, JInv, IInv, Phases, Basics, Asked
<1>3. before' = before /\ cfg' = cfg /\ home' = home
  BY <1>1, SameCall
<1>4. Sortable(Candidates(before, cfg, home))
  BY <1>2, CandidatesAre
<1>5. \A k \in 1 .. Len(kept') : kept'[k] \in Topmost(Candidates(before, cfg, home))
  BY <1>1, <1>2, <1>4, ListedIsTopmost DEF Listing
<1>6. Owed'
  BY <1>1, <1>2, <1>3 DEF Owed, Gone
<1> QED
  BY <1>3, <1>5, <1>6 DEF Drawn

LEMMA JudgedDrawn ==
    ASSUME SInv, pc = "judge", kept # << >>, kept' = Tail(kept), UNCHANGED call
    PROVE  Drawn'
<1>1. kept \in Seq(Candidate)
  BY DEF SInv, CInv, QInv, JInv, IInv, Phases
<1>2. /\ Len(kept') = Len(kept) - 1 /\ Len(kept) \in Nat
      /\ \A j \in 1 .. Len(kept) - 1 : j + 1 \in 1 .. Len(kept) /\ kept'[j] = kept[j + 1]
  BY <1>1
<1>3. before' = before /\ cfg' = cfg /\ home' = home
  BY SameCall
<1>4. \A k \in 1 .. Len(kept) : kept[k] \in Topmost(Candidates(before, cfg, home))
  BY DEF SInv, Drawn
<1>5. \A k \in 1 .. Len(kept') : kept'[k] \in Topmost(Candidates(before, cfg, home))
  BY <1>2, <1>4
<1> QED
  BY <1>3, <1>5 DEF Drawn

LEMMA SameOwed ==
    ASSUME SInv, fs' = fs, UNCHANGED call, pc # "called"
    PROVE  Owed'
<1>1. before' = before /\ cfg' = cfg /\ home' = home /\ scene' = scene
  BY SameCall
<1> QED
  BY <1>1 DEF SInv, Owed, Gone, Sure

LEMMA SkipChooses == ASSUME SInv, Skip \/ WouldDelete PROVE Drawn' /\ Owed'
<1>1. /\ pc = "judge" /\ kept # << >> /\ kept' = Tail(kept) /\ UNCHANGED call /\ fs' = fs
  BY DEF Skip, WouldDelete, Judged
<1> QED
  BY <1>1, JudgedDrawn, SameOwed

(* What is removed was fit when the call began, and all of it is in it.    *)
LEMMA DeleteChooses == ASSUME SInv, Delete PROVE Drawn' /\ Owed'
<1> DEFINE c    == Head(kept)
           p    == c.path
           took == [reason |-> As(cfg, Reason(c)), bytes |-> Sized(fs, c)]
<1>1. pc = "judge" /\ kept # << >> /\ Reason(c) = "ok" /\ cfg.apply
  BY DEF Delete
<1>2. JInv /\ Rooted /\ Touched /\ kept \in Seq(Candidate) /\ DOMAIN fs \subseteq DOMAIN before
  BY DEF SInv, CInv, QInv, JInv, IInv, Phases, Basics, Remains
<1>3. PICK gone, reason : Outcome(c, gone, reason)
  BY DeleteOutcome
<1>4. /\ fs' = Without(fs, gone, Now) /\ gone \subseteq Tree(fs, Entry(fs, p))
      /\ UNCHANGED call /\ kept' = Tail(kept) /\ pc' = pc
  BY <1>3 DEF Outcome, Judged
<1>5. before' = before /\ cfg' = cfg /\ home' = home /\ scene' = scene
  BY <1>4, SameCall
<1>6. Gone' \subseteq Gone \cup gone
  BY <1>4, <1>5 DEF Gone, Without
<1>7. 1 \in 1 .. Len(kept) /\ c = kept[1]
  BY <1>1, <1>2, HeadFirst
<1>8. c \in Topmost(Candidates(before, cfg, home))
  BY <1>1, <1>7 DEF SInv, Drawn
<1>9. ASSUME Sure PROVE gone \subseteq Doomed(before, cfg, home)
  <2>1. Entry(fs, p) = p /\ HasName(p)
    BY <1>2, <1>9, TakenIs DEF Sure
  <2>2. p # Nowhere
    BY <2>1 DEF HasName, Nowhere
  <2>3. took.reason = As(cfg, Reason(c)) /\ took.bytes = Sized(fs, c)
    OBVIOUS
  <2> HIDE DEF took
  <2>4. Renders(before, cfg, home, took, c)
    BY <1>1, <1>2, <1>9, <2>3, HeadRenders
  <2>5. ReasonAt(before, cfg, home, c) = "ok"
    BY <1>1, <2>3, <2>4 DEF Renders
  <2>6. c \in Chosen(before, cfg, home)
    BY <1>8, <2>5 DEF Chosen
  <2>7. Tree(fs, p) \subseteq Tree(before, p)
    BY <1>2 DEF Tree
  <2>8. gone \subseteq Tree(before, p)
    BY <1>4, <2>1, <2>7
  <2> QED
    BY <2>6, <2>8 DEF Doomed
<1>10. Owed'
  BY <1>1, <1>5, <1>6, <1>9 DEF SInv, Owed, Sure
<1> QED
  BY <1>1, <1>4, <1>10, JudgedDrawn

LEMMA QuietChooses ==
    ASSUME SInv, Retain \/ handle_external \/ Finish
    PROVE  Drawn' /\ Owed'
<1>1. UNCHANGED call /\ fs' = fs /\ pc \in {"judge", "delegate"} /\ pc' # "judge"
  BY DEF Retain, handle_external, Finish
<1> QED
  BY <1>1, SameOwed DEF Drawn

LEMMA NextChooses == ASSUME SInv, [Next]_vars PROVE SInv'
<1>1. CInv'
  BY NextCleans DEF SInv
<1>2. CASE UNCHANGED vars
  <2>1. pc' = pc /\ kept' = kept /\ fs' = fs /\ UNCHANGED call
    BY <1>2 DEF vars
  <2>2. before' = before /\ cfg' = cfg /\ home' = home /\ scene' = scene
    BY <2>1, SameCall
  <2> QED
    BY <1>1, <2>1, <2>2 DEF SInv, Drawn, Owed, Gone, Sure
<1>3. CASE Next
  BY <1>1, <1>3, CallChooses, ResolveChooses, SkipChooses, DeleteChooses, QuietChooses DEF Next, SInv
<1> QED
  BY <1>2, <1>3

-----------------------------------------------------------------------------
(* What is left of the disk is what it was without what has gone.          *)
LEMMA LeftIs ==
    ASSUME SInv
    PROVE  fs = Without(before, Gone, Now) /\ Gone = DOMAIN before \ DOMAIN fs
<1> DEFINE left == Without(before, Gone, Now)
<1>1. Wiped /\ WellFormed(fs) /\ WellFormed(before) /\ DOMAIN fs \subseteq DOMAIN before
  BY DEF SInv, CInv, QInv, JInv, IInv, Basics, Remains
<1>2. DOMAIN left = DOMAIN fs
  BY <1>1 DEF Gone, Without
<1>3. \A q \in DOMAIN fs : left[q] = fs[q]
  BY <1>1, <1>2 DEF Wiped, Gone, Without
<1>4. fs = [q \in DOMAIN fs |-> fs[q]]
  BY <1>1 DEF WellFormed
<1>5. left = [q \in DOMAIN left |-> left[q]]
  BY DEF Without
<1> HIDE DEF left
<1>6. fs = left
  BY <1>2, <1>3, <1>4, <1>5
<1> QED
  BY <1>6 DEF left, Gone

(* What a listing is emptied of is what is chosen from it.                 *)
LEMMA EmptiedIsDoomed ==
    ASSUME SInv, pc = "delegate", Emptied(before, cfg, home, fs, Len(Listing(before, cfg, home)))
    PROVE  Gone = Doomed(before, cfg, home)
<1> DEFINE L == Listing(before, cfg, home)
           K == Chosen(before, cfg, home)
<1>1. HomeIs /\ cfg \in Config /\ WellFormed(before)
  BY DEF SInv, CInv, QInv, JInv, IInv, Phases, Basics, Asked
<1>2. /\ Sortable(Candidates(before, cfg, home))
      /\ \A x \in Candidates(before, cfg, home) : Resolved(before, cfg, x)
  BY <1>1, CandidatesAre
<1>3. \A x : x \in K <=> \E i \in 1 .. Len(L) : L[i] = x /\ ReasonAt(before, cfg, home, x) = "ok"
  BY <1>2, ListingIsChosen
<1>4. \A q \in DOMAIN before :
          q \in Gone <=> \E i \in 1 .. Len(L) : /\ ReasonAt(before, cfg, home, L[i]) = "ok"
                                                /\ StartsWith(q, L[i].path)
  BY DEF Emptied, Gone
<1>5. \A x \in K : x.path # Nowhere
  BY <1>2 DEF Chosen, Topmost, Resolved, HasName, Nowhere
<1> HIDE DEF L, K
<1>6. \A q \in DOMAIN before : q \in Gone <=> \E x \in K : StartsWith(q, x.path)
  BY <1>3, <1>4
<1>7. \A q : q \in Doomed(before, cfg, home) <=>
                 q \in DOMAIN before /\ \E x \in K : StartsWith(q, x.path)
  BY <1>5 DEF Doomed, Tree, K
<1>8. Gone \subseteq DOMAIN before
  BY DEF Gone
<1> QED
  BY <1>6, <1>7, <1>8

(* The report is the step of a whole call.                                 *)
LEMMA FinishSweeps == ASSUME SInv, SInv', Finish PROVE Whole!Sweep
<1> DEFINE d == Because(items, "deleted")
           s == [cfg |-> cfg, home |-> home, items |-> items,
                 total_reclaimable |-> Total(items, {i \in DOMAIN items : items[i].verdict = "reclaimable"} \cup d),
                 total_opt_in      |-> Total(items, Because(items, "needs a flag")),
                 total_deleted     |-> Total(items, d)]
           r == reports'[Len(reports')]
<1>1. /\ reports' = Append(reports, s) /\ fs' = fs /\ pc = "delegate" /\ pc' = "called"
      /\ UNCHANGED call
  BY DEF Finish
<1>2. /\ OInv /\ OInv' /\ HomeIs /\ cfg \in Config /\ WellFormed(before) /\ reports \in Seq(Report)
  BY <1>1 DEF SInv, CInv, QInv, OInv, PInv, IInv, Phases, Basics, Asked
<1>3. before' = before /\ scene' = scene
  BY <1>1, SameCall
<1>4. s.cfg = cfg /\ s.home = home /\ s.items = items /\ s.total_deleted = Total(items, Because(items, "deleted"))
  OBVIOUS
<1> HIDE DEF s, d
<1>5. reports' # << >> /\ r = s
  BY <1>1, <1>2, Appended
<1>6. Between = before /\ Between' = fs
  BY <1>1 DEF Between
<1>7. fs = Without(before, Gone, Now) /\ Gone = DOMAIN before \ DOMAIN fs
  BY LeftIs
<1>8. Sortable(Candidates(before, cfg, home))
  BY <1>2, CandidatesAre
<1> HIDE DEF r
<1>9. ASSUME ~r.cfg.apply PROVE Gone = {} /\ r.total_reclaimable = Worth(before, r.cfg, r.home)
  <2>1. fs = before
    BY <1>1, <1>2, <1>4, <1>5, <1>9 DEF OInv, Dry
  <2>2. Told(r, before)
    BY <1>2, <1>5, <1>6, <1>9, <2>1 DEF OInv, LastTold, r
  <2>3. Share(before, cfg, home, "ok") = Worth(before, cfg, home)
    BY <1>4, <1>5, <1>8, <2>2, ShareIsWorth DEF Told
  <2> QED
    BY <1>4, <1>5, <1>7, <2>1, <2>2, <2>3 DEF Told
<1>10. ASSUME Sure, r.cfg.apply, ~Failed(r.items)
       PROVE  Gone = Doomed(before, r.cfg, r.home) /\ r.total_deleted = Worth(before, r.cfg, r.home)
  <2>1. Delivering
    BY <1>1, <1>4, <1>5, <1>10 DEF Delivering
  <2>2. Gone = Doomed(before, cfg, home)
    BY <1>1, <2>1, EmptiedIsDoomed DEF SInv, CInv
  <2>3. Summed(before, cfg, home, items) /\ As(cfg, "ok") = "deleted"
    BY <1>1, <2>1 DEF SInv, CInv, QInv, Delivering, As
  <2>4. Share(before, cfg, home, "ok") = Worth(before, cfg, home)
    BY <1>8, <2>3, ShareIsWorth DEF Summed
  <2>5. s.total_deleted = Worth(before, cfg, home)
    BY <1>4, <2>3, <2>4 DEF Summed
  <2> QED
    BY <1>4, <1>5, <2>2, <2>5
<1>11. Sure => Gone \subseteq Doomed(before, r.cfg, r.home)
  BY <1>1, <1>4, <1>5 DEF SInv, Owed
<1>12. Whole!Complete(r) => ~Failed(r.items)
  BY DEF Whole!Complete, Failed
<1>13. reports' = Append(reports, r)
  BY <1>1, <1>5
<1> QED
  BY <1>3, <1>5, <1>6, <1>7, <1>9, <1>10, <1>11, <1>12, <1>13 DEF Whole!Sweep, Sure, r

(* Every other step is none of a whole call.                               *)
LEMMA StepSweeps == ASSUME SInv, SInv', [Next]_vars PROVE [Whole!Sweep]_(Whole!vars)
<1>1. CASE UNCHANGED vars
  <2>1. pc' = pc /\ fs' = fs /\ reports' = reports /\ UNCHANGED call
    BY <1>1 DEF vars
  <2> QED
    BY <2>1, SameCall DEF Whole!vars, Between
<1>2. CASE Call \/ Resolve \/ Skip \/ WouldDelete \/ Delete \/ Retain \/ handle_external
  <2>1. reports' = reports /\ Between' = Between
    BY <1>2, CallOn, ResolveOn, SkipOn, DeleteOn, RetainOn, ExternalOn DEF SInv, CInv, QInv
  <2>2. scene' = scene
    <3>1. CASE Call
      BY <3>1 DEF Call
    <3>2. CASE ~Call
      BY <1>2, <3>2, SameCall DEF Resolve, Skip, WouldDelete, Delete, Retain, handle_external, Judged
    <3> QED
      BY <3>1, <3>2
  <2> QED
    BY <2>1, <2>2 DEF Whole!vars
<1>3. CASE Finish
  BY <1>3, FinishSweeps
<1> QED
  BY <1>1, <1>2, <1>3 DEF Next

(* For every disk, catalog and configuration: a call does in one step what *)
(* it takes a pass over its candidates to do, each judged on the disk that *)
(* the removals before it have left (run).  A dry run takes nothing, and   *)
(* promises what the candidates chosen at the start are worth.  Where no   *)
(* location or scan root is an alias and no location or lock a link, a     *)
(* call that deletes takes nothing but those, whether removals fail or     *)
(* not, and if none does, all of them, and is credited with just that.     *)
THEOREM CachewipeImplementsSweep == Spec => ImplementsSweep
<1>1. Init => SInv /\ Whole!Init
  <2> SUFFICES ASSUME Init PROVE SInv /\ Whole!Init
    OBVIOUS
  <2>1. reports = << >> /\ pc = "called" /\ fs = before
    BY DEF Init
  <2>2. CInv
    BY InitCleans
  <2>3. WellFormed(fs)
    BY InitKeeps DEF IInv, Basics
  <2> QED
    BY <2>1, <2>2, <2>3 DEF SInv, Drawn, Owed, Whole!Init, Between
<1>2. SInv /\ [Next]_vars => SInv'
  BY NextChooses
<1>3. SInv /\ SInv' /\ [Next]_vars => [Whole!Sweep]_(Whole!vars)
  BY StepSweeps
<1> QED
  BY <1>1, <1>2, <1>3, PTL DEF Spec, ImplementsSweep, Whole!Spec
=============================================================================
