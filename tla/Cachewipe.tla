----------------------------- MODULE Cachewipe -----------------------------
(***************************************************************************)
(* `main` and `run` (src/main.rs) on whole file systems: cachewipe is      *)
(* called again and again, as a user or a cron job does.  One call reads   *)
(* its arguments, resolves every candidate (phase 1), drops the nested     *)
(* ones (phase 2), judges and deletes the rest one by one (phase 3), runs  *)
(* the delegated cleanups, and reports.                                    *)
(*                                                                         *)
(* Nothing else runs meanwhile and the clock stands still: Reclaim has the *)
(* other processes and the time, Dedupe the steps of phase 2.              *)
(***************************************************************************)
EXTENDS Safety, Scan, CommandLine

CONSTANTS
    Scenes,      \* what a behaviour may start from: a disk and the calls to come
    Now,
    Installed    \* the tools whose probe succeeds

Day == 86400

ASSUME SystemAssumption ==
    /\ Now \in Nat
    /\ \A s \in Scenes :
           /\ WellFormed(s.disk)
           /\ s.calls \in Seq([home : Path, args : Seq(DOMAIN Paths)])

VARIABLES
    fs,
    scene,      \* the scene of this behaviour
    nth,        \* number of the call under way, or of the last one
    cfg,
    warned,     \* has it warned that home is not the login home
    before,     \* the file system it found
    pc,
    kept,       \* candidates phase 3 still has to look at
    seen,       \* seen_present: targets with a path that was present
    items,
    delegated,  \* External targets that are left
    reports     \* of the calls that came to a report

call == <<scene, nth, cfg, warned, before>>
vars == <<fs, call, pc, kept, seen, items, delegated, reports>>

args == scene.calls[nth].args
home == scene.calls[nth].home

-----------------------------------------------------------------------------
(* Phase 1.  turn orders what one target finds: the sub-path or the root.  *)
Found(idx, turn, path, root) ==
    [target_idx |-> idx, turn |-> turn, path |-> path, root |-> root]

HomeCandidates(h, idx) ==
    {LET p == home_path(h, catalog[idx].subs[k]) IN Found(idx, k, p, p) :
        k \in DOMAIN catalog[idx].subs}

VersionCandidates(disk, h, idx) ==
    UNION {LET dir == home_path(h, catalog[idx].subs[k])
           IN  {Found(idx, k, p, dir) : p \in stale_versions(disk, dir, catalog[idx].keep)} :
           k \in DOMAIN catalog[idx].subs}

NamedCandidates(disk, idx, roots) ==
    UNION {{Found(idx, k, p, roots[k]) :
               p \in find_named_dirs(disk, roots[k], catalog[idx].name, catalog[idx].siblings)} :
           k \in DOMAIN roots}

(* Mutant: a tier that is only reported is skipped as well.                *)
ConsideredDeletable(c) == {idx \in DOMAIN catalog : deletable(catalog[idx].tier, c)}

(* A tier that is neither deletable nor always reported is skipped whole.  *)
Considered(c) == {idx \in DOMAIN catalog : \/ deletable(catalog[idx].tier, c)
                                           \/ always_reported(catalog[idx].tier)}

Candidates(disk, c, h) ==
    UNION {CASE catalog[idx].kind = "HomeDirs"      -> HomeCandidates(h, idx)
             [] catalog[idx].kind = "VersionedDirs" -> VersionCandidates(disk, h, idx)
             [] catalog[idx].kind = "NamedDirUnder" -> NamedCandidates(disk, idx, c.scan_roots)
             [] catalog[idx].kind = "External"      -> {} :
           idx \in Considered(c)}

-----------------------------------------------------------------------------
(* Phase 2.  The sort is stable, so equal paths stay in phase 1's order.   *)
SortsBefore(a, b) ==
    \/ Precedes(a.path, b.path)
    \/ a.path = b.path /\ a.target_idx < b.target_idx
    \/ a.path = b.path /\ a.target_idx = b.target_idx /\ a.turn < b.turn

Nth(found, i) == CHOOSE c \in found : Cardinality({d \in found : SortsBefore(d, c)}) = i - 1

Nested(c, outer) ==
    /\ outer # << >>
    /\ \/ StartsWith(c.path, Last(outer).path)
       \/ \E i \in DOMAIN outer : c.path # outer[i].path /\ StartsWith(c.path, outer[i].path)

(* Mutant: nothing is dropped.                                             *)
KeepAll(found) == [i \in 1 .. Cardinality(found) |-> Nth(found, i)]

Admit(outer, c) == IF Nested(c, outer) THEN outer ELSE Append(outer, c)

dedupe_nested(found) ==
    LET outer[i \in 0 .. Cardinality(found)] ==
            IF i = 0 THEN << >> ELSE Admit(outer[i - 1], Nth(found, i))
    IN  outer[Cardinality(found)]

Listing(disk, c, h) == dedupe_nested(Candidates(disk, c, h))

-----------------------------------------------------------------------------
(* Phase 3, for one candidate.                                             *)
Target(c) == catalog[c.target_idx]

verdict(disk, h, x) ==
    LET present == exists(disk, x.path)
    IN  evaluate(disk, x.path, x.root, h, present, present /\ lock_present(disk, x.path, Now))

gated(c, x) == ~deletable(Target(x).tier, c)

too_new(disk, c, x) ==
    LET newest       == size_path(disk, x.path).newest
        min_age_secs == c.min_age_days * Day
    IN  min_age_secs > 0 /\ newest > 0 /\ Now - newest < min_age_secs

ReasonAt(disk, c, h, x) ==
    IF verdict(disk, h, x) # "ok" THEN verdict(disk, h, x)
    ELSE IF gated(c, x) THEN "needs a flag"
    ELSE IF too_new(disk, c, x) THEN "too new" ELSE "ok"

Reason(x) == ReasonAt(fs, cfg, home, x)

(* Mutant: a failed removal is listed as what it was meant to be.          *)
VerdictHopeful(reason) ==
    IF reason \in {"dry-run", "deleted", "delete failed"} THEN "reclaimable" ELSE "skipped"

Verdict(reason) == IF reason \in {"dry-run", "deleted"} THEN "reclaimable" ELSE "skipped"

(* What is not there is not sized, nor is a link that leads nowhere.       *)
Sized(disk, x) == IF exists(disk, x.path) THEN size_path(disk, x.path).bytes ELSE 0

Item(c, reason) ==
    [id |-> Target(c).id, tier |-> Target(c).tier, path |-> c.path,
     verdict |-> Verdict(reason), reason |-> reason, bytes |-> Sized(fs, c)]

(* Mutant: a link is followed to what it points to.                        *)
FollowLinks(p) == Tree(fs, Walk(fs, p))

(* All of it goes, or the error comes anywhere before the end: at once, or *)
(* when only what is held, and the way to it, is left.                     *)
remove_path(p) == RemovalTree(fs, p)

HeldIn(tree)  == {q \in tree : Held(fs, q)}
Partial(tree) == {{}, {q \in tree : \A h \in HeldIn(tree) : ~StartsWith(h, q)}}

-----------------------------------------------------------------------------
Init == /\ scene \in Scenes /\ nth = 0
        /\ fs = scene.disk /\ before = scene.disk
        /\ cfg = Defaults /\ warned = FALSE
        /\ pc = "called"
        /\ kept = << >> /\ seen = {} /\ items = << >> /\ delegated = {}
        /\ reports = << >>

(* A call reads its arguments and its environment.  One that asks for      *)
(* help, makes no sense, or has no home ends here.                         *)
Call == /\ pc = "called" /\ nth < Len(scene.calls)
        /\ nth' = nth + 1 /\ before' = fs /\ items' = << >>
        /\ UNCHANGED <<fs, scene, kept, seen, delegated, reports>>
        /\ LET p == parse_args(args')
           IN  \/ /\ p.ends # "" \/ home' = Nowhere
                  /\ UNCHANGED <<cfg, warned, pc>>
               \/ /\ p.ends = "" /\ home' # Nowhere
                  /\ cfg' = p.cfg
                  /\ warned' = (p.cfg.apply /\ ~p.cfg.no_external /\ home_is_overridden(home'))
                  /\ pc' = "resolve"

(* Phases 1 and 2.                                                         *)
Resolve == /\ pc = "resolve"
           /\ kept' = Listing(fs, cfg, home)
           /\ seen' = {}
           /\ pc' = "judge"
           /\ UNCHANGED <<fs, call, items, delegated, reports>>

(* One step of the loop of phase 3, push_item included.                    *)
Judged(item) ==
    /\ items' = Append(items, item)
    /\ seen' = seen \cup {t \in {Head(kept).target_idx} : exists(fs, Head(kept).path)}
    /\ kept' = Tail(kept)
    /\ UNCHANGED <<call, pc, delegated, reports>>

Skip == /\ pc = "judge" /\ kept # << >>
        /\ Reason(Head(kept)) # "ok"
        /\ Judged(Item(Head(kept), Reason(Head(kept))))
        /\ UNCHANGED fs

WouldDelete == /\ pc = "judge" /\ kept # << >>
               /\ Reason(Head(kept)) = "ok" /\ ~cfg.apply
               /\ Judged(Item(Head(kept), "dry-run"))
               /\ UNCHANGED fs

Delete == /\ pc = "judge" /\ kept # << >>
          /\ Reason(Head(kept)) = "ok" /\ cfg.apply
          /\ LET tree == remove_path(Head(kept).path)
             IN  \/ /\ HeldIn(tree) = {}
                    /\ fs' = Without(fs, tree, Now)
                    /\ Judged(Item(Head(kept), "deleted"))
                 \/ /\ HeldIn(tree) # {}
                    /\ \E gone \in Partial(tree) : fs' = Without(fs, gone, Now)
                    /\ Judged(Item(Head(kept), "delete failed"))

(* A target found somewhere is not also reported as missing elsewhere.     *)
Matched(id) == \E idx \in seen : catalog[idx].id = id

(* The items that satisfy a test, told by their positions.                 *)
Retained(stays) ==
    LET of[n \in 0 .. Len(items)] ==
            IF n = 0 THEN << >>
            ELSE IF n \in stays THEN Append(of[n - 1], items[n]) ELSE of[n - 1]
    IN  of[Len(items)]

Retain == /\ pc = "judge" /\ kept = << >>
          /\ items' = Retained({n \in DOMAIN items :
                                    ~(Matched(items[n].id) /\ items[n].reason = "missing")})
          /\ delegated' = {idx \in DOMAIN catalog :
                              /\ catalog[idx].kind = "External"
                              /\ ~cfg.no_external /\ deletable(catalog[idx].tier, cfg)}
          /\ pc' = "delegate"
          /\ UNCHANGED <<fs, call, kept, seen, reports>>

(* The tool's own command runs, or would; what it frees is not counted,    *)
(* and a failed one is still listed as reclaimable.                        *)
handle_external ==
    /\ pc = "delegate" /\ delegated # {}
    /\ LET t == catalog[Min(delegated)]
           listed(v, reason) ==
               items' = Append(items, [id |-> t.id, tier |-> t.tier, path |-> Nowhere,
                                       verdict |-> v, reason |-> reason, bytes |-> 0])
       IN  \/ t.id \notin Installed /\ listed("skipped", "not installed")
           \/ t.id \in Installed /\ ~cfg.apply /\ listed("reclaimable", "dry-run")
           \/ t.id \in Installed /\ cfg.apply
              /\ \E ended \in {"ran", "command failed"} : listed("reclaimable", ended)
    /\ delegated' = delegated \ {Min(delegated)}
    /\ UNCHANGED <<fs, call, pc, kept, seen, reports>>

(* What the items at these positions have together.                        *)
Total(list, which) == SumFunction([i \in which |-> list[i].bytes])
Because(list, reason) == {i \in DOMAIN list : list[i].reason = reason}

Finish ==
    /\ pc = "delegate" /\ delegated = {}
    /\ reports' = Append(reports,
           [cfg |-> cfg, home |-> home, items |-> items,
            total_reclaimable |-> Total(items, {i \in DOMAIN items : items[i].verdict = "reclaimable"}
                                               \cup Because(items, "deleted")),
            total_opt_in      |-> Total(items, Because(items, "needs a flag")),
            total_deleted     |-> Total(items, Because(items, "deleted"))])
    /\ pc' = "called"
    /\ UNCHANGED <<fs, call, kept, seen, items, delegated>>

(* What is printed of a report: a row for each target, the largest paths,  *)
(* what is held back, skipped and absent, and the headline.                *)
print_human(r) ==
    LET all  == {i \in DOMAIN r.items : r.items[i].verdict = "reclaimable"}
        held == Because(r.items, "needs a flag")
        gone == Because(r.items, "missing")
        of(id)  == {i \in all : r.items[i].id = id}
        rank(i) == Cardinality({j \in all : \/ r.items[j].bytes > r.items[i].bytes
                                           \/ (r.items[j].bytes = r.items[i].bytes /\ j < i)})
    IN  [rows     |-> {[id |-> id, paths |-> Cardinality(of(id)), bytes |-> Total(r.items, of(id))] :
                           id \in {r.items[i].id : i \in all}},
         largest  |-> {i \in all : r.items[i].bytes > 0 /\ rank(i) < r.cfg.top},
         held     |-> held,
         skipped  |-> {i \in DOMAIN r.items : r.items[i].verdict = "skipped"} \ (held \cup gone),
         absent   |-> Cardinality(gone),
         headline |-> IF r.cfg.apply THEN r.total_deleted ELSE r.total_reclaimable]

Next == Call \/ Resolve \/ Skip \/ WouldDelete \/ Delete \/ Retain \/ handle_external \/ Finish

Spec == Init /\ [][Next]_vars

-----------------------------------------------------------------------------
(* Every variable has its type; what is kept is sorted and not nested.     *)
TypeOK ==
    /\ WellFormed(fs) /\ WellFormed(before) /\ DOMAIN fs \subseteq DOMAIN before
    /\ nth \in 0 .. Len(scene.calls)
    /\ cfg.min_age_days \in Nat /\ cfg.top \in Nat /\ warned \in BOOLEAN
    /\ pc \in {"called", "resolve", "judge", "delegate"}
    /\ seen \cup delegated \subseteq DOMAIN catalog
    /\ \A i \in DOMAIN kept : \A j \in 1 .. i - 1 :
           /\ ~StartsWith(kept[i].path, kept[j].path)
           /\ SortsBefore(kept[j], kept[i])
    /\ \A i \in DOMAIN items :
           /\ items[i].verdict \in {"reclaimable", "skipped"}
           /\ items[i].bytes \in Nat

Gone   == DOMAIN before \ DOMAIN fs
Failed(its)     == \E i \in DOMAIN its : its[i].reason = "delete failed"
Removals        == {i \in DOMAIN items : items[i].reason \in {"deleted", "delete failed"}}
Length(disk, qs) == SumFunction([q \in qs |-> disk[q].len])
Freed(disk, qs)  == SumFunction([q \in qs |-> disk[q].alloc])

(* The allowlist, told without cachewipe's own searches: a cache location, *)
(* an install with a newer one of the same product beside it, or a         *)
(* directory of the right name next to its manifest.                       *)
Listed(q) ==
    \E idx \in DOMAIN catalog :
        LET t == catalog[idx] IN
        /\ deletable(t.tier, cfg)
        /\ \/ \E k \in DOMAIN t.subs :
                  /\ t.kind = "HomeDirs"
                  /\ q = Entry(before, home \o t.subs[k])
           \/ \E k \in DOMAIN t.subs : \E r \in DOMAIN before :
                  /\ t.kind = "VersionedDirs" /\ before[q].type = "dir"
                  /\ Parent(q) = Walk(before, home \o t.subs[k]) /\ Parent(r) = Parent(q)
                  /\ before[r].type = "dir" /\ version_group(Last(r)) = version_group(Last(q))
                  /\ r # q /\ before[r].mtime >= before[q].mtime
           \/ \E k \in DOMAIN cfg.scan_roots :
                  /\ t.kind = "NamedDirUnder" /\ before[q].type = "dir"
                  /\ Last(q) = t.name /\ IsStrictPrefix(Walk(before, cfg.scan_roots[k]), q)
                  /\ t.siblings = {} \/ \E n \in t.siblings : Append(Parent(q), n) \in DOMAIN before

(* Whatever disappears was in something the allowlist names, which the     *)
(* report says was deleted or could not be ("deletion only ever operates   *)
(* on paths that a Target in this catalog resolved").                      *)
AllowlistOnly ==
    \A q \in Gone :
        \E i \in Removals :
            /\ q \in Tree(before, Entry(before, items[i].path))
            /\ Listed(Entry(before, items[i].path))

(* A call does what its arguments say, however they are strung together:   *)
(* it deletes only if --apply is one of them and not another option's      *)
(* value, a VM disk only if its flag is, and under a home that is not the  *)
(* login home it runs a tool's own cleanup only when it has warned that    *)
(* this reaches the real machine, or not at all after --no-external        *)
(* (parse_args, main; SECURITY.md "Nothing is deleted without --apply").   *)
ActsAsAsked ==
    /\ Gone # {} => Given(args, "--apply")
    /\ \A i \in Removals :
           items[i].tier = "vm-disk" => Given(args, "--include-vm-disks")
    /\ \A i \in DOMAIN items : items[i].reason \in {"ran", "command failed"} =>
           /\ Given(args, "--apply") /\ ~Given(args, "--no-external")
           /\ warned \/ LoginHomes = {} \/ home \in LoginHomes

(* What the report refuses or holds back is still there to the last file,  *)
(* whatever other targets found inside or around it.                       *)
RefusedIntact ==
    \A i \in DOMAIN items :
        items[i].reason \in {"protected", "outside root", "in use", "needs a flag", "too new"} =>
            Tree(before, Entry(before, items[i].path)) \subseteq DOMAIN fs

(* The bytes credited as deleted are those that went: the space of what    *)
(* was a candidate itself, file or link, and the length of the files in    *)
(* one.                                                                    *)
TotalsHonest ==
    LET single == {q \in Gone : \E i \in Removals : q = Entry(before, items[i].path)}
    IN  ~Failed(items) => Total(items, Because(items, "deleted"))
                              = Freed(before, {q \in single : before[q].type # "dir"})
                                + Length(before, {q \in Gone \ single : before[q].type = "file"})

(* A dry run promises what a call with the same flags then delivers, if no *)
(* removal fails.                                                          *)
Repeats(r, s) == r.home = s.home /\ s.cfg = [r.cfg EXCEPT !.apply = s.cfg.apply]

PromiseKept ==
    \A n \in 2 .. Len(reports) :
        LET r == reports[n - 1]  s == reports[n] IN
        Repeats(r, s) /\ ~r.cfg.apply /\ s.cfg.apply /\ ~Failed(s.items) =>
            s.total_deleted = r.total_reclaimable

(* After a call none of whose removals failed, one with the same flags     *)
(* finds nothing more: it deletes nothing and tries nothing, and a dry run *)
(* says that there is nothing to reclaim.                                  *)
SecondCallClean ==
    \A n \in 2 .. Len(reports) :
        LET r == reports[n - 1]  s == reports[n] IN
        Repeats(r, s) /\ r.cfg.apply /\ ~Failed(r.items) =>
            /\ \A i \in DOMAIN s.items : s.items[i].reason \notin {"deleted", "delete failed"}
            /\ s.total_reclaimable = 0

(* What is held back is what its flag adds, no more of anything else: and  *)
(* it does add all of it, unless the age gate, which is only asked about   *)
(* it once it has its flag, keeps some (push_item; SKILL.md                *)
(* "total_opt_in_bytes - sized and shown, but gated").                     *)
OptInAdds ==
    \A n \in 2 .. Len(reports) :
        LET r == reports[n - 1]  s == reports[n] IN
        /\ r.home = s.home /\ ~r.cfg.apply /\ ~r.cfg.include_vm_disks
        /\ s.cfg = [r.cfg EXCEPT !.include_vm_disks = TRUE]
        => /\ s.total_opt_in = 0
           /\ s.total_reclaimable <= r.total_reclaimable + r.total_opt_in
           /\ r.cfg.min_age_days = 0 =>
                  s.total_reclaimable = r.total_reclaimable + r.total_opt_in

(* The printed report accounts for every item once, and its rows add up to *)
(* its headline, failed removals and failed commands or not; no path that  *)
(* it counts but does not list is larger than one it lists (print_human).  *)
PrintedAddsUp ==
    \A n \in DOMAIN reports :
        LET r == reports[n]  p == print_human(r) IN
        /\ p.headline = SumFunction([row \in p.rows |-> row.bytes])
        /\ Len(r.items) = SumFunction([row \in p.rows |-> row.paths])
                          + Cardinality(p.held) + Cardinality(p.skipped) + p.absent
        /\ \A i \in p.largest : \A j \in DOMAIN r.items \ p.largest :
               r.items[j].verdict = "reclaimable" => r.items[j].bytes <= r.items[i].bytes

(* Files younger than --min-age-days outlive any call, those in            *)
(* directories that the sizing walk could not read as well.                *)
RecentSurvives ==
    cfg.min_age_days > 0 =>
        \A q \in Gone : before[q].type = "file" =>
            before[q].mtime = 0 \/ Now - before[q].mtime >= cfg.min_age_days * Day

(* Of every product, the newest install at the start is never deleted, by  *)
(* however many calls.                                                     *)
Homes         == {scene.calls[i].home : i \in DOMAIN scene.calls} \ {Nowhere}
Installs(dir) == {r \in Children(scene.disk, dir) : scene.disk[r].type = "dir"}

NewestKept ==
    \A h \in Homes : \A idx \in DOMAIN catalog : catalog[idx].kind = "VersionedDirs" =>
        \A k \in DOMAIN catalog[idx].subs :
            LET all == Installs(h \o catalog[idx].subs[k]) IN
            \A q \in all :
                (\A r \in all : version_group(Last(r)) = version_group(Last(q)) =>
                                    r = q \/ scene.disk[r].mtime < scene.disk[q].mtime)
                    => q \in DOMAIN fs

(* Home and the directories above it are never deleted.                    *)
HomeSurvives ==
    \A h \in Homes : \A i \in DOMAIN h :
        SubSeq(h, 1, i) \in DOMAIN scene.disk => SubSeq(h, 1, i) \in DOMAIN fs

(* Nothing outside home and the scan roots is deleted, links or not.       *)
StaysInside ==
    \A q \in Gone :
        \/ StartsWith(q, home)
        \/ \E k \in DOMAIN cfg.scan_roots : StartsWith(q, Walk(before, cfg.scan_roots[k]))

(* Some of this is only true where cachewipe's paths are no aliases: a     *)
(* scene is direct if the way to each location and scan root ends where it *)
(* says, or nowhere.                                                       *)
Straight(disk, p) == Walk(disk, p) \in {p, Nowhere}

NoAlias(disk, h, c) ==
    /\ \A idx \in DOMAIN catalog : \A k \in DOMAIN catalog[idx].subs :
           LET dir == home_path(h, catalog[idx].subs[k])
           IN  Straight(disk, IF catalog[idx].kind = "HomeDirs" THEN Parent(dir) ELSE dir)
    /\ \A k \in DOMAIN c.scan_roots : Straight(disk, c.scan_roots[k])

Direct(s) ==
    \A i \in DOMAIN s.calls :
        LET p == parse_args(s.calls[i].args)
        IN  s.calls[i].home # Nowhere /\ p.ends = "" => NoAlias(s.disk, s.calls[i].home, p.cfg)

(* It is plain if no location and no lock is a link.                       *)
Plain(s) ==
    \A q \in DOMAIN s.disk : s.disk[q].type = "link" =>
        /\ Last(q) \notin LockNames
        /\ \A i \in DOMAIN s.calls : \A idx \in DOMAIN catalog : \A k \in DOMAIN catalog[idx].subs :
               q # home_path(s.calls[i].home, catalog[idx].subs[k])

OneHome(s) == \A i, j \in DOMAIN s.calls :
    s.calls[i].home # Nowhere /\ s.calls[j].home # Nowhere => s.calls[i].home = s.calls[j].home

(* It is orderly if no install is from the future or named like what a     *)
(* search looks for.                                                       *)
Orderly(s) ==
    \A h \in {s.calls[i].home : i \in DOMAIN s.calls} \ {Nowhere} : \A idx \in DOMAIN catalog :
        catalog[idx].kind = "VersionedDirs" =>
            \A k \in DOMAIN catalog[idx].subs :
                \A q \in Children(s.disk, h \o catalog[idx].subs[k]) :
                    /\ s.disk[q].mtime <= Now
                    /\ \A t \in DOMAIN catalog : Last(q) # catalog[t].name

(* It is vouched for if no link stands for what proves a build directory.  *)
Vouched(s) ==
    \A q \in DOMAIN s.disk : s.disk[q].type = "link" =>
        \A t \in DOMAIN catalog : Last(q) \notin catalog[t].siblings

(* No removal of any call so far has failed.                               *)
NoneFailed == ~Failed(items) /\ \A n \in DOMAIN reports : ~Failed(reports[n].items)

-----------------------------------------------------------------------------
(* A whole call, told without the steps it takes: of the candidates that   *)
(* the disk has at the start those go, with all that is in them, that no   *)
(* other one holds, that come first of their path, and that are fit.       *)
Topmost(found) ==
    {x \in found : \A y \in found : StartsWith(x.path, y.path) => y.path = x.path /\ ~SortsBefore(y, x)}

Chosen(disk, c, h) == {x \in Topmost(Candidates(disk, c, h)) : ReasonAt(disk, c, h, x) = "ok"}
Doomed(disk, c, h) == UNION {Tree(disk, x.path) : x \in Chosen(disk, c, h)}
Worth(disk, c, h)  == SumFunction([x \in Chosen(disk, c, h) |-> Sized(disk, x)])

(* The disk as it is between calls, and as the call under way has found it.*)
Between == IF pc = "called" THEN fs ELSE before

Whole == INSTANCE Sweep WITH disk <- Between, told <- reports

(* A call does at once what Sweep says, judged on the disk it found, where *)
(* paths are no aliases (run).                                             *)
ImplementsSweep == Whole!Spec

-----------------------------------------------------------------------------
(* What the documentation says and the code does not do; for what else is  *)
(* wrong, NewestKept and HomeSurvives, see the runs "stuck" and "dot".     *)

(* "A child with no `-` is its own group, so it is always kept."           *)
UndashedKept ==
    \A h \in Homes : \A idx \in DOMAIN catalog : catalog[idx].kind = "VersionedDirs" =>
        \A k \in DOMAIN catalog[idx].subs :
            \A q \in Installs(h \o catalog[idx].subs[k]) :
                Last(q) \notin DOMAIN Stem => q \in DOMAIN fs

(* "This tier is OFF unless the user opts in": nothing under a location of *)
(* the tier disappears without its flag.                                   *)
OptInOnly ==
    pc \in {"judge", "delegate"} =>
        \A idx \in DOMAIN catalog : ~deletable(catalog[idx].tier, cfg) =>
            \A k \in DOMAIN catalog[idx].subs :
                Tree(before, home \o catalog[idx].subs[k]) \subseteq DOMAIN fs

(* "total_reclaimable_bytes - what --apply would free with the current     *)
(* flags": the disk gets back what is credited as deleted.                 *)
FreesWhatItCredits ==
    Total(items, Because(items, "deleted")) <= Freed(before, Gone)
=============================================================================
