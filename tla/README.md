# cachewipe in TLA+

cachewipe is a command-line tool that deletes caches and build output a
developer can regenerate. It runs once, single-threaded, and keeps nothing
between runs; what makes it hard to get right is everything around it: package
managers that work in the caches while it looks at them, several targets whose
paths overlap, a file system with links and other users' files, and a report
that has to be true. This directory holds the models of that, the
configurations TLC checks them with and proofs TLAPS checks.

## Inventory

| Part | Source | State | Operations | Must be right |
|---|---|---|---|---|
| `run`, phase 1 | `main.rs` 217-280 | `candidates` | resolve fixed paths, stale versions, named directories | only what the catalog names is found; the newest install is never a candidate |
| phase 2, `dedupe_nested` | `main.rs` 366-397 | `candidates`, `kept` | stable sort, one pass with two checks | every candidate is covered by exactly one kept one |
| phase 3, `push_item` | `main.rs` 286-316, 400-470 | `now`, `seen_present`, `items`, the file system | probe lock, walk, judge, delete, record; retain | nothing in use, protected, recent or held back is deleted; the report owns up to what was |
| delegated cleanups | `main.rs` 318-331, 476-529 | `items` | probe a tool, run its command | only with `--apply`, never with `--no-external` |
| totals | `main.rs` 333-347 | `items` | three sums | promise = delivery, credit = bytes gone |
| guards | `safety.rs` | none | `is_protected`, `within_root`, `evaluate` | home and its ancestors survive |
| scan | `scan.rs` | none | sizing, lock probe, searches | links not followed, stale locks expire |
| versioned installs | `scan.rs` 190-232, `main.rs` 245-261 | the directory entries read so far, the stale installs | read, group, rank; delete later | the last install of a product is not lost |
| catalog | `targets.rs` | none | targets, tiers, `version_group` | opt-in tiers stay put without their flag |
| command line | `main.rs` 75-206 | `Config` | parse, check home, warn | nothing is deleted that was not asked for |
| printed report | `main.rs` 531-636 | none | roll up, list, total | every item appears once, the rows add up |
| free space | `scan.rs` 234-260 | none | ask `df` | not modelled (below) |

Everything is a direct call in one thread. What interacts with the program is
outside it: the tools that own the caches (through their files, lock files and
time stamps), other cleaners (a user's `rm`, a second cachewipe), the clock,
and later runs of cachewipe itself (through what the earlier ones left, and
through the modification times they changed). The hard behaviours are
therefore checks that are stale when used, removals that fail half-way, paths
that name the same file in two ways, and sequences of calls. `PROJECT.json`
lists each as a hazard at its line.

## Modules

| Module | Models | Extends |
|---|---|---|
| `Reclaim` | phase 3 call by call, against the machine | |
| `Cleanup` | what phase 3 promises, abstractly; `Reclaim` implements it | |
| `ReclaimProofs`, `CleanupProofs` | theorems about `Reclaim`; that it implements `Cleanup` | `Reclaim` |
| `Dedupe` | phase 2 step by step, over abstract paths | |
| `Outermost` | what phase 2 promises, in one step; `Dedupe` implements it | |
| `DedupeProofs` | theorems about `Dedupe` | `Dedupe` |
| `Versions` | the choice and deletion of stale installs, against the tools that own them | |
| `VersionsProofs` | theorems about `Versions` | `Versions` |
| `FileSystem` | std::path, std::fs, the kernel's path walk (external) | |
| `FileSystemProofs` | what holds of paths, walks, trees, removals and finite sums; that paths have the order `Dedupe` assumes | `FileSystem` |
| `Safety`, `Catalog`, `Scan` | the three pure source modules, as operators | `FileSystem` |
| `CommandLine` | `parse_args`, `home_is_overridden` | `FileSystem` |
| `CommandLineProofs` | that the parser does what the arguments say | `CommandLine` |
| `Cachewipe` | `main` and `run` on concrete file systems, call after call | `Safety`, `Scan`, `CommandLine` |
| `Sweep` | what a whole call promises, in one step; `Cachewipe` implements it | |
| `CachewipeProofs` | the inductive invariant of `Cachewipe` and what follows from it | `Cachewipe`, `CommandLineProofs` |
| `EffectProofs` | what calls leave on the disk, that their reports and the printed form of them add up, and that a call implements `Sweep` | `CachewipeProofs` |
| `MCReclaim`, `MCDedupe`, `MCVersions`, `MCCachewipe` | instances for TLC | |

Operators marked "Mutant" in a comment are not part of the model: they are
wrong variants of the definition below them, used to show that the properties
notice.

### Reclaim

The loop over the kept candidates, one file-system call per step. A candidate
is a directory with a flat set of entries, each with a modification time.
`ReadPresent` (line 292), `ReadExists` (410), `ProbeLock` (411), `OpenDir` and
`WalkEntry` (`size_path`), `Skip` or `Decide` (412-438), `OpenRemove`, `Unlink`,
`RemoveDir` and `RemoveFails` (`remove_path`), `Retain` (309-316) follow the
code in order; the values read stay in `exists`, `locked`, `newest` and are used later, as
in the code. `t0` is the `now` the run read once at its start.

Between any two of them the machine may move: the clock advances or is set
back, a tool starts (creating or refreshing its lock), writes an entry with a
fresh or an old stamp, ends, or crashes and leaves its lock, and someone else
deletes a cache. An open directory stream may or may not yield an entry that
appears behind it, as POSIX says. What phases 1 and 2 and the path checks
decide is constant here (`TargetOf`, `PathVerdict`, `Gated`); `Cachewipe`
computes it. `ProbeLock` looks for all lock names in one step, where
`lock_present` stats one name after the other: a tool has one lock
(`LockOf`), and what happens to it counts from the moment that name is looked at.

History variables: `probe` (when the lock was probed, and whether its holder
has been at work since), `late` (entries stamped behind the walk's back),
`touched` (candidates the run has removed something from), `lost` (candidates
that line 292 found and line 410 has not).

`Cleanup` says the same in a few actions, without locks, clocks, walks or
entries: a run commits to one candidate at a time, and only to one that guards
and flags allow; what it takes, it takes from that one; a cache goes with the step
that reports it; when the run ends every candidate has an outcome, and only
spared ones may be left out. The refinement mapping (`Clean` in `Reclaim`)
makes `active` the candidate under removal, `outcome` the class of its reason,
and `holds` the caches that exist; the walk, the probe and all that happens to
entries stutter.

### Dedupe

`Sort`, then one `Drop` or `Keep` per candidate. `Before` stands for
`Path::cmp`, `Inside` for `Path::starts_with`; what is assumed of them
(`OrderAssumption`, `InsideAssumption`) is what comparing component by
component gives: `FileSystemProofs` proves it for all paths, and TLC evaluates the
assumptions on real ones in `MCDedupe`. `Outermost` chooses the result in one step; the mapping shows the
kept list once the loop is done, and nothing before.

### Versions

The directory of a versioned tool, whose entries `stale_versions` reads one by
one (`Start`, `ReadEntry`), groups and ranks (`Choose`), and whose stale
installs phase 3 deletes in the order of their names (`Spare`, `Remove`,
`Removed`, `RemoveFails`). Between any two steps its tools may create the
directory of an install, complete it, abandon it, write in it or remove it, and
the clock may advance. An install is `none`, `partial` (unfinished, or
half-removed) or `whole`; names are numbers in the order of the names. A
removal takes two steps, so that the tools can see it half-done. Lock probe, guards
and age gate are in the one action `Spare`, which may also stand for a removal that fails
at once: `Reclaim` has them in detail. History variables: `had` (products with
a whole install at the start), `left` (installs a tool has removed since, other
than those that were to be deleted), `unsound` (products of which an install was read that was not
whole).

### Cachewipe

A scene is a disk and the calls to come, each with its `$HOME` and its
arguments. `Call` reads them (`parse_args`, the first half of `main`), and may
end there; `Resolve` is phases 1 and 2, then comes one `Skip`, `WouldDelete` or `Delete`
per kept candidate, `Retain`, one `handle_external` per delegated target, and
`Finish`, which sums up the report and keeps it in `reports`. `print_human` is
an operator on a report: the rows, the largest paths, what is held back, skipped
and absent, the headline. A file system is a function from canonical paths to
nodes: type, length, allocated space, mtime, mode, link target. Removing an entry changes
the mtime of its directory, which matters because `stale_versions` ranks by it.
A directory of mode "r" keeps its entries, one of mode "none" cannot be read
either; a removal that meets one fails, either at once or after everything else in the
tree has gone, the two ends of the range of outcomes.

`Sweep` says what a call does without its phases and its loop. It looks at the
disk once, before anything is touched, and one step takes what goes and gives
the report. Its constants say what a configuration takes from a disk (`Doomed`)
and what that is worth (`Worth`); `Cachewipe` defines them by the candidates of
phase 1 that no other one holds, that come first of their path (`Topmost`), and
that are fit on that disk (`Chosen`). The refinement mapping (`Whole` in
`Cachewipe`) shows the disk between calls and, during one, the disk it found
(`Between`), so all steps but `Finish` stutter. A dry run takes nothing and
promises what was chosen; where the scene is `Direct` and `Plain` (below), a
call that deletes takes nothing but what was chosen, and if no removal fails
all of it, with that credit. Elsewhere only the way in which entries go is
said: one path may be reached through another, and what an earlier removal
takes then counts for a later one.

`CommandLine` reads the arguments word by word as the code does; its second
half says what they ask for without a parser (a word is a value if an odd number
of valued options precede it), and `ActsAsAsked` compares what a call did with that.
Numbers and paths are what constants say a word stands for.

Bounds and abstractions: nothing else runs during a call, and the clock stands
still (that is `Reclaim` and `Versions`); a link points to a canonical path that
is not a link; `.` occurs in front of a path only, where std keeps it; the
catalog is cut down to the targets a run can meet (`Enabled`).

## Runs

| Run | Instance | Shows |
|---|---|---|
| `locks` | 1 candidate, 2 entries, clock to 5, lock fresh for 3, age gate 1, clock may go back | `WipeExplained`, `AgeGate`, `TypeOK` |
| `report` | 3 candidates of 2 targets, one held back, removals may fail, others delete caches too | `RemovalsReported`, `TargetReported`, `DeletedIsGone`, `ImplementsCleanup` |
| `reclaimed` | 1 candidate, fair, tools stop at time 2 | `EventuallyReclaimed`, `EveryRunEnds` |
| `dedupe` | all lists of up to 3 candidates of 2 targets over all 14 paths of up to 3 components | `KeptIsOutermost`, `KeptCoversOnce`, `LastDecides`, `FirstTargetWins`, `ImplementsOutermost` |
| `calls` | five families of scenes (`MCCachewipe`), 3979 in all, most of them two or three calls in a row | the thirteen invariants of `Cachewipe`, `ImplementsSweep` |
| `versions` | 4 names, three of one product and one of another, one kept; 625 states of the directory, clock to 3, tools stop at 2; weekly runs | `LastInstallExplained`, `KeptBeside`, `EventuallyTrimmed` |

The families of `calls`: *lines*, every command line of up to three of eight
words, under the login home, another home and none; *sweep*, every subset of nested
caches, build output and a `target` that may be data, a dry run and a call that
deletes, and two that delete and a dry run; *guards*, every subset of locks, ages, a future stamp, VM disks, a sparse image,
a directory that cannot be read and one that cannot be emptied, without a flag and
with it, with and without an age gate; *versions*, three installs with every
order of ages and ties, build output and a lock in them, two calls that delete
and a dry run; *boundary*, a home
below a `node_modules` and links out of it, with scan roots inside, above and around.

The bounds suffice for the cases the properties are about. One candidate is
enough for lock and age, because the loop carries nothing from one candidate to
the next but `seen`; three are needed for the retain: two locations of one target and
another target in between. The clock needs room for a lock to be taken, to
expire, and to be set back past. Ticks of the lock and of the age gate share
one clock in `locks`, with a gate shorter than the lock so that it does not
hide it; the real ones are minutes and days. Three candidates are the fewest for which a kept one
that is not the last could hold a nested one. The families of `calls` take every
subset of their groups of files, so each guard is met with and without each
neighbour; two calls are what it takes for one to meet what another left, and a
third asks what is left to reclaim. In `versions` three
names of one product are enough for one to be kept, one to go and one to appear meanwhile, and the second
product's name sorts among them; the clock needs one tick at which ages can
differ and one after the tools have stopped. `CHECK_DEADLOCK FALSE` is used where the program ends: after the
last call of a scene and the last candidate of the list.

In `report` another cleaner may delete a cache between any two calls of the run,
also while its stream is open. Caches do vanish between the two looks at them
there, so the exemption in `TargetReported` is used: without it the run fails.

Fairness (`reclaimed` and `versions`): the clock advances, runs keep being
started (the README's weekly schedule), and a run that has started goes on.
Nothing is assumed of the tools. `EventuallyReclaimed` has as hypothesis that
from some time on none is at work, and failing removals and clock changes are
switched off there. `EventuallyTrimmed` is about a machine whose tools, failing removals and in-use
installs come to rest at the time `Quiet`: without that a tool could touch an
install before every run. In `versions` a directory stream yields every name once,
which POSIX leaves open only for names that vanish and come back.

### Disagreements

Six runs are expected to find a violation; `PROJECT.json` quotes the line each
contradicts.

* `race` — the lock is probed before the sizing walk and not again; a tool
  that takes its lock during the walk has its cache removed. `WipeExplained`
  is what does hold: the holder of a lock that was there at the probe is only
  wiped for one of four named reasons.
* `stuck` — a removal of a stale install that fails half-way makes its directory
  the newest by mtime; the next call keeps the broken one and deletes the good
  one.
* `undashed` — `chromium` and `chromium-1187` fall into one group.
* `dot` — with `--root .` an ancestor of home is found under a relative path,
  which `is_protected` does not recognise.
* `oscache` — without `--include-os-caches` an OS cache is not a candidate,
  and a `node_modules` in it found under a scan root is deleted.
* `sparse` — inside a directory files count with their length, so a sparse disk
  image in `~/.lima` is promised and credited with more than the disk gets back; `TotalsHonest`
  is what does hold: space for what is a candidate itself, length for what is in one.

Other weaknesses met while modelling, with no run of their own: a cache that
vanishes between line 292 and line 410 can drop its target from the report
(`TargetReported` says that nothing else can); a `~/.cache` that is a
link leads deletions out of home, since a fixed location is its own root; a
relative root inside a cache is not recognised as nested, so a dry run counts
its bytes twice; an outer candidate refused as in use hides the inner ones that
were dropped for it; a VM disk used recently is listed as needing only its flag,
and is refused as too new when it is given (`OptInAdds` has the exception);
the warning about a redirected home says that path targets are confined to it,
which a `--root` outside is not (`StaysInside` counts the roots in); an install
that its tool has abandoned half-way is the newest and displaces a whole one
(`LastInstallExplained` names it); a tool that removes the newest install during
a run leaves its product with less than `keep`, since phase 3 deletes what
phase 1 chose (`KeptBeside` counts: with no less than the tool's own removals explain).

## Proofs

The eight proof modules are checked from nothing, for every value of the
constants that satisfies the assumptions named in `Reclaim`, `Dedupe`,
`Versions`, `FileSystem`, `Catalog`, `CommandLine` and `Cachewipe`. These only
give the constants their types (`SystemAssumption`: every scene is a
well-formed file system and calls whose homes are paths; `CatalogAssumption`:
locations are paths, siblings are names; what else is needed of the catalog is proved
of it, `AllSound`), and TLC
evaluates them on every instance.

`Reclaim`: `TypeCorrect` is the type invariant, in three parts (machine, loop,
item), each preserved action by action. On it rest

* `AgeGateHolds`. The gate is not inductive: it says nothing before the
  decision. `AgeInv` adds `WalkBound`: while the walk is under way every entry
  that is neither still to be walked nor stamped behind it is bounded by
  `newest`. The decision turns that bound into the gate.
* `WipeExplainedHolds`. `LockInv` adds that a tool's lock, while it exists, is
  stamped no earlier than the tool's start if it refreshes it (`LockStamped`),
  that no session starts in the future unless the clock may go back (`SessionsPast`), that a probe that found a live
  holder and no fresh lock has an explanation (`ProbeTruth`), and that only a
  candidate probed as not in use is removed (`RemovesUnlocked`).
* `RemovalsReportedHolds`. `ReportInv` adds that what was touched is behind the
  loop or under removal (`Behind`), that what is under removal was judged as
  deletable (`Judged`), and that an idle run is back at the first candidate
  (`IdleAtFirst`).
* `DeletedIsGoneHolds`, an action property, from the type invariant.
* `ReclaimImplementsCleanup`: every step is a step of `Cleanup` or a stutter of
  the mapping. It needs `ReportInv` and `Settling`: while a run is under way
  exactly the candidates at and after `cur` have no reason yet.
* `TargetReportedHolds`, whoever else cleans. `SeenInv` ties `seen` to
  candidates that are shown: a target is only in it if one of its candidates
  is recorded under another reason than missing, is under way and was found, or
  vanished between the two looks at it.

`Dedupe`: `KeptCoversOnceHolds`, `LastDecidesHolds` and `KeptIsOutermostHolds`,
for any number of candidates. The inductive invariant adds that the candidates
are sorted and a rearrangement of the input, and that what is kept is behind the
loop's position, hence before everything still to come. That the last kept
candidate always decides shows that the second check of the loop never finds
anything (`LastDecides`): what lies between a directory and something in it, in the order, is in the
directory.

`FirstTargetWinsHolds` follows the positions of equal paths through the stable sort and the
loop; `DedupeImplementsOutermost` combines it with the outermost property and
the order of the kept list; `DedupeTypeCorrect` is the type invariant.

`Versions`: `VersionsTypeCorrect`, and `LastInstallExplainedHolds` by an
invariant in two parts, for products that had a whole install and of which
neither a tool removed one, other than a stale one, nor the run read one that was not whole. While the
directory is read (`Reading`), everything read of such a product is whole, and
some whole install has been or will be read; afterwards (`Chosen`), some whole
install is not stale. The step between them is `NewestStays`: the newest of
what was read of a product is never stale, as nothing is ahead of it; that a newest
one exists is well-foundedness of the naturals. `KeptBesideHolds` needs no
induction over the ranking either: what is ahead of the newest stale install of
a product is at least `keep` installs, and none of them is stale (`EnoughAhead`).
What was read stays there unless a tool removes it (`Standing`), and so does what is
kept beside the stale ones (`Backed`).

`FileSystem`: `PathsAreOrdered` and `StartsWithAgrees` prove, for paths of any
length over any names, what `Dedupe` assumes of its abstract order: two
different paths are decided by the first component in which they differ, or by
their length. So the theorems about `Dedupe` hold for `Path::cmp` and
`Path::starts_with` as `Cachewipe` uses them. The rest of `FileSystemProofs` is
lemmas the proofs about `Cachewipe` need: a walk ends at a directory entry or
nowhere (`WalkStays`), goes on component by component (`WalkAppend`), and on what
remains of a disk ends where it did or nowhere (`WalkRemains`); a removal leaves
a well-formed disk that remains of the old one; finite sums begin, grow, join and
are carried over to other indices (`SumBegins` to `SumSame`).

`CommandLine`: `ParsesAsGiven` proves, for argument lists of any length, that
each switch of a parse that goes through is on if and only if its option is
given and is not another option's value. The parser reads from the left with a
state; `Given` looks back from a word and counts. The induction on the arguments
read carries that the parser waits for a value exactly if the next word is one.

`Cachewipe`, for every catalog, disk (with links, missing permissions, locks,
any times), command line and number of calls:

* `CallsWellFormed`, `DeletesAllowlisted`, `SparesRecent` and `ObeysArguments`
  rest on one inductive invariant, `IInv`. `AllowlistOnly` and
  `RecentSurvives` say nothing about what is still to be judged. `Basics` adds
  that the disk is what remains of the one the call found (`Remains`: nodes only
  go, and what stays keeps what it is); `Phases` that every candidate left
  is one of phase 1 on that disk (`Resolved`: an entry the allowlist names or
  none), and that the list is sorted without a path inside another; `Reported`
  that each item fits the configuration. That phase 2 keeps a sorted list of
  candidates is an induction over its loop (`DedupeKeeps`), and that phase 1
  resolves to allowlisted entries goes through all four kinds (`HomeCandidatesAre`
  to `CandidatesAre`). `SparesRecent` needs that a directory nobody can search
  holds all that is below it (`Held`): a removal that went on there would take
  what the walk, and so the gate, cannot see.
* `RefusedSurvive`, `KeepsHome`, `StaysHome` need a hypothesis, `Direct`: the
  way to each location and scan root of the scene ends where its spelling says,
  or nowhere. Below it there may be any links. Without it the statements are
  false, as the run `dot` and the link of `~/.cache` (above) show; every scene
  of `calls` satisfies it, which TLC evaluates (`ScenesAreDirect`). `KeepsHome` also needs that all calls of a scene have one
  home (`OneHome`): what is home to one call is in another one's scan root. Their
  invariant `JInv` adds that no listed path is inside another or inside a
  candidate left (`Apart`), that a path that is an entry is that entry
  (`Spelled`), and `HomeSurvives` itself (`Living`).
* `CreditsHonestly`: what is credited is what went, counted once. `KInv` adds
  that what was listed as deleted is gone (`Credited`), so that what the next
  removal takes is not yet counted; both sides of the equation then grow by the
  same amount (`TallyGrows`, `TotalAppend`), and the retain drops only zeros
  (`RetainedTotal`).
* `PrintsWhatAddsUp`: `PInv` says that the rows of a report fit its
  configuration (`AllFit`: what is deleted is reclaimable, what is held back or
  missing is not, and with `--apply` nothing but what is deleted has reclaimable bytes); the rest is about `print_human`, for any
  report of such rows: the rows partition what is counted (`RowsAddUp`), the four ways to
  account for an item are disjoint (`FourParts`), and those ranked first are
  the largest (`LargestFirst`).
* `FlagAddsWhatWasHeld`, without a hypothesis, compares two reports, and rests on
  `OInv`. A dry run leaves the disk alone; its items keep pace with the listing
  of that disk position by position, each held back, deletable or not and of the
  size that the disk gives it (`Judging`, `Renders`); `Retain` and the delegated cleanups change neither
  of the two totals (`Summed`); so the last report, if of a dry run, is told of
  the disk that the next call finds (`LastTold`). Two tellings of one disk, the
  second with the flag, have the same listing, because a catalog entry that is
  held back is searched for all the same (`VmDisksConsidered`), and differ in
  the reasons of what was held back alone (`FlagReasons`); their totals are
  compared as shares of that listing (`TwoTold`).
* `DeliversWhatItPromised`: the call after a dry run, with the same flags and
  `--apply`, deletes what was promised, to the byte, unless a removal fails. It
  needs `Direct` and also `Plain`: no location and no lock is a link. A lock
  looked for behind a link may be gone once an earlier removal of the call has
  taken what it points to, and the candidate then counts as free. Every scene of
  `calls` in which a call follows a dry run satisfies it (`ScenesArePlain`). `QInv`
  adds to the invariants of the two reports and of the paths that nothing in,
  at or on the way to a candidate has been touched until its turn (`Touched`,
  `HeadUntouched`). So its walk, size, locks and containment are the same on the
  disk of the start and on that of the moment (`WalkKept`, `SizeKept`,
  `LocksKept`, `LenientKept`, `ReasonKept`), a call that deletes keeps pace with
  the same listing as a dry run (`HeadRenders`, `Delivering`), and both reports
  are the same share of it (`DryListsTheSame`).
* `KeepsNewest`: of every product the newest install of the start is there after
  any number of calls. Besides `Direct` and `OneHome` it needs that no install is
  from the future or named like what a search looks for (`Orderly`), and that no
  removal has failed (`NoneFailed`): the run `stuck` shows a failed removal make
  an older install the newest, and an install named `node_modules` is removed as one.
  Every scene of `calls` satisfies `Orderly` (`ScenesAreOrderly`). That nothing
  is missing is not inductive, since `stale_versions` goes by the times of the
  directories and a removal changes the time of the one around it. The invariant
  is that the newest install is still ahead of the others of its product
  (`Stands`), on the disk of the moment and on the one the call found
  (`Standing`). A removal must then spare the newest (`NewestSpared`: no other
  location of the catalog contains the installs of a product or is in them,
  `Aside` and `PlacesApart`, proved of the catalog itself; what is deleted as stale has a newer one beside it; and no directory on the way
  has a name that is searched for), and must not renew an older one: what is right in
  that one would have to be a candidate of its own, but the older install is a
  candidate as well (`OlderFound`), and no candidate that is kept is inside another one,
  kept or not (`Outermost`, from `KeptIsOutermost`). A failed removal stays in
  the reports (`Confessed`), so no later call can hide it.
* `CleansOnce`: after a call none of whose removals failed, one with the same
  flags deletes nothing more, and a dry run has nothing to reclaim. It needs
  `Direct`, `Plain` and `Orderly`, and that no link stands for what proves a
  build directory (`Vouched`); `ScenesAreVouched` has TLC evaluate that.
  Otherwise it is false: an install that was kept for a time in the future loses
  that time to a removal inside it, and one that was refused as in use may then
  rank first; and a manifest that is a link is no proof any more once what it
  leads to has gone. `CInv` adds to `QInv` what a call has done to the disk so
  far, entry by entry: what is gone is all that is in the candidates judged fit
  so far, no more (`Emptied`), and what is left is as it was but for the time of
  directories that lost something (`Wiped`, `Clocked`). So at its end (`Settled`)
  the disk is known from the one it found, and what a search finds on it can be
  compared: every candidate was one before (`FoundBefore`; the newest install of
  a product is the newest still, `NewestStays`), every one that was refused is
  found again (`FoundAgain`), with the same reason (`ReasonLeft`). A
  candidate that was fit is gone (`DyingIs`); one that was dropped for an outer
  one is dropped again or gone with it (`CleanAfter`).
* `CachewipeImplementsSweep`, the refinement, which holds of every scene
  (the conditions `Direct` and `Plain` are part of `Sweep`). `SInv`
  adds to `CInv` that what phase 3 has yet to look at is what `Sweep` chooses
  from (`Drawn`), and that what is gone was chosen (`Owed`), which holds beyond a
  removal that fails, when a call no longer keeps pace with its listing. What
  phase 2 keeps is exactly what is `Topmost`, each once (`ListedIsTopmost`), so
  the totals, shares of the listing, are sums over what was chosen
  (`ShareIsWorth`), and what a listing was emptied of is what was doomed
  (`EmptiedIsDoomed`).

No induction theorem of the library is used on an operator: inductions are over
sets, such as the numbers for which a formula holds (`NatInduct`, `SeqInduct` in
`FileSystemProofs`), and recursive functions are shown to exist by `Recursion`.

Only model-checked is liveness: `EventuallyReclaimed`, `EveryRunEnds` and
`EventuallyTrimmed`. Every other property of a passing run is stated by a theorem.

## Not modelled

* `free_bytes`, `data_volume`: the output of `df`, only displayed, and changed
  by every process of the machine.
* the text of `print_help`, `human` and the wording of the report. The JSON
  output is the report itself. The number of files of an item is only printed.
* what `docker` and `brew` do: outside this repository; the step that runs them
  has every outcome the code distinguishes.
* hard links, mounts, access lists, and files that cannot be read.
* the skill, the evaluation fixtures, the benchmark, the demo and CI.

## Plan

1. Done: phase 3 against the machine, phase 2, the choice of versions against
   the tools, a call from its arguments to its printed report on concrete file
   systems; abstract specifications of phase 2, of phase 3 and of a whole call,
   with proofs that they are implemented.
2. Done: the parser, the file system and the safety of a call proved for every
   disk; its credit and its printed report as well.
3. Done: proofs about two reports, `OptInAdds` of two dry runs, `PromiseKept`
   of a dry run and a call that deletes, `SecondCallClean` of two calls that
   delete; and about any number of calls, `NewestKept`.
4. Left: several cachewipe processes at once on one concrete file system
   (`Reclaim` has other cleaners, but no paths that overlap), and phase 1
   against tools that change the disk under every search, not only under that
   for installs.
