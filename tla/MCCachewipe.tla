---------------------------- MODULE MCCachewipe ----------------------------
(* Small machines for Cachewipe: files in a home and its projects, each of *)
(* them present or not, and a few calls in a row.                          *)
EXTENDS Cachewipe

MCNames == << "--apply", "--help", "--include-vm-disks", "--min-age-days", "--no-external",
              "--root", "--top", ".cache", ".lima", ".lock", ".next", ".npm", "0", "1", "2",
              "Caches", "Cargo.toml", "Containers", "Data", "Docker.raw", "Google", "Library",
              "_npx", "a", "build.gradle", "build.gradle.kts", "c", "c-1", "c-2", "c-3",
              "com.docker.docker", "data", "etl", "h", "ms-playwright", "node_modules",
              "pom.xml", "target", "u", "uv", "vms", "w" >>

MCStem == [n \in {"c-1", "c-2", "c-3"} |-> "c"]

MCNow  == 20 * Day
Old    == MCNow - 10 * Day
Recent == MCNow - Day
U      == <<"/", "u">>
MCHome == U \o <<"h">>
H(sub) == MCHome \o sub

(* A disk with these entries and the directories above them.               *)
Above(ps)   == UNION {{SubSeq(p, 1, i) : i \in 1 .. Len(p)} : p \in ps}
Disk(entry) == [q \in Above(DOMAIN entry) |->
                    IF q \in DOMAIN entry THEN entry[q] ELSE Dir(Old)]

At(p, node) == [q \in {p} |-> node]
With(f, g)  == [q \in DOMAIN f \cup DOMAIN g |-> IF q \in DOMAIN g THEN g[q] ELSE f[q]]
AnyOf(base, parts) == {Disk(FoldSet(With, base, sub)) : sub \in SUBSET parts}

Work     == H(<<"w">>)
DeepHome == U \o <<"node_modules", "h">>
Root     == <<"/">>

(* Arguments: paths, numbers, and options that may be taken for a path.    *)
Options   == {"--apply", "--root", "--include-vm-disks", "--no-external", "--top", "--help"}
MCNumbers == "0" :> 0 @@ "1" :> 1 @@ "2" :> 2
MCPaths   == "~" :> MCHome @@ "~/w" :> Work @@ "/u" :> U @@ "." :> <<".">>
             @@ "deep" :> DeepHome @@ "deep/w" :> DeepHome \o <<"w">>
             @@ [t \in Options \cup {"--min-age-days"} \cup DOMAIN MCNumbers |-> <<t>>]
MCLogin   == {MCHome, DeepHome}

When(b, words) == IF b THEN words ELSE << >>
Roots(list)    == FlattenSeq([i \in DOMAIN list |-> <<"--root", list[i]>>])
Args(vm, days, roots) ==
    When(vm, <<"--include-vm-disks">>) \o When(days > 0, <<"--min-age-days", ToString(days)>>)
    \o Roots(roots)

Scene(disk, where, lines) ==
    [disk |-> disk, calls |-> [i \in DOMAIN lines |-> [home |-> where, args |-> lines[i]]]]

Quiet(words)        == Append(words, "--no-external")
Apply(words)        == Append(words, "--apply")
DryThenApply(words) == <<words, Apply(words)>>
ApplyTwice(words)   == <<Apply(words), Apply(words)>>
ApplyThenAsk(words) == Append(ApplyTwice(words), words)

-----------------------------------------------------------------------------
(* lines: every short command line, under any home                         *)
LineDisk == Disk(With(With(At(H(<<"w", "node_modules", "a">>), File(1, Old)),
                           At(H(<<".lima", "a">>), File(2, Old))),
                      At(H(<<".npm", "_npx", "a">>), File(4, Old))))
Words == Options \cup {"~", "2"}
LineScenes == {Scene(LineDisk, where, <<line>>) :
                   where \in {MCHome, U, Nowhere}, line \in UNION {[1 .. n -> Words] : n \in 0 .. 3}}

-----------------------------------------------------------------------------
(* sweep: caches, nested build output, a target directory that may be data *)
SweepDisks ==
    AnyOf(At(H(<<"w", "a">>), File(1, Old)),
          {At(H(<<".npm", "_npx", "node_modules", "a">>), File(2, Old)),
           At(H(<<"w", ".next", "node_modules", "a">>), File(4, Old)),
           At(H(<<"w", ".next", "c">>), File(8, Old)),
           At(H(<<"w", "etl", "target", "a">>), File(16, Old)),
           At(H(<<"w", "etl", "Cargo.toml">>), File(32, Old)),
           With(With(At(H(<<".cache", "ms-playwright", "c-1", "a">>), File(64, Old)),
                     At(H(<<".cache", "ms-playwright", "c-2", "a">>), File(128, Old))),
                At(H(<<".cache", "ms-playwright", "c-3", "a">>), File(256, Old))),
           At(H(<<".lima", "node_modules", "a">>), File(512, Old))})

SweepScenes ==
    UNION {LET words == Args(vm, 0, roots)
           IN  {Scene(disk, MCHome, DryThenApply(words)), Scene(disk, MCHome, ApplyThenAsk(Quiet(words)))} :
           disk \in SweepDisks, vm \in BOOLEAN, roots \in {<<"~/w">>, <<"~/w", "~">>}}

-----------------------------------------------------------------------------
(* guards: locks, ages, held-back disks, a directory that keeps its        *)
(* entries and one that cannot be read                                     *)
DockerRaw == H(<<"Library", "Containers", "com.docker.docker", "Data", "vms", "0", "data",
                 "Docker.raw">>)
GuardDisks ==
    AnyOf(With(At(H(<<"w", ".next", "c">>), File(1, Old)),
               At(H(<<"w", "node_modules", "a">>), File(8, Old))),
          {At(H(<<"w", ".next", ".lock">>), File(2, MCNow - 10)),
           At(H(<<"w", ".next", "node_modules", "a">>), File(4, Recent)),
           With(At(H(<<"w", ".next", "data">>), Guarded("none", Old)),
                At(H(<<"w", ".next", "data", "etl", "a">>), File(512, Recent))),
           With(At(H(<<"w", "node_modules", "c">>), Guarded("r", Old)),
                At(H(<<"w", "node_modules", "c", "a">>), File(16, Old))),
           With(At(H(<<".npm", "_npx", "node_modules", "a">>), File(32, MCNow + Day)),
                At(H(<<".npm", "_npx", ".lock">>), File(64, MCNow - LockFresh))),
           At(H(<<".lima", "node_modules", "a">>), File(128, Recent)),
           At(DockerRaw, Sparse(1024, 256, Old))})

GuardScenes ==
    UNION {{Scene(disk, MCHome, <<Quiet(Args(FALSE, days, <<"~">>)), Quiet(Args(TRUE, days, <<"~">>))>>),
            Scene(disk, MCHome, <<Quiet(Apply(Args(TRUE, days, <<"~">>))),
                                  Quiet(Apply(Args(FALSE, days, <<"~">>)))>>)} :
           disk \in GuardDisks, days \in {0, 2}}

-----------------------------------------------------------------------------
(* versions: installs of any age, build output in them, two calls that     *)
(* delete and a dry run                                                    *)
Browser(name) == H(<<".cache", "ms-playwright", name>>)
Install(name, mtime) ==
    With(At(Browser(name), Dir(mtime)), At(Append(Browser(name), "a"), File(1, Old)))
Browsers(m) == With(With(Install("c-1", m[1]), Install("c-2", m[2])), Install("c-3", m[3]))

VersionDisks ==
    UNION {AnyOf(Browsers(m),
                 {At(Browser("c-1") \o <<"node_modules", "a">>, File(2, Old)),
                  At(Browser("c-2") \o <<"node_modules", "a">>, File(4, Recent)),
                  At(Append(Browser("c-3"), ".lock"), File(8, MCNow - 10))}) :
           m \in [1 .. 3 -> {Old, Old + 1, Recent}]}
VersionScenes == {Scene(disk, MCHome, ApplyThenAsk(Quiet(words))) :
                      disk \in VersionDisks, words \in {Args(FALSE, days, <<"~">>) : days \in {0, 2}}}

-----------------------------------------------------------------------------
(* boundary: a home below a node_modules, links in and out of it           *)
BoundaryDisks ==
    AnyOf(At(DeepHome \o <<".npm", "_npx", "a">>, File(1, Old)),
          {At(U \o <<"node_modules", "a">>, File(2, Old)),
           At(U \o <<"data", "uv">>, File(4, Old)),
           At(DeepHome \o <<".cache", "uv">>, Link(U \o <<"data">>)),
           At(DeepHome \o <<"w", "target">>, Link(U \o <<"data">>)),
           At(DeepHome \o <<"w", "Cargo.toml">>, File(8, Old)),
           At(DeepHome \o <<"w", "node_modules", "a">>, File(16, Old))})
BoundaryScenes == {Scene(disk, DeepHome, ApplyTwice(Quiet(Args(FALSE, 0, roots)))) :
                       disk \in BoundaryDisks,
                       roots \in {<< >>, <<"/u">>, <<"deep">>, <<"deep/w", "/u">>}}

CallScenes == LineScenes \cup SweepScenes \cup GuardScenes \cup VersionScenes \cup BoundaryScenes

(* They meet the conditions under which some of it is proved for all.      *)
ASSUME ScenesAreDirect == \A s \in CallScenes : Direct(s) /\ OneHome(s)
ASSUME ScenesArePlain  == \A s \in CallScenes \ BoundaryScenes : Plain(s)
ASSUME ScenesAreOrderly == \A s \in CallScenes : Orderly(s)
ASSUME ScenesAreVouched == \A s \in CallScenes : Vouched(s)

-----------------------------------------------------------------------------
(* The scenes in which a documented promise is broken.                     *)

(* The older install holds a directory whose entries cannot be removed.    *)
StuckPart   == With(At(Append(Browser("c-1"), "c"), Guarded("r", Old)),
                    At(Browser("c-1") \o <<"c", "a">>, File(1, Old)))
StuckScenes == {Scene(disk, MCHome, ApplyTwice(Roots(<<"~">>))) :
                    disk \in AnyOf(With(Install("c-1", Old), Install("c-2", Old + 1)), {StuckPart})}

UndashedScenes == {Scene(disk, MCHome, ApplyTwice(<< >>)) :
                       disk \in AnyOf(Install("c", Old), {Install("c-1", Old + 1)})}

(* The home of boundary, the scan root given as "." from the root.         *)
DotScenes == {Scene(disk, DeepHome, ApplyTwice(Roots(<<".">>))) : disk \in BoundaryDisks}

(* Build output in an OS cache.                                            *)
GoogleDisk   == Disk(At(H(<<"Library", "Caches", "Google", "node_modules", "a">>), File(1, Old)))
GoogleScenes == {Scene(GoogleDisk, MCHome, ApplyTwice(Roots(<<"~">>)))}

(* A VM disk that is a sparse file in a directory, not one by itself.      *)
SparseDisk   == Disk(With(At(H(<<".lima", "a">>), Sparse(1024, 256, Old)),
                          At(DockerRaw, Sparse(1024, 256, Old))))
SparseScenes == {Scene(SparseDisk, MCHome, DryThenApply(<<"--include-vm-disks">>))}
=============================================================================
