--------------------------- MODULE CachewipeProofs ---------------------------
(* Proofs about Cachewipe, for every catalog that is enabled, every disk   *)
(* and every sequence of calls.                                            *)
EXTENDS Cachewipe, CommandLineProofs

-----------------------------------------------------------------------------
(* The catalog: every location ends in a name, every versioned target      *)
(* keeps one install, and nothing that a search proves a build directory   *)
(* by is a target itself.                                                  *)
Manifests == {"Cargo.toml", "pom.xml", "build.gradle", "build.gradle.kts"}

Placed(p) == HasName(p) /\ Last(p) \notin Manifests

AllNamed(subs) == \A k \in DOMAIN subs : Placed(subs[k])

Sound(t) == /\ t.kind \in {"HomeDirs", "VersionedDirs", "NamedDirUnder", "External"}
            /\ AllNamed(t.subs)
            /\ t.kind = "VersionedDirs" => t.keep = 1
            /\ t.siblings \subseteq Manifests /\ t.name \notin Manifests

LEMMA EndsInName == ASSUME NEW s, Len(s) > 0, Last(s) \notin Special \cup Manifests PROVE Placed(s)
  BY NotEmpty DEF Placed, HasName

LEMMA Name1 == ASSUME NEW a, a \notin Special \cup Manifests PROVE Placed(<<a>>)
<1> DEFINE s == <<a>>
<1>1. Len(s) > 0 /\ Last(s) = a
  BY DEF Last
<1> HIDE DEF s
<1>2. Placed(s)
  BY <1>1, EndsInName
<1> QED
  BY <1>2 DEF s

LEMMA Name2 == ASSUME NEW a, NEW b, b \notin Special \cup Manifests PROVE Placed(<<a, b>>)
<1> DEFINE s == <<a, b>>
<1>1. Len(s) > 0 /\ Last(s) = b
  BY DEF Last
<1> HIDE DEF s
<1>2. Placed(s)
  BY <1>1, EndsInName
<1> QED
  BY <1>2 DEF s

LEMMA Name3 == ASSUME NEW a, NEW b, NEW c, c \notin Special \cup Manifests PROVE Placed(<<a, b, c>>)
<1> DEFINE s == <<a, b, c>>
<1>1. Len(s) > 0 /\ Last(s) = c
  BY DEF Last
<1> HIDE DEF s
<1>2. Placed(s)
  BY <1>1, EndsInName
<1> QED
  BY <1>2 DEF s

LEMMA Name4 == ASSUME NEW a, NEW b, NEW c, NEW d, d \notin Special \cup Manifests PROVE Placed(<<a, b, c, d>>)
<1> DEFINE s == <<a, b, c, d>>
<1>1. Len(s) > 0 /\ Last(s) = d
  BY DEF Last
<1> HIDE DEF s
<1>2. Placed(s)
  BY <1>1, EndsInName
<1> QED
  BY <1>2 DEF s

LEMMA Name5 == ASSUME NEW a, NEW b, NEW c, NEW d, NEW e, e \notin Special \cup Manifests PROVE Placed(<<a, b, c, d, e>>)
<1> DEFINE s == <<a, b, c, d, e>>
<1>1. Len(s) > 0 /\ Last(s) = e
  BY DEF Last
<1> HIDE DEF s
<1>2. Placed(s)
  BY <1>1, EndsInName
<1> QED
  BY <1>2 DEF s

LEMMA Name8 == ASSUME NEW a, NEW b, NEW c, NEW d, NEW e, NEW f, NEW g, NEW h, h \notin Special \cup Manifests PROVE Placed(<<a, b, c, d, e, f, g, h>>)
<1> DEFINE s == <<a, b, c, d, e, f, g, h>>
<1>1. Len(s) > 0 /\ Last(s) = h
  BY DEF Last
<1> HIDE DEF s
<1>2. Placed(s)
  BY <1>1, EndsInName
<1> QED
  BY <1>2 DEF s

LEMMA Named0 == AllNamed(<< >>)
<1> DEFINE s == << >>
<1>1. DOMAIN s = 1 .. 0
  OBVIOUS
<1> HIDE DEF s
<1>2. AllNamed(s)
  BY <1>1 DEF AllNamed
<1> QED
  BY <1>2 DEF s

LEMMA Named1 == ASSUME NEW a, Placed(a) PROVE AllNamed(<<a>>)
<1> DEFINE s == <<a>>
<1>1. DOMAIN s = 1 .. 1 /\ s[1] = a
  OBVIOUS
<1> HIDE DEF s
<1>2. AllNamed(s)
  BY <1>1 DEF AllNamed
<1> QED
  BY <1>2 DEF s

LEMMA Named2 == ASSUME NEW a, NEW b, Placed(a), Placed(b) PROVE AllNamed(<<a, b>>)
<1> DEFINE s == <<a, b>>
<1>1. DOMAIN s = 1 .. 2 /\ s[1] = a /\ s[2] = b
  OBVIOUS
<1> HIDE DEF s
<1>2. AllNamed(s)
  BY <1>1 DEF AllNamed
<1> QED
  BY <1>2 DEF s

LEMMA Named3 == ASSUME NEW a, NEW b, NEW c, Placed(a), Placed(b), Placed(c) PROVE AllNamed(<<a, b, c>>)
<1> DEFINE s == <<a, b, c>>
<1>1. DOMAIN s = 1 .. 3 /\ s[1] = a /\ s[2] = b /\ s[3] = c
  OBVIOUS
<1> HIDE DEF s
<1>2. AllNamed(s)
  BY <1>1 DEF AllNamed
<1> QED
  BY <1>2 DEF s

LEMMA SoundHomeDirs ==
    ASSUME NEW id, NEW tier, NEW subs, AllNamed(subs) PROVE Sound(HomeDirs(id, tier, subs))
  BY DEF Sound, HomeDirs, Manifests

LEMMA SoundVersionedDirs ==
    ASSUME NEW id, NEW subs, AllNamed(subs) PROVE Sound(VersionedDirs(id, subs, 1))
  BY DEF Sound, VersionedDirs, Manifests

LEMMA SoundNamedDirUnder ==
    ASSUME NEW id, NEW name, name \notin Manifests, NEW siblings \in SUBSET Manifests
    PROVE  Sound(NamedDirUnder(id, name, siblings))
  BY Named0 DEF Sound, NamedDirUnder

LEMMA SoundExternal == ASSUME NEW id, NEW tier PROVE Sound(External(id, tier))
  BY Named0 DEF Sound, External, Manifests

LEMMA SoundPackageCaches ==
    /\ Len(PackageCaches) = 10
    /\ \A i \in 1 .. 10 : Sound(PackageCaches[i])
<1>1. ASSUME NEW name, name \notin Special \cup Manifests PROVE Placed(Library(name))
  BY <1>1, Name3 DEF Library
<1>2. Sound(package_cache("uv", << <<".cache", "uv">>, Library("uv") >>))
  BY <1>1, Name2, Named2, SoundHomeDirs DEF Special, Manifests, package_cache
<1>3. Sound(package_cache("pip", << <<".cache", "pip">>, Library("pip") >>))
  BY <1>1, Name2, Named2, SoundHomeDirs DEF Special, Manifests, package_cache
<1>4. Sound(package_cache("npm", << <<".npm", "_cacache">> >>))
  BY Name2, Named1, SoundHomeDirs DEF Special, Manifests, package_cache
<1>5. Sound(package_cache("npx", << <<".npm", "_npx">> >>))
  BY Name2, Named1, SoundHomeDirs DEF Special, Manifests, package_cache
<1>6. Sound(package_cache("yarn", << <<".cache", "yarn">>, Library("Yarn") >>))
  BY <1>1, Name2, Named2, SoundHomeDirs DEF Special, Manifests, package_cache
<1>7. Sound(package_cache("pnpm", << <<".local", "share", "pnpm", "store">>, <<"Library", "pnpm", "store">> >>))
  BY Name3, Name4, Named2, SoundHomeDirs DEF Special, Manifests, package_cache
<1>8. Sound(package_cache("cargo-registry", << <<".cargo", "registry", "cache">> >>))
  BY Name3, Named1, SoundHomeDirs DEF Special, Manifests, package_cache
<1>9. Sound(package_cache("go-mod", << <<"go", "pkg", "mod", "cache", "download">> >>))
  BY Name5, Named1, SoundHomeDirs DEF Special, Manifests, package_cache
<1>10. Sound(package_cache("gradle", << <<".gradle", "caches">> >>))
  BY Name2, Named1, SoundHomeDirs DEF Special, Manifests, package_cache
<1>11. Sound(package_cache("huggingface", << <<".cache", "huggingface">> >>))
  BY Name2, Named1, SoundHomeDirs DEF Special, Manifests, package_cache
<1> QED
  BY <1>2, <1>3, <1>4, <1>5, <1>6, <1>7, <1>8, <1>9, <1>10, <1>11 DEF PackageCaches

LEMMA SoundToolInstalls ==
    /\ Len(ToolInstalls) = 2
    /\ \A i \in 1 .. 2 : Sound(ToolInstalls[i])
<1>1. ASSUME NEW name, name \notin Special \cup Manifests PROVE Placed(Library(name))
  BY <1>1, Name3 DEF Library
<1>2. Sound(VersionedDirs("puppeteer", << <<".cache", "puppeteer", "chrome">>, <<".cache", "puppeteer", "chrome-headless-shell">>, <<".cache", "puppeteer", "firefox">> >>, 1))
  BY Name3, Named3, SoundVersionedDirs DEF Special, Manifests
<1>3. Sound(VersionedDirs("playwright", << Library("ms-playwright"), <<".cache", "ms-playwright">> >>, 1))
  BY <1>1, Name2, Named2, SoundVersionedDirs DEF Special, Manifests
<1> QED
  BY <1>2, <1>3 DEF ToolInstalls

LEMMA SoundBuildArtifacts ==
    /\ Len(BuildArtifacts) = 5
    /\ \A i \in 1 .. 5 : Sound(BuildArtifacts[i])
  BY SoundNamedDirUnder DEF BuildArtifacts, Manifests

LEMMA SoundDelegated ==
    /\ Len(Delegated) = 2
    /\ \A i \in 1 .. 2 : Sound(Delegated[i])
  BY SoundExternal DEF Delegated

LEMMA SoundVmDisks ==
    /\ Len(VmDisks) = 5
    /\ \A i \in 1 .. 5 : Sound(VmDisks[i])
<1>1. Sound(vm_disk("docker-desktop-disk", <<"Library", "Containers", "com.docker.docker", "Data", "vms", "0", "data", "Docker.raw">>))
  BY Name8, Named1, SoundHomeDirs DEF Special, Manifests, vm_disk
<1>2. Sound(vm_disk("finch-disk", <<".finch", ".disks">>))
  BY Name2, Named1, SoundHomeDirs DEF Special, Manifests, vm_disk
<1>3. Sound(vm_disk("lima-disk", <<".lima">>))
  BY Name1, Named1, SoundHomeDirs DEF Special, Manifests, vm_disk
<1>4. Sound(vm_disk("colima-disk", <<".colima">>))
  BY Name1, Named1, SoundHomeDirs DEF Special, Manifests, vm_disk
<1>5. Sound(vm_disk("podman-disk", <<".local", "share", "containers", "podman">>))
  BY Name4, Named1, SoundHomeDirs DEF Special, Manifests, vm_disk
<1> QED
  BY <1>1, <1>2, <1>3, <1>4, <1>5 DEF VmDisks

LEMMA SoundOsCaches ==
    /\ Len(OsCaches) = 4
    /\ \A i \in 1 .. 4 : Sound(OsCaches[i])
<1>1. ASSUME NEW name, name \notin Special \cup Manifests PROVE Placed(Library(name))
  BY <1>1, Name3 DEF Library
<1>2. Sound(os_cache("spotify-cache", "com.spotify.client"))
  BY <1>1, Named1, SoundHomeDirs DEF Special, Manifests, os_cache
<1>3. Sound(os_cache("firefox-cache", "Firefox"))
  BY <1>1, Named1, SoundHomeDirs DEF Special, Manifests, os_cache
<1>4. Sound(os_cache("chrome-cache", "Google"))
  BY <1>1, Named1, SoundHomeDirs DEF Special, Manifests, os_cache
<1>5. Sound(os_cache("jsii-cache", "com.amazonaws.jsii"))
  BY <1>1, Named1, SoundHomeDirs DEF Special, Manifests, os_cache
<1> QED
  BY <1>2, <1>3, <1>4, <1>5 DEF OsCaches

-----------------------------------------------------------------------------
(* The catalog keeps the places of installs apart from all other targets,  *)
(* and from one another.                                                   *)
Parts(s, v) == \E i \in DOMAIN s \cap DOMAIN v : s[i] # v[i]

VersionPlaces == {<<".cache", "puppeteer", "chrome">>, <<".cache", "puppeteer", "chrome-headless-shell">>,
                  <<".cache", "puppeteer", "firefox">>, <<"Library", "Caches", "ms-playwright">>,
                  <<".cache", "ms-playwright">>}

Aside(t) ==
    /\ t.kind = "HomeDirs" => \A k \in DOMAIN t.subs : \A v \in VersionPlaces : Parts(t.subs[k], v)
    /\ t.kind = "VersionedDirs" => /\ t.tier = "package-cache"
                                   /\ \A k \in DOMAIN t.subs : t.subs[k] \in VersionPlaces
    /\ t.kind = "NamedDirUnder" => \A v \in VersionPlaces : \A i \in DOMAIN v : v[i] # t.name

LEMMA PartsFirst ==
    ASSUME NEW s, 1 \in DOMAIN s, s[1] \notin {".cache", "Library"}
    PROVE  \A v \in VersionPlaces : Parts(s, v)
<1>1. \A v \in VersionPlaces : 1 \in DOMAIN v /\ v[1] \in {".cache", "Library"}
  BY DEF VersionPlaces
<1> QED
  BY <1>1 DEF Parts

LEMMA PartsSecond ==
    ASSUME NEW s, 2 \in DOMAIN s, s[2] \notin {"puppeteer", "ms-playwright", "Caches"}
    PROVE  \A v \in VersionPlaces : Parts(s, v)
<1>1. \A v \in VersionPlaces : 2 \in DOMAIN v /\ v[2] \in {"puppeteer", "ms-playwright", "Caches"}
  BY DEF VersionPlaces
<1> QED
  BY <1>1 DEF Parts

LEMMA PartsThird ==
    ASSUME NEW name, name # "ms-playwright"
    PROVE  \A v \in VersionPlaces : Parts(Library(name), v)
<1> DEFINE s == <<"Library", "Caches", name>>
<1>1. 1 \in DOMAIN s /\ 3 \in DOMAIN s /\ s[1] = "Library" /\ s[3] = name
  OBVIOUS
<1>2. \A v \in VersionPlaces : 1 \in DOMAIN v /\ (v[1] # "Library" \/ (3 \in DOMAIN v /\ v[3] = "ms-playwright"))
  BY DEF VersionPlaces
<1> HIDE DEF s
<1>3. Library(name) = s
  BY DEF Library, s
<1> QED
  BY <1>1, <1>2, <1>3 DEF Parts

LEMMA AsideHome1 ==
    ASSUME NEW id, NEW tier, NEW a, \A v \in VersionPlaces : Parts(a, v)
    PROVE  Aside(HomeDirs(id, tier, <<a>>))
  BY DEF Aside, HomeDirs

LEMMA AsideHome2 ==
    ASSUME NEW id, NEW tier, NEW a, NEW b,
           \A v \in VersionPlaces : Parts(a, v) /\ Parts(b, v)
    PROVE  Aside(HomeDirs(id, tier, <<a, b>>))
  BY DEF Aside, HomeDirs

LEMMA AsideFirst ==
    ASSUME NEW id, NEW tier, NEW a, 1 \in DOMAIN a, a[1] \notin {".cache", "Library"}
    PROVE  Aside(HomeDirs(id, tier, <<a>>))
  BY PartsFirst, AsideHome1

LEMMA AsideSecond ==
    ASSUME NEW id, NEW tier, NEW a, 2 \in DOMAIN a,
           a[2] \notin {"puppeteer", "ms-playwright", "Caches"}
    PROVE  Aside(HomeDirs(id, tier, <<a>>))
  BY PartsSecond, AsideHome1

LEMMA AsidePackageCaches == \A i \in 1 .. 10 : Aside(PackageCaches[i])
<1>1. Aside(package_cache("uv", << <<".cache", "uv">>, Library("uv") >>))
  BY PartsSecond, PartsThird, AsideHome2 DEF package_cache
<1>2. Aside(package_cache("pip", << <<".cache", "pip">>, Library("pip") >>))
  BY PartsSecond, PartsThird, AsideHome2 DEF package_cache
<1>3. Aside(package_cache("npm", << <<".npm", "_cacache">> >>))
  BY AsideFirst DEF package_cache
<1>4. Aside(package_cache("npx", << <<".npm", "_npx">> >>))
  BY AsideFirst DEF package_cache
<1>5. Aside(package_cache("yarn", << <<".cache", "yarn">>, Library("Yarn") >>))
  BY PartsSecond, PartsThird, AsideHome2 DEF package_cache
<1>6. Aside(package_cache("pnpm", << <<".local", "share", "pnpm", "store">>, <<"Library", "pnpm", "store">> >>))
  BY PartsFirst, PartsSecond, AsideHome2 DEF package_cache
<1>7. Aside(package_cache("cargo-registry", << <<".cargo", "registry", "cache">> >>))
  BY AsideFirst DEF package_cache
<1>8. Aside(package_cache("go-mod", << <<"go", "pkg", "mod", "cache", "download">> >>))
  BY AsideFirst DEF package_cache
<1>9. Aside(package_cache("gradle", << <<".gradle", "caches">> >>))
  BY AsideFirst DEF package_cache
<1>10. Aside(package_cache("huggingface", << <<".cache", "huggingface">> >>))
  BY AsideSecond DEF package_cache
<1> QED
  BY <1>1, <1>2, <1>3, <1>4, <1>5, <1>6, <1>7, <1>8, <1>9, <1>10 DEF PackageCaches

LEMMA AsideToolInstalls == \A i \in 1 .. 2 : Aside(ToolInstalls[i])
<1>1. ASSUME NEW id, NEW subs, \A k \in DOMAIN subs : subs[k] \in VersionPlaces
      PROVE  Aside(VersionedDirs(id, subs, 1))
  BY <1>1 DEF Aside, VersionedDirs
<1>2. Aside(VersionedDirs("puppeteer", << <<".cache", "puppeteer", "chrome">>, <<".cache", "puppeteer", "chrome-headless-shell">>, <<".cache", "puppeteer", "firefox">> >>, 1))
  BY <1>1 DEF VersionPlaces
<1>3. Aside(VersionedDirs("playwright", << Library("ms-playwright"), <<".cache", "ms-playwright">> >>, 1))
  BY <1>1 DEF VersionPlaces, Library
<1> QED
  BY <1>2, <1>3 DEF ToolInstalls

LEMMA AsideBuildArtifacts == \A i \in 1 .. 5 : Aside(BuildArtifacts[i])
<1>1. ASSUME NEW id, NEW siblings, NEW name \in {"node_modules", ".venv", ".next", "target", "__pycache__"}
      PROVE  Aside(NamedDirUnder(id, name, siblings))
  <2>1. \A v \in VersionPlaces : \A i \in DOMAIN v : v[i] # name
    BY DEF VersionPlaces
  <2> QED
    BY <2>1 DEF Aside, NamedDirUnder
<1> QED
  BY <1>1 DEF BuildArtifacts

LEMMA AsideDelegated == \A i \in 1 .. 2 : Aside(Delegated[i])
<1>1. ASSUME NEW id, NEW tier PROVE Aside(External(id, tier))
  BY DEF Aside, External
<1> QED
  BY <1>1 DEF Delegated

LEMMA AsideVmDisks == \A i \in 1 .. 5 : Aside(VmDisks[i])
<1>1. Aside(vm_disk("docker-desktop-disk", <<"Library", "Containers", "com.docker.docker", "Data", "vms", "0", "data", "Docker.raw">>))
  BY AsideSecond DEF vm_disk
<1>2. Aside(vm_disk("finch-disk", <<".finch", ".disks">>))
  BY AsideFirst DEF vm_disk
<1>3. Aside(vm_disk("lima-disk", <<".lima">>))
  BY AsideFirst DEF vm_disk
<1>4. Aside(vm_disk("colima-disk", <<".colima">>))
  BY AsideFirst DEF vm_disk
<1>5. Aside(vm_disk("podman-disk", <<".local", "share", "containers", "podman">>))
  BY AsideFirst DEF vm_disk
<1> QED
  BY <1>1, <1>2, <1>3, <1>4, <1>5 DEF VmDisks

LEMMA AsideOsCaches == \A i \in 1 .. 4 : Aside(OsCaches[i])
  BY PartsThird, AsideHome1 DEF OsCaches, os_cache

LEMMA PlacesApart == \A v, w \in VersionPlaces : v = w \/ Parts(v, w)
<1>1. \A v \in VersionPlaces : 1 \in DOMAIN v /\ 2 \in DOMAIN v
  BY DEF VersionPlaces
<1> QED
  BY <1>1 DEF Parts, VersionPlaces

-----------------------------------------------------------------------------
SoundList(list) ==
    \E S : list \in Seq(S) /\ \A i \in 1 .. Len(list) : Sound(list[i]) /\ Aside(list[i])

LEMMA SoundConcat ==
    ASSUME NEW a, NEW b, SoundList(a), SoundList(b) PROVE SoundList(a \o b)
<1>1. PICK A : a \in Seq(A) /\ \A i \in 1 .. Len(a) : Sound(a[i]) /\ Aside(a[i])
  BY DEF SoundList
<1>2. PICK B : b \in Seq(B) /\ \A i \in 1 .. Len(b) : Sound(b[i]) /\ Aside(b[i])
  BY DEF SoundList
<1> DEFINE S == A \cup B
<1>3. a \in Seq(S) /\ b \in Seq(S) /\ Len(a) \in Nat /\ Len(b) \in Nat
  BY <1>1, <1>2
<1> HIDE DEF S
<1> DEFINE c == a \o b
<1>4. /\ c \in Seq(S) /\ Len(c) = Len(a) + Len(b)
      /\ \A i \in 1 .. Len(a) + Len(b) : c[i] = IF i <= Len(a) THEN a[i] ELSE b[i - Len(a)]
  BY <1>3, ConcatProperties
<1> HIDE DEF c
<1>5. ASSUME NEW i \in 1 .. Len(c) PROVE Sound(c[i]) /\ Aside(c[i])
  <2>1. CASE i <= Len(a)
    BY <1>1, <1>3, <1>4, <2>1
  <2>2. CASE ~(i <= Len(a))
    <3>1. i - Len(a) \in 1 .. Len(b) /\ c[i] = b[i - Len(a)]
      BY <1>3, <1>4, <2>2
    <3> QED
      BY <1>2, <3>1
  <2> QED
    BY <2>1, <2>2
<1> QED
  BY <1>4, <1>5 DEF SoundList, c

LEMMA AllSound == SoundList(AllTargets)
<1>1. SoundList(PackageCaches)
  <2> DEFINE S == {PackageCaches[i] : i \in 1 .. 10}
  <2>1. PackageCaches \in Seq(S)
    BY DEF PackageCaches
  <2> QED
    BY <2>1, SoundPackageCaches, AsidePackageCaches DEF SoundList
<1>2. SoundList(ToolInstalls)
  <2> DEFINE S == {ToolInstalls[i] : i \in 1 .. 2}
  <2>1. ToolInstalls \in Seq(S)
    BY DEF ToolInstalls
  <2> QED
    BY <2>1, SoundToolInstalls, AsideToolInstalls DEF SoundList
<1>3. SoundList(BuildArtifacts)
  <2> DEFINE S == {BuildArtifacts[i] : i \in 1 .. 5}
  <2>1. BuildArtifacts \in Seq(S)
    BY DEF BuildArtifacts
  <2> QED
    BY <2>1, SoundBuildArtifacts, AsideBuildArtifacts DEF SoundList
<1>4. SoundList(Delegated)
  <2> DEFINE S == {Delegated[i] : i \in 1 .. 2}
  <2>1. Delegated \in Seq(S)
    BY DEF Delegated
  <2> QED
    BY <2>1, SoundDelegated, AsideDelegated DEF SoundList
<1>5. SoundList(VmDisks)
  <2> DEFINE S == {VmDisks[i] : i \in 1 .. 5}
  <2>1. VmDisks \in Seq(S)
    BY DEF VmDisks
  <2> QED
    BY <2>1, SoundVmDisks, AsideVmDisks DEF SoundList
<1>6. SoundList(OsCaches)
  <2> DEFINE S == {OsCaches[i] : i \in 1 .. 4}
  <2>1. OsCaches \in Seq(S)
    BY DEF OsCaches
  <2> QED
    BY <2>1, SoundOsCaches, AsideOsCaches DEF SoundList
<1> QED
  BY <1>1, <1>2, <1>3, <1>4, <1>5, <1>6, SoundConcat DEF AllTargets

LEMMA CatalogIs ==
    /\ IsFiniteSet(DOMAIN catalog) /\ DOMAIN catalog \subseteq Nat
    /\ \A idx \in DOMAIN catalog :
           /\ Sound(catalog[idx]) /\ Aside(catalog[idx])
           /\ catalog[idx].subs \in Seq(Path)
           /\ catalog[idx].siblings \subseteq Component \ Special
<1>1. PICK S : AllTargets \in Seq(S) /\ \A i \in 1 .. Len(AllTargets) : Sound(AllTargets[i]) /\ Aside(AllTargets[i])
  BY AllSound DEF SoundList
<1>2. Len(AllTargets) \in Nat /\ DOMAIN AllTargets = 1 .. Len(AllTargets)
  BY <1>1
<1>3. /\ DOMAIN catalog \subseteq 1 .. Len(AllTargets)
      /\ \A idx \in DOMAIN catalog : catalog[idx] = AllTargets[idx]
  BY <1>2 DEF catalog, Restrict
<1>4. IsFiniteSet(1 .. Len(AllTargets))
  BY <1>2, FS_Interval
<1>5. IsFiniteSet(DOMAIN catalog)
  BY <1>3, <1>4, FS_Subset
<1> QED
  BY <1>1, <1>2, <1>3, <1>5, CatalogAssumption
-----------------------------------------------------------------------------
(* Phase 2: sorting, and dropping what is nested.                          *)
Sortable(found) ==
    /\ IsFiniteSet(found)
    /\ \A c \in found : c.path \in Path /\ c.target_idx \in Nat /\ c.turn \in Nat
    /\ \A c, d \in found :
           c.path = d.path /\ c.target_idx = d.target_idx /\ c.turn = d.turn => c = d

LEMMA SortsTotally ==
    ASSUME NEW found, Sortable(found)
    PROVE  /\ \A c \in found : ~SortsBefore(c, c)
           /\ \A c, d \in found : c # d => SortsBefore(c, d) \/ SortsBefore(d, c)
           /\ \A c, d, e \in found : SortsBefore(c, d) /\ SortsBefore(d, e) => SortsBefore(c, e)
<1>1. ASSUME NEW c \in found PROVE c.path \in Path /\ c.target_idx \in Nat /\ c.turn \in Nat
  BY DEF Sortable
<1>2. ASSUME NEW c \in found, NEW d \in found
      PROVE  Precedes(c.path, d.path) <=> Less(c.path, d.path)
  BY <1>1, PrecedesIsLess
<1>3. ASSUME NEW c \in found PROVE ~SortsBefore(c, c)
  BY <1>1, <1>2, LessIrreflexive DEF SortsBefore
<1>4. ASSUME NEW c \in found, NEW d \in found, c # d PROVE SortsBefore(c, d) \/ SortsBefore(d, c)
  <2>1. c.path # d.path \/ c.target_idx # d.target_idx \/ c.turn # d.turn
    BY <1>4 DEF Sortable
  <2>2. CASE c.path # d.path
    BY <1>1, <1>2, <2>2, LessTotal DEF SortsBefore
  <2>3. CASE c.path = d.path
    BY <1>1, <2>1, <2>3 DEF SortsBefore
  <2> QED
    BY <2>2, <2>3
<1>5. ASSUME NEW c \in found, NEW d \in found, NEW e \in found, SortsBefore(c, d), SortsBefore(d, e)
      PROVE  SortsBefore(c, e)
  <2>1. Less(c.path, d.path) /\ Less(d.path, e.path) => Less(c.path, e.path)
    BY <1>1, LessTransitive
  <2> QED
    BY <1>1, <1>2, <1>5, <2>1 DEF SortsBefore
<1> QED
  BY <1>3, <1>4, <1>5

(* The candidates that come before one.                                    *)
Ahead(found, c) == {d \in found : SortsBefore(d, c)}

LEMMA AheadGrows ==
    ASSUME NEW found, Sortable(found), NEW c \in found, NEW d \in found, SortsBefore(c, d)
    PROVE  /\ Cardinality(Ahead(found, c)) \in Nat /\ Cardinality(Ahead(found, d)) \in Nat
           /\ Cardinality(Ahead(found, c)) < Cardinality(Ahead(found, d))
<1>1. IsFiniteSet(found)
  BY DEF Sortable
<1>2. Ahead(found, c) \subseteq found /\ Ahead(found, d) \subseteq found
  BY DEF Ahead
<1>3. IsFiniteSet(Ahead(found, c)) /\ IsFiniteSet(Ahead(found, d))
  BY <1>1, <1>2, FS_Subset
<1>4. Ahead(found, c) \subseteq Ahead(found, d)
  BY SortsTotally DEF Ahead
<1>5. c \in Ahead(found, d) /\ c \notin Ahead(found, c)
  BY SortsTotally DEF Ahead
<1>6. Cardinality(Ahead(found, c)) <= Cardinality(Ahead(found, d))
  BY <1>3, <1>4, FS_Subset
<1>7. Cardinality(Ahead(found, c)) # Cardinality(Ahead(found, d))
  BY <1>3, <1>4, <1>5, FS_Subset
<1>8. Cardinality(Ahead(found, c)) \in Nat /\ Cardinality(Ahead(found, d)) \in Nat
  BY <1>3, FS_CardinalityType
<1> QED
  BY <1>6, <1>7, <1>8

LEMMA NthIs ==
    ASSUME NEW found, Sortable(found), NEW i \in 1 .. Cardinality(found)
    PROVE  Nth(found, i) \in found /\ Cardinality(Ahead(found, Nth(found, i))) = i - 1
<1> DEFINE n   == Cardinality(found)
           R   == 0 .. n - 1
           pos == [c \in found |-> Cardinality(Ahead(found, c))]
<1>1. IsFiniteSet(found) /\ n \in Nat
  BY FS_CardinalityType DEF Sortable
<1>2. ASSUME NEW c \in found PROVE Cardinality(Ahead(found, c)) \in R
  <2>1. Ahead(found, c) \subseteq found /\ c \notin Ahead(found, c)
    BY SortsTotally DEF Ahead
  <2>2. Ahead(found, c) \subseteq found \ {c}
    BY <2>1
  <2>3. IsFiniteSet(found \ {c}) /\ Cardinality(found \ {c}) = n - 1
    BY <1>1, FS_RemoveElement
  <2>4. IsFiniteSet(Ahead(found, c)) /\ Cardinality(Ahead(found, c)) <= n - 1
    BY <2>2, <2>3, FS_Subset
  <2>5. Cardinality(Ahead(found, c)) \in Nat
    BY <2>4, FS_CardinalityType
  <2> QED
    BY <1>1, <2>4, <2>5
<1>3. ASSUME NEW c \in found, NEW d \in found, c # d
      PROVE  Cardinality(Ahead(found, c)) # Cardinality(Ahead(found, d))
  <2>1. SortsBefore(c, d) \/ SortsBefore(d, c)
    BY <1>3, SortsTotally
  <2> QED
    BY <2>1, AheadGrows
<1>4. pos \in [found -> R] /\ \A c \in found : pos[c] = Cardinality(Ahead(found, c))
  BY <1>2
<1> HIDE DEF pos
<1>5. pos \in Injection(found, R)
  <2>1. \A c, d \in found : pos[c] = pos[d] => c = d
    BY <1>3, <1>4
  <2> QED
    BY <1>4, <2>1 DEF Injection, IsInjective
<1>6. IsFiniteSet(R) /\ Cardinality(R) = n
  <2>1. 0 \in Int /\ n - 1 \in Int
    BY <1>1
  <2>2. IsFiniteSet(R) /\ Cardinality(R) = IF 0 > n - 1 THEN 0 ELSE n - 1 - 0 + 1
    BY <2>1, FS_Interval
  <2> QED
    BY <1>1, <2>2
<1> HIDE DEF R, n
<1>7. pos \in Surjection(found, R)
  BY <1>5, <1>6, FS_Injection DEF n
<1>8. i - 1 \in R
  BY <1>1 DEF R, n
<1>9. \E c \in found : pos[c] = i - 1
  BY <1>7, <1>8 DEF Surjection
<1>10. \E c \in found : Cardinality({d \in found : SortsBefore(d, c)}) = i - 1
  BY <1>4, <1>9 DEF Ahead
<1>11. Nth(found, i) \in found /\ Cardinality({d \in found : SortsBefore(d, Nth(found, i))}) = i - 1
  BY <1>10 DEF Nth
<1> QED
  BY <1>11 DEF Ahead

LEMMA NthOf ==
    ASSUME NEW found, Sortable(found), NEW c \in found
    PROVE  \E i \in 1 .. Cardinality(found) : Nth(found, i) = c
<1> DEFINE n == Cardinality(found)
           m == Cardinality(Ahead(found, c))
<1>1. IsFiniteSet(found) /\ n \in Nat
  BY FS_CardinalityType DEF Sortable
<1>2. Ahead(found, c) \subseteq found \ {c}
  BY SortsTotally DEF Ahead
<1>3. IsFiniteSet(found \ {c}) /\ Cardinality(found \ {c}) = n - 1
  BY <1>1, FS_RemoveElement
<1>4. m \in Nat /\ m <= n - 1
  <2>1. IsFiniteSet(Ahead(found, c)) /\ Cardinality(Ahead(found, c)) <= Cardinality(found \ {c})
    BY <1>2, <1>3, FS_Subset
  <2> QED
    BY <1>3, <2>1, FS_CardinalityType
<1> HIDE DEF n
<1>5. \E i \in 1 .. n : i - 1 = m
  BY <1>1, <1>4
<1>6. PICK i \in 1 .. n : i - 1 = m
  BY <1>5
<1> DEFINE d == Nth(found, i)
<1> HIDE DEF m
<1>8. d \in found /\ Cardinality(Ahead(found, d)) = m
  BY <1>6, NthIs DEF n
<1> HIDE DEF d
<1>7. ASSUME d # c PROVE FALSE
  <2>1. SortsBefore(c, d) \/ SortsBefore(d, c)
    BY <1>8, <1>7, SortsTotally
  <2>2. Cardinality(Ahead(found, c)) < Cardinality(Ahead(found, d))
        \/ Cardinality(Ahead(found, d)) < Cardinality(Ahead(found, c))
    BY <1>8, <2>1, AheadGrows
  <2> QED
    BY <1>4, <1>8, <2>2 DEF m
<1> QED
  BY <1>6, <1>7 DEF d, n

LEMMA NthSorted ==
    ASSUME NEW found, Sortable(found), NEW i \in 1 .. Cardinality(found),
           NEW j \in 1 .. Cardinality(found), i < j
    PROVE  SortsBefore(Nth(found, i), Nth(found, j))
<1> DEFINE a == Nth(found, i)
           b == Nth(found, j)
<1>1. a \in found /\ Cardinality(Ahead(found, a)) = i - 1
  BY NthIs
<1>2. b \in found /\ Cardinality(Ahead(found, b)) = j - 1
  BY NthIs
<1>3. i - 1 < j - 1 /\ i - 1 # j - 1
  <2>1. Cardinality(found) \in Nat
    BY FS_CardinalityType DEF Sortable
  <2> QED
    BY <2>1
<1> HIDE DEF a, b
<1>4. a # b
  BY <1>1, <1>2, <1>3
<1>5. SortsBefore(b, a) => j - 1 < i - 1
  BY <1>1, <1>2, AheadGrows
<1>6. ~SortsBefore(b, a)
  <2>1. Cardinality(found) \in Nat
    BY FS_CardinalityType DEF Sortable
  <2> QED
    BY <1>3, <1>5, <2>1
<1>7. SortsBefore(a, b)
  BY <1>1, <1>2, <1>4, <1>6, SortsTotally
<1> QED
  BY <1>7 DEF a, b
(* What dedupe_nested keeps: in order, none inside an earlier one, and one *)
(* around each that it has seen, which does not come after it.             *)
Outer(found, list, m) ==
    /\ list \in Seq(found)
    /\ \A l \in 1 .. m : \E i \in 1 .. Len(list) :
           StartsWith(Nth(found, l).path, list[i].path) /\ ~SortsBefore(Nth(found, l), list[i])
    /\ \A i \in 1 .. Len(list) : \E l \in 1 .. m : list[i] = Nth(found, l)
    /\ \A i \in 1 .. Len(list) : \A j \in 1 .. i - 1 :
           /\ ~StartsWith(list[i].path, list[j].path)
           /\ SortsBefore(list[j], list[i])

LEMMA AdmitKeeps ==
    ASSUME NEW found, Sortable(found), NEW m \in Nat, NEW h \in 1 .. Cardinality(found), h = m + 1,
           NEW s, Outer(found, s, m)
    PROVE  Outer(found, Admit(s, Nth(found, h)), h)
<1> DEFINE c == Nth(found, h)
           n == Len(s)
<1>1. Cardinality(found) \in Nat /\ n \in Nat /\ s \in Seq(found)
  BY FS_CardinalityType DEF Sortable, Outer
<1>2. c \in found
  BY NthIs
<1>3. \A l : l \in 1 .. m => l \in 1 .. h /\ l \in 1 .. Cardinality(found) /\ l < h
  BY <1>1
<1>4. h \in 1 .. h
  BY <1>1
<1>5. ASSUME NEW j \in 1 .. n PROVE s[j] \in found /\ SortsBefore(s[j], c)
  <2>1. PICK l \in 1 .. m : s[j] = Nth(found, l)
    BY DEF Outer
  <2>2. SortsBefore(Nth(found, l), Nth(found, h))
    BY <1>3, NthSorted
  <2> QED
    BY <1>1, <2>1, <2>2
<1>8. \A l \in 1 .. h : l \in 1 .. m \/ Nth(found, l) = c
  BY <1>1
<1>9. StartsWith(c.path, c.path) /\ ~SortsBefore(c, c)
  <2>1. c.path \in Path
    BY <1>2 DEF Sortable
  <2>2. ~SortsBefore(c, c)
    BY <1>2, SortsTotally
  <2> QED
    BY <2>1, <2>2, Prefix DEF AgreeTo, Path
<1> HIDE DEF c
<1>10. \A j \in 1 .. n : ~SortsBefore(c, s[j])
  BY <1>2, <1>5, SortsTotally
<1>6. CASE Nested(c, s)
  <2>1. Admit(s, c) = s
    BY <1>6 DEF Admit
  <2>2. \A i \in 1 .. n : \E l \in 1 .. h : s[i] = Nth(found, l)
    BY <1>3 DEF Outer
  <2>4. \E j \in 1 .. n : StartsWith(c.path, s[j].path) /\ ~SortsBefore(c, s[j])
    <3>1. s # << >> => n \in 1 .. n /\ Last(s) = s[n]
      BY <1>1 DEF Last
    <3>2. DOMAIN s = 1 .. n
      BY <1>1
    <3> QED
      BY <1>6, <1>10, <3>1, <3>2 DEF Nested
  <2>5. \A l \in 1 .. h : \E j \in 1 .. n :
            StartsWith(Nth(found, l).path, s[j].path) /\ ~SortsBefore(Nth(found, l), s[j])
    BY <1>8, <2>4 DEF Outer
  <2>3. Outer(found, s, h)
    BY <2>2, <2>5 DEF Outer
  <2> QED
    BY <2>1, <2>3 DEF c
<1>7. CASE ~Nested(c, s)
  <2>1. Admit(s, c) = Append(s, c)
    BY <1>7 DEF Admit
  <2>2. ASSUME NEW j \in 1 .. n PROVE ~StartsWith(c.path, s[j].path)
    <3>1. s[n] \in found /\ n \in 1 .. n /\ s # << >> /\ Last(s) = s[n]
      BY <1>1 DEF Last
    <3>2. c.path \in Path /\ s[j].path \in Path /\ s[n].path \in Path
      BY <1>2, <1>5, <3>1 DEF Sortable
    <3>3. ~StartsWith(c.path, s[n].path)
      BY <1>7, <3>1 DEF Nested
    <3>4. c.path = s[j].path \/ ~StartsWith(c.path, s[j].path)
      BY <1>1, <1>7, <3>1 DEF Nested
    <3>5. c.path # s[n].path
      <4>1. StartsWith(c.path, c.path)
        BY <3>2, Prefix DEF AgreeTo, Path
      <4> QED
        BY <3>3, <4>1
    <3>6. ASSUME c.path = s[j].path PROVE FALSE
      <4>1. j # n
        BY <3>5, <3>6
      <4>2. SortsBefore(s[j], s[n])
        BY <1>1, <4>1 DEF Outer
      <4>3. SortsBefore(s[n], c)
        BY <1>5, <3>1
      <4>4. Less(c.path, s[n].path)
        BY <3>2, <3>5, <3>6, <4>2, PrecedesIsLess DEF SortsBefore
      <4>5. Less(s[n].path, c.path)
        BY <3>2, <3>5, <4>3, PrecedesIsLess DEF SortsBefore
      <4> QED
        BY <3>2, <4>4, <4>5, LessTransitive, LessIrreflexive
    <3> QED
      BY <3>4, <3>6
  <2> DEFINE t == Append(s, c)
  <2>3. /\ t \in Seq(found) /\ Len(t) = n + 1 /\ t[n + 1] = c
        /\ \A i \in 1 .. n : t[i] = s[i]
    BY <1>1, <1>2
  <2> HIDE DEF t
  <2>4. ASSUME NEW i \in 1 .. Len(t) PROVE \E l \in 1 .. h : t[i] = Nth(found, l)
    <3>1. CASE i = n + 1
      BY <1>4, <2>3, <3>1 DEF c
    <3>2. CASE i # n + 1
      <4>1. i \in 1 .. n /\ t[i] = s[i]
        BY <1>1, <2>3, <3>2
      <4> QED
        BY <1>3, <4>1 DEF Outer
    <3> QED
      BY <3>1, <3>2
  <2>5. ASSUME NEW i \in 1 .. Len(t), NEW j \in 1 .. i - 1
        PROVE  ~StartsWith(t[i].path, t[j].path) /\ SortsBefore(t[j], t[i])
    <3>1. j \in 1 .. n /\ t[j] = s[j]
      BY <1>1, <2>3
    <3>2. CASE i = n + 1
      BY <1>5, <2>2, <2>3, <3>1, <3>2
    <3>3. CASE i # n + 1
      <4>1. i \in 1 .. n /\ t[i] = s[i]
        BY <1>1, <2>3, <3>3
      <4> QED
        BY <3>1, <4>1 DEF Outer
    <3> QED
      BY <3>2, <3>3
  <2>7. \A j \in 1 .. n : j \in 1 .. Len(t)
    BY <1>1, <2>3
  <2>8. n + 1 \in 1 .. Len(t)
    BY <1>1, <2>3
  <2>9. \A l \in 1 .. h : \E j \in 1 .. Len(t) :
            StartsWith(Nth(found, l).path, t[j].path) /\ ~SortsBefore(Nth(found, l), t[j])
    BY <1>8, <1>9, <2>3, <2>7, <2>8 DEF Outer
  <2>6. Outer(found, t, h)
    BY <2>3, <2>4, <2>5, <2>9 DEF Outer
  <2> QED
    BY <2>1, <2>6 DEF c, t
<1> QED
  BY <1>6, <1>7

LEMMA DedupeKeeps ==
    ASSUME NEW found, Sortable(found)
    PROVE  Outer(found, dedupe_nested(found), Cardinality(found))
<1> DEFINE n == Cardinality(found)
           S == Seq(found)
           b == << >>
           D == [i \in 1 .. n |-> [s \in S |-> Admit(s, Nth(found, i))]]
<1>1. n \in Nat
  BY FS_CardinalityType DEF Sortable
<1>2. b \in S
  OBVIOUS
<1>3. ASSUME NEW i \in 1 .. n, NEW s \in S PROVE Admit(s, Nth(found, i)) \in S
  BY NthIs, AppendType DEF Admit
<1>4. D \in [1 .. n -> [S -> S]] /\ \A i \in 1 .. n : \A s \in S : D[i][s] = Admit(s, Nth(found, i))
  BY <1>3
<1> HIDE DEF D, n, S, b
<1>5. Iterated(n, S, b, D)
  BY <1>1, <1>2, <1>4, Recursion
<1>6. PICK f \in [0 .. n -> S] : f[0] = b /\ \A i \in 1 .. n : f[i] = D[i][f[i - 1]]
  BY <1>5 DEF Iterated
<1>7. \A i \in 1 .. n : f[i] = Admit(f[i - 1], Nth(found, i))
  <2>1. \A i \in 1 .. n : f[i - 1] \in S
    BY <1>1
  <2> QED
    BY <1>4, <1>6, <2>1
<1> DEFINE E(g) == [i \in 0 .. n |-> IF i = 0 THEN b ELSE Admit(g[i - 1], Nth(found, i))]
           at   == CHOOSE g : g = E(g)
<1>8. f = E(f)
  BY <1>1, <1>6, <1>7
<1>9. at = E(at)
  <2> HIDE DEF E
  <2> QED
    BY <1>8
<1>10. dedupe_nested(found) = at[n]
  BY DEF dedupe_nested, n, b
<1> HIDE DEF at
<1>11. /\ DOMAIN at = 0 .. n
       /\ \A i \in 0 .. n : at[i] = IF i = 0 THEN b ELSE Admit(at[i - 1], Nth(found, i))
  BY <1>9
<1>12. at[0] = b /\ \A i \in 1 .. n : at[i] = Admit(at[i - 1], Nth(found, i))
  BY <1>1, <1>11
<1>13. at = [i \in 0 .. n |-> at[i]]
  BY <1>9, <1>11
<1> HIDE DEF E
<1>14. ASSUME NEW m \in Nat, m < n PROVE at[m + 1] = Admit(at[m], Nth(found, m + 1))
  BY <1>1, <1>12, <1>14
<1> DEFINE A == {m \in Nat : m <= n => Outer(found, at[m], m)}
<1>15. 0 \in A
  <2>1. Len(b) = 0 /\ b \in Seq(found)
    BY DEF b
  <2>2. \A i : i \notin 1 .. 0
    OBVIOUS
  <2>3. Outer(found, b, 0)
    BY <2>1, <2>2 DEF Outer
  <2> QED
    BY <1>12, <2>3
<1>16. ASSUME NEW m \in Nat, m \in A PROVE m + 1 \in A
  <2> SUFFICES ASSUME m + 1 <= n PROVE Outer(found, at[m + 1], m + 1)
    OBVIOUS
  <2> DEFINE h == m + 1
  <2>1. m < n /\ m <= n /\ h \in 1 .. n /\ h = m + 1
    BY <1>1
  <2>2. Outer(found, at[m], m)
    BY <1>16, <2>1
  <2>3. at[h] = Admit(at[m], Nth(found, h))
    BY <1>14, <2>1
  <2> HIDE DEF h
  <2>4. Outer(found, Admit(at[m], Nth(found, h)), h)
    BY <2>1, <2>2, AdmitKeeps DEF n
  <2> QED
    BY <2>3, <2>4 DEF h
<1> HIDE DEF A
<1>17. n \in A
  BY <1>1, <1>15, <1>16, NatInduct
<1>18. Outer(found, at[n], n)
  BY <1>1, <1>17 DEF A
<1> QED
  BY <1>10, <1>18 DEF n
-----------------------------------------------------------------------------
(* Phase 1: what a candidate is, told target by target.                    *)
LEMMA ImageFinite ==
    ASSUME NEW S, IsFiniteSet(S), NEW f PROVE IsFiniteSet({f[x] : x \in S})
<1> DEFINE T == {f[x] : x \in S}
           g == [x \in S |-> f[x]]
<1>1. g \in Surjection(S, T)
  BY DEF Surjection
<1> HIDE DEF g, T
<1>2. IsFiniteSet(T)
  BY <1>1, FS_Surjection
<1> QED
  BY <1>2 DEF T

LEMMA UnionFinite ==
    ASSUME NEW S, IsFiniteSet(S), NEW f, \A x \in S : IsFiniteSet(f[x])
    PROVE  IsFiniteSet(UNION {f[x] : x \in S})
<1> DEFINE T == {f[x] : x \in S}
<1>1. IsFiniteSet(T)
  BY ImageFinite
<1>2. \A x \in T : IsFiniteSet(x)
  OBVIOUS
<1> HIDE DEF T
<1>3. IsFiniteSet(UNION T)
  BY <1>1, <1>2, FS_UNION
<1> QED
  BY <1>3 DEF T

(* Why a target may name q, as Listed has it.                              *)
Grounds(disk, c, t, q) ==
    \/ \E k \in DOMAIN t.subs :
           t.kind = "HomeDirs" /\ q = Entry(disk, home \o t.subs[k])
    \/ \E k \in DOMAIN t.subs : \E r \in DOMAIN disk :
           /\ t.kind = "VersionedDirs" /\ disk[q].type = "dir"
           /\ Parent(q) = Walk(disk, home \o t.subs[k]) /\ Parent(r) = Parent(q)
           /\ disk[r].type = "dir" /\ version_group(Last(r)) = version_group(Last(q))
           /\ r # q /\ disk[r].mtime >= disk[q].mtime
    \/ \E k \in DOMAIN c.scan_roots :
           /\ t.kind = "NamedDirUnder" /\ disk[q].type = "dir"
           /\ Last(q) = t.name /\ IsStrictPrefix(Walk(disk, c.scan_roots[k]), q)
           /\ t.siblings = {} \/ \E n \in t.siblings : Append(Parent(q), n) \in DOMAIN disk

LEMMA ListedIs ==
    ASSUME NEW q
    PROVE  Listed(q) <=> \E idx \in DOMAIN catalog : /\ deletable(catalog[idx].tier, cfg)
                                                     /\ Grounds(before, cfg, catalog[idx], q)
  BY DEF Listed, Grounds

RootIs(c, x) ==
    LET t == catalog[x.target_idx]
    IN  /\ t.kind = "HomeDirs"      => x.root = x.path
        /\ t.kind = "VersionedDirs" => x.root = home_path(home, t.subs[x.turn])
        /\ t.kind = "NamedDirUnder" => x.root = c.scan_roots[x.turn]

Resolved(disk, c, x) ==
    /\ x = Found(x.target_idx, x.turn, x.path, x.root)
    /\ x.path \in Path /\ HasName(x.path) /\ x.root \in Path
    /\ x.target_idx \in DOMAIN catalog /\ x.turn \in Nat
    /\ RootIs(c, x)
    /\ catalog[x.target_idx].kind # "External"
    /\ Grounds(disk, c, catalog[x.target_idx], Entry(disk, x.path))

HomeIs == home \in Path /\ home # Nowhere

LEMMA LocationPath ==
    ASSUME HomeIs, NEW idx \in DOMAIN catalog, NEW k \in DOMAIN catalog[idx].subs
    PROVE  LET p == home_path(home, catalog[idx].subs[k])
           IN  p \in Path /\ HasName(p) /\ p = home \o catalog[idx].subs[k] /\ k \in Nat
<1> DEFINE sub == catalog[idx].subs[k]
<1>1. sub \in Path /\ HasName(sub) /\ k \in Nat
  BY CatalogIs DEF Sound, AllNamed, Placed
<1> HIDE DEF sub
<1>2. Len(sub) > 0
  BY <1>1 DEF HasName, Path
<1>3. home \o sub \in Path /\ Len(home \o sub) > 0 /\ Last(home \o sub) = Last(sub)
  BY <1>1, <1>2, EndOfConcat DEF HomeIs, Path
<1>4. HasName(home \o sub)
  BY <1>1, <1>3, NotEmpty DEF HasName
<1> QED
  BY <1>1, <1>3, <1>4 DEF home_path, sub

LEMMA HomeCandidatesAre ==
    ASSUME HomeIs, NEW disk, NEW c, NEW idx \in DOMAIN catalog, catalog[idx].kind = "HomeDirs"
    PROVE  /\ IsFiniteSet(HomeCandidates(home, idx))
           /\ \A x \in HomeCandidates(home, idx) : Resolved(disk, c, x) /\ x.target_idx = idx
<1> DEFINE subs == catalog[idx].subs
           loc(k) == home_path(home, subs[k])
           f == [k \in DOMAIN subs |-> Found(idx, k, loc(k), loc(k))]
<1>1. HomeCandidates(home, idx) = {f[k] : k \in DOMAIN subs}
  BY DEF HomeCandidates
<1>2. IsFiniteSet(DOMAIN subs)
  <2>1. DOMAIN subs = 1 .. Len(subs) /\ Len(subs) \in Nat
    BY CatalogIs
  <2> QED
    BY <2>1, FS_Interval
<1>3. ASSUME NEW k \in DOMAIN subs PROVE Resolved(disk, c, Found(idx, k, loc(k), loc(k)))
  <2> DEFINE x == Found(idx, k, loc(k), loc(k))
  <2>1. x.target_idx = idx /\ x.turn = k /\ x.path = loc(k) /\ x.root = loc(k)
    BY DEF Found
  <2>2. loc(k) \in Path /\ HasName(loc(k)) /\ loc(k) = home \o subs[k] /\ k \in Nat
    BY LocationPath
  <2>3. x = Found(x.target_idx, x.turn, x.path, x.root)
    BY <2>1
  <2> HIDE DEF x
  <2> QED
    BY <2>1, <2>2, <2>3 DEF Resolved, RootIs, Grounds
<1>4. \A k \in DOMAIN subs : f[k] = Found(idx, k, loc(k), loc(k)) /\ f[k].target_idx = idx
  BY DEF Found
<1> HIDE DEF f, subs
<1> QED
  BY <1>1, <1>2, <1>3, <1>4, ImageFinite
LEMMA StaleVersionsAre ==
    ASSUME NEW disk, WellFormed(disk), NEW dir \in Path
    PROVE  /\ IsFiniteSet(stale_versions(disk, dir, 1))
           /\ \A p \in stale_versions(disk, dir, 1) :
                  /\ p \in Path /\ HasName(p)
                  /\ LET q == Entry(disk, p)
                     IN  /\ disk[q].type = "dir" /\ Parent(q) = Walk(disk, dir)
                         /\ \E r \in DOMAIN disk :
                                /\ Parent(r) = Parent(q) /\ disk[r].type = "dir"
                                /\ version_group(Last(r)) = version_group(Last(q))
                                /\ r # q /\ disk[r].mtime >= disk[q].mtime
<1> DEFINE versions    == {r \in Children(disk, dir) : disk[r].type = "dir"}
           newer(r, s) == \/ disk[r].mtime > disk[s].mtime
                          \/ disk[r].mtime = disk[s].mtime /\ Rank(Last(r)) > Rank(Last(s))
           ahead(s)    == {r \in versions : version_group(Last(r)) = version_group(Last(s)) /\ newer(r, s)}
           stale       == {v \in versions : Cardinality(ahead(v)) >= 1}
           f           == [v \in stale |-> Append(dir, Last(v))]
<1>1. stale_versions(disk, dir, 1) = {f[v] : v \in stale}
  BY DEF stale_versions
<1>2. ASSUME NEW r \in versions
      PROVE  /\ r \in DOMAIN disk /\ Parent(r) = Walk(disk, dir) /\ disk[r].type = "dir"
             /\ Append(dir, Last(r)) \in Path /\ HasName(Append(dir, Last(r)))
             /\ Entry(disk, Append(dir, Last(r))) = r
             /\ disk[r].mtime \in Nat
  BY EntryOfChild, NodeParts
<1>3. ASSUME NEW r \in versions PROVE Rank(Last(r)) \in Nat
  <2>1. r \in Path /\ Len(r) > 0
    BY <1>2, WellFormedParts DEF Nowhere, Path
  <2>2. Last(r) \in Component
    BY <2>1 DEF Last, Path
  <2> QED
    BY <2>2, RankType
<1>4. IsFiniteSet(stale)
  <2>1. stale \subseteq DOMAIN disk
    BY <1>2
  <2> QED
    BY <2>1, WellFormedParts, FS_Subset
<1>5. IsFiniteSet(stale_versions(disk, dir, 1))
  <2> HIDE DEF stale, f
  <2> QED
    BY <1>1, <1>4, ImageFinite
<1>6. ASSUME NEW s \in stale
      PROVE  \E r \in versions : r # s /\ disk[r].mtime >= disk[s].mtime
                                 /\ version_group(Last(r)) = version_group(Last(s))
  <2>1. ahead(s) # {}
    <3>1. Cardinality(ahead(s)) >= 1
      OBVIOUS
    <3> HIDE DEF ahead
    <3>2. ~(0 >= 1)
      OBVIOUS
    <3> QED
      BY <3>1, <3>2, FS_EmptySet
  <2>2. PICK r \in versions : version_group(Last(r)) = version_group(Last(s)) /\ newer(r, s)
    BY <2>1
  <2>3. s \in versions
    OBVIOUS
  <2>4. r # s
    BY <1>2, <1>3, <2>2
  <2>5. disk[r].mtime >= disk[s].mtime
    BY <1>2, <2>2, <2>3
  <2> QED
    BY <2>2, <2>4, <2>5
<1>7. ASSUME NEW p \in stale_versions(disk, dir, 1)
      PROVE  \E s \in stale : p = Append(dir, Last(s))
  BY <1>1
<1>8. stale \subseteq versions
  OBVIOUS
<1> HIDE DEF stale, versions, f
<1>9. ASSUME NEW p \in stale_versions(disk, dir, 1)
      PROVE  /\ p \in Path /\ HasName(p)
             /\ LET q == Entry(disk, p)
                IN  /\ disk[q].type = "dir" /\ Parent(q) = Walk(disk, dir)
                    /\ \E r \in DOMAIN disk :
                           /\ Parent(r) = Parent(q) /\ disk[r].type = "dir"
                           /\ version_group(Last(r)) = version_group(Last(q))
                           /\ r # q /\ disk[r].mtime >= disk[q].mtime
  <2>1. PICK s \in stale : p = Append(dir, Last(s))
    BY <1>7
  <2>2. /\ p \in Path /\ HasName(p) /\ Entry(disk, p) = s
        /\ disk[s].type = "dir" /\ Parent(s) = Walk(disk, dir)
    BY <1>2, <1>8, <2>1
  <2>3. PICK r \in versions : /\ r # s /\ disk[r].mtime >= disk[s].mtime
                              /\ version_group(Last(r)) = version_group(Last(s))
    BY <1>6
  <2>4. r \in DOMAIN disk /\ Parent(r) = Parent(s) /\ disk[r].type = "dir"
    BY <1>2, <2>2
  <2> QED
    BY <2>2, <2>3, <2>4
<1> QED
  BY <1>5, <1>9

LEMMA VersionCandidatesAre ==
    ASSUME HomeIs, NEW disk, WellFormed(disk), NEW c, NEW idx \in DOMAIN catalog,
           catalog[idx].kind = "VersionedDirs"
    PROVE  /\ IsFiniteSet(VersionCandidates(disk, home, idx))
           /\ \A x \in VersionCandidates(disk, home, idx) : Resolved(disk, c, x) /\ x.target_idx = idx
<1> DEFINE subs   == catalog[idx].subs
           loc(k) == home_path(home, subs[k])
           in(k)  == stale_versions(disk, loc(k), 1)
           g(k)   == [p \in in(k) |-> Found(idx, k, p, loc(k))]
           all(k) == {Found(idx, k, p, loc(k)) : p \in in(k)}
           f      == [k \in DOMAIN subs |-> all(k)]
<1>1. catalog[idx].keep = 1
  BY CatalogIs DEF Sound
<1>2. VersionCandidates(disk, home, idx) = UNION {all(k) : k \in DOMAIN subs}
  BY <1>1, Zenon DEF VersionCandidates
<1>3. IsFiniteSet(DOMAIN subs)
  <2>1. DOMAIN subs = 1 .. Len(subs) /\ Len(subs) \in Nat
    BY CatalogIs
  <2> QED
    BY <2>1, FS_Interval
<1>4. ASSUME NEW k \in DOMAIN subs
      PROVE  loc(k) \in Path /\ loc(k) = home \o subs[k] /\ k \in Nat
  BY LocationPath
<1>5. ASSUME NEW k \in DOMAIN subs PROVE IsFiniteSet(all(k))
  <2>1. IsFiniteSet(in(k))
    BY <1>4, StaleVersionsAre
  <2>2. all(k) = {g(k)[p] : p \in in(k)}
    OBVIOUS
  <2> HIDE DEF in, g, all
  <2> QED
    BY <2>1, <2>2, ImageFinite
<1>6. ASSUME NEW k \in DOMAIN subs, NEW p \in in(k)
      PROVE  Resolved(disk, c, Found(idx, k, p, loc(k)))
  <2> DEFINE x == Found(idx, k, p, loc(k))
  <2>1. x.target_idx = idx /\ x.turn = k /\ x.path = p /\ x.root = loc(k)
    BY DEF Found
  <2>2. x = Found(x.target_idx, x.turn, x.path, x.root)
    BY <2>1
  <2>3. /\ p \in Path /\ HasName(p)
        /\ disk[Entry(disk, p)].type = "dir" /\ Parent(Entry(disk, p)) = Walk(disk, loc(k))
        /\ \E r \in DOMAIN disk :
               /\ Parent(r) = Parent(Entry(disk, p)) /\ disk[r].type = "dir"
               /\ version_group(Last(r)) = version_group(Last(Entry(disk, p)))
               /\ r # Entry(disk, p) /\ disk[r].mtime >= disk[Entry(disk, p)].mtime
    BY <1>4, StaleVersionsAre
  <2> HIDE DEF x
  <2>4. Grounds(disk, c, catalog[idx], Entry(disk, p))
    BY <1>4, <2>3 DEF Grounds
  <2> QED
    BY <1>4, <2>1, <2>2, <2>3, <2>4 DEF Resolved, RootIs
<1>7. ASSUME NEW x \in VersionCandidates(disk, home, idx)
      PROVE  \E k \in DOMAIN subs : \E p \in in(k) : x = Found(idx, k, p, loc(k))
  BY <1>2, Zenon
<1>8. \A k, p, root : Found(idx, k, p, root).target_idx = idx
  BY DEF Found
<1>9. IsFiniteSet(VersionCandidates(disk, home, idx))
  <2> HIDE DEF all, subs
  <2>1. \A k \in DOMAIN subs : IsFiniteSet(f[k])
    BY <1>5
  <2>2. {f[k] : k \in DOMAIN subs} = {all(k) : k \in DOMAIN subs}
    OBVIOUS
  <2> HIDE DEF f
  <2>3. IsFiniteSet(UNION {f[k] : k \in DOMAIN subs})
    BY <1>3, <2>1, UnionFinite
  <2> QED
    BY <1>2, <2>2, <2>3
<1> HIDE DEF subs, in
<1> QED
  BY <1>6, <1>7, <1>8, <1>9
LEMMA NamedDirsAre ==
    ASSUME NEW disk, WellFormed(disk), NEW root \in Path, NEW name,
           NEW siblings \in SUBSET (Component \ Special)
    PROVE  /\ IsFiniteSet(find_named_dirs(disk, root, name, siblings))
           /\ \A p \in find_named_dirs(disk, root, name, siblings) :
                  /\ p \in Path /\ HasName(p)
                  /\ LET q == Entry(disk, p)
                     IN  /\ disk[q].type = "dir" /\ Last(q) = name
                         /\ IsStrictPrefix(Walk(disk, root), q)
                         /\ \/ siblings = {}
                            \/ \E n \in siblings : Append(Parent(q), n) \in DOMAIN disk
<1> DEFINE top      == Walk(disk, root)
           shown(r) == root \o SubSeq(r, Len(top) + 1, Len(r))
           below    == {r \in Readable(disk, top) : r # top /\ disk[r].type = "dir"}
           match(r) == Last(r) = name /\ (siblings = {} \/ has_sibling(disk, shown(r), siblings))
           matches  == {r \in below : match(r)}
           outer    == {m \in matches : \A a \in matches : StartsWith(m, a) => a = m}
           f        == [r \in outer |-> shown(r)]
<1>1. CASE ~is_dir(disk, root)
  <2>1. find_named_dirs(disk, root, name, siblings) = {}
    BY <1>1 DEF find_named_dirs
  <2> QED
    BY <2>1, FS_EmptySet
<1>2. CASE is_dir(disk, root)
  <2>1. find_named_dirs(disk, root, name, siblings) = {f[r] : r \in outer}
    BY <1>2 DEF find_named_dirs
  <2>2. exists(disk, root)
    BY <1>2 DEF is_dir
  <2>3. outer \subseteq matches /\ matches \subseteq below
    OBVIOUS
  <2>4. ASSUME NEW r \in below
        PROVE  /\ shown(r) \in Path /\ HasName(shown(r)) /\ Parent(shown(r)) \in Path
               /\ r \in DOMAIN disk /\ IsStrictPrefix(top, r) /\ Entry(disk, shown(r)) = r
               /\ WalkFrom(disk, Here(disk), Parent(shown(r))) = Parent(r)
    BY <2>2, EntryBelow
  <2>5. ASSUME NEW r \in matches
        PROVE  /\ r \in below /\ disk[r].type = "dir" /\ Last(r) = name
               /\ siblings = {} \/ \E n \in siblings : Append(Parent(r), n) \in DOMAIN disk
    <3>1. r \in below /\ disk[r].type = "dir" /\ match(r)
      OBVIOUS
    <3> HIDE DEF below, matches, shown
    <3>2. ASSUME NEW n \in siblings, exists(disk, Append(Parent(shown(r)), n))
          PROVE  Append(Parent(r), n) \in DOMAIN disk
      <4>1. Parent(shown(r)) \in Path /\ n \in Component \ Special
        BY <2>4, <3>1
      <4>2. Append(WalkFrom(disk, Here(disk), Parent(shown(r))), n) \in DOMAIN disk
        BY <3>2, <4>1, ExistsIn
      <4> QED
        BY <2>4, <3>1, <4>2
    <3> QED
      BY <3>1, <3>2 DEF has_sibling
  <2>6. \A p \in find_named_dirs(disk, root, name, siblings) : \E r \in outer : p = shown(r)
    BY <2>1
  <2>7. IsFiniteSet(outer)
    <3>1. outer \subseteq DOMAIN disk
      BY <2>3, <2>4
    <3> HIDE DEF outer
    <3> QED
      BY <3>1, WellFormedParts, FS_Subset
  <2> HIDE DEF outer, matches, below, shown, f
  <2>8. IsFiniteSet(find_named_dirs(disk, root, name, siblings))
    BY <2>1, <2>7, ImageFinite
  <2>9. ASSUME NEW p \in find_named_dirs(disk, root, name, siblings)
        PROVE  /\ p \in Path /\ HasName(p)
               /\ LET q == Entry(disk, p)
                  IN  /\ disk[q].type = "dir" /\ Last(q) = name
                      /\ IsStrictPrefix(top, q)
                      /\ \/ siblings = {}
                         \/ \E n \in siblings : Append(Parent(q), n) \in DOMAIN disk
    <3>1. PICK r \in outer : p = shown(r)
      BY <2>6
    <3>2. r \in matches /\ r \in below
      BY <2>3, <3>1
    <3> QED
      BY <2>4, <2>5, <3>1, <3>2
  <2> QED
    BY <2>8, <2>9
<1> QED
  BY <1>1, <1>2

LEMMA NamedCandidatesAre ==
    ASSUME NEW disk, WellFormed(disk), NEW c \in Config, NEW idx \in DOMAIN catalog,
           catalog[idx].kind = "NamedDirUnder"
    PROVE  /\ IsFiniteSet(NamedCandidates(disk, idx, c.scan_roots))
           /\ \A x \in NamedCandidates(disk, idx, c.scan_roots) :
                  Resolved(disk, c, x) /\ x.target_idx = idx
<1> DEFINE roots  == c.scan_roots
           t      == catalog[idx]
           in(k)  == find_named_dirs(disk, roots[k], t.name, t.siblings)
           g(k)   == [p \in in(k) |-> Found(idx, k, p, roots[k])]
           all(k) == {Found(idx, k, p, roots[k]) : p \in in(k)}
           f      == [k \in DOMAIN roots |-> all(k)]
<1>1. NamedCandidates(disk, idx, roots) = UNION {all(k) : k \in DOMAIN roots}
  BY Zenon DEF NamedCandidates
<1>2. roots \in Seq(Path)
  BY DEF Config
<1>3. IsFiniteSet(DOMAIN roots)
  <2>1. DOMAIN roots = 1 .. Len(roots) /\ Len(roots) \in Nat
    BY <1>2
  <2> QED
    BY <2>1, FS_Interval
<1>4. ASSUME NEW k \in DOMAIN roots PROVE roots[k] \in Path /\ k \in Nat
  BY <1>2
<1>5. t.siblings \in SUBSET (Component \ Special)
  BY CatalogIs
<1>6. ASSUME NEW k \in DOMAIN roots PROVE IsFiniteSet(all(k))
  <2>1. IsFiniteSet(in(k))
    BY <1>4, <1>5, NamedDirsAre
  <2>2. all(k) = {g(k)[p] : p \in in(k)}
    OBVIOUS
  <2> HIDE DEF in, g, all
  <2> QED
    BY <2>1, <2>2, ImageFinite
<1>7. ASSUME NEW k \in DOMAIN roots, NEW p \in in(k)
      PROVE  Resolved(disk, c, Found(idx, k, p, roots[k]))
  <2> DEFINE x == Found(idx, k, p, roots[k])
  <2>1. x.target_idx = idx /\ x.turn = k /\ x.path = p /\ x.root = roots[k]
    BY DEF Found
  <2>2. x = Found(x.target_idx, x.turn, x.path, x.root)
    BY <2>1
  <2>3. /\ p \in Path /\ HasName(p)
        /\ disk[Entry(disk, p)].type = "dir" /\ Last(Entry(disk, p)) = t.name
        /\ IsStrictPrefix(Walk(disk, roots[k]), Entry(disk, p))
        /\ \/ t.siblings = {}
           \/ \E n \in t.siblings : Append(Parent(Entry(disk, p)), n) \in DOMAIN disk
    BY <1>4, <1>5, NamedDirsAre
  <2> HIDE DEF x
  <2>4. Grounds(disk, c, t, Entry(disk, p))
    BY <2>3 DEF Grounds
  <2> QED
    BY <1>4, <2>1, <2>2, <2>3, <2>4 DEF Resolved, RootIs
<1>8. ASSUME NEW x \in NamedCandidates(disk, idx, roots)
      PROVE  \E k \in DOMAIN roots : \E p \in in(k) : x = Found(idx, k, p, roots[k])
  BY <1>1, Zenon
<1>9. \A k, p, root : Found(idx, k, p, root).target_idx = idx
  BY DEF Found
<1>10. IsFiniteSet(NamedCandidates(disk, idx, roots))
  <2> HIDE DEF all, roots
  <2>1. \A k \in DOMAIN roots : IsFiniteSet(f[k])
    BY <1>6
  <2>2. {f[k] : k \in DOMAIN roots} = {all(k) : k \in DOMAIN roots}
    OBVIOUS
  <2> HIDE DEF f
  <2>3. IsFiniteSet(UNION {f[k] : k \in DOMAIN roots})
    BY <1>3, <2>1, UnionFinite
  <2> QED
    BY <1>1, <2>2, <2>3
<1> HIDE DEF in
<1> QED
  BY <1>7, <1>8, <1>9, <1>10

LEMMA CandidatesAre ==
    ASSUME HomeIs, NEW disk, WellFormed(disk), NEW c \in Config
    PROVE  /\ Sortable(Candidates(disk, c, home))
           /\ \A x \in Candidates(disk, c, home) : Resolved(disk, c, x)
<1> DEFINE of(idx) == CASE catalog[idx].kind = "HomeDirs"      -> HomeCandidates(home, idx)
                        [] catalog[idx].kind = "VersionedDirs" -> VersionCandidates(disk, home, idx)
                        [] catalog[idx].kind = "NamedDirUnder" -> NamedCandidates(disk, idx, c.scan_roots)
                        [] catalog[idx].kind = "External"      -> {}
           I == Considered(c)
           f == [idx \in I |-> of(idx)]
<1>1. Candidates(disk, c, home) = UNION {of(idx) : idx \in I}
  BY DEF Candidates
<1>2. I \subseteq DOMAIN catalog
  BY DEF Considered
<1>3. ASSUME NEW idx \in DOMAIN catalog
      PROVE  IsFiniteSet(of(idx)) /\ \A x \in of(idx) : Resolved(disk, c, x) /\ x.target_idx = idx
  <2>1. CASE catalog[idx].kind = "HomeDirs"
    BY <2>1, HomeCandidatesAre
  <2>2. CASE catalog[idx].kind = "VersionedDirs"
    BY <2>2, VersionCandidatesAre
  <2>3. CASE catalog[idx].kind = "NamedDirUnder"
    BY <2>3, NamedCandidatesAre
  <2>4. CASE catalog[idx].kind = "External"
    BY <2>4, FS_EmptySet
  <2> QED
    BY <2>1, <2>2, <2>3, <2>4, CatalogIs DEF Sound
<1> HIDE DEF of
<1>4. \A x \in Candidates(disk, c, home) : Resolved(disk, c, x)
  BY <1>1, <1>2, <1>3
<1>5. IsFiniteSet(Candidates(disk, c, home))
  <2>1. IsFiniteSet(I)
    BY <1>2, CatalogIs, FS_Subset
  <2> HIDE DEF I
  <2>2. \A idx \in I : IsFiniteSet(f[idx])
    BY <1>2, <1>3
  <2>3. {f[idx] : idx \in I} = {of(idx) : idx \in I}
    OBVIOUS
  <2> HIDE DEF f
  <2>4. IsFiniteSet(UNION {f[idx] : idx \in I})
    BY <2>1, <2>2, UnionFinite
  <2> QED
    BY <1>1, <2>3, <2>4
<1>6. ASSUME NEW x \in Candidates(disk, c, home)
      PROVE  x.path \in Path /\ x.target_idx \in Nat /\ x.turn \in Nat
  BY <1>4, CatalogIs DEF Resolved
<1>7. ASSUME NEW x \in Candidates(disk, c, home), NEW y \in Candidates(disk, c, home),
             x.path = y.path, x.target_idx = y.target_idx, x.turn = y.turn
      PROVE  x = y
  <2>1. Resolved(disk, c, x) /\ Resolved(disk, c, y)
    BY <1>4
  <2>2. catalog[x.target_idx].kind \in {"HomeDirs", "VersionedDirs", "NamedDirUnder"}
    BY <2>1, CatalogIs DEF Resolved, Sound
  <2>3. x.root = y.root
    BY <1>7, <2>1, <2>2 DEF Resolved, RootIs
  <2> QED
    BY <1>7, <2>1, <2>3 DEF Resolved
<1> QED
  BY <1>4, <1>5, <1>6, <1>7 DEF Sortable
-----------------------------------------------------------------------------
(* Sizing.                                                                 *)
Bytes(disk, q, S) == SumFunction([r \in S |-> IF r = q THEN disk[r].alloc ELSE disk[r].len])

LEMMA SizeBytes ==
    ASSUME NEW disk, WellFormed(disk), NEW q, NEW S \in SUBSET DOMAIN disk
    PROVE  Bytes(disk, q, S) \in Nat
<1> DEFINE w == [r \in S |-> IF r = q THEN disk[r].alloc ELSE disk[r].len]
<1>1. IsFiniteSet(S) /\ w \in [S -> Nat]
  <2>1. \A r \in S : disk[r].alloc \in Nat /\ disk[r].len \in Nat
    BY NodeParts
  <2>2. IsFiniteSet(S)
    BY WellFormedParts, FS_Subset
  <2> QED
    BY <2>1, <2>2
<1> HIDE DEF w
<1>2. SumFunction(w) \in Nat
  BY <1>1, SumNat
<1> QED
  BY <1>2 DEF w, Bytes

LEMMA SizeIs ==
    ASSUME NEW disk, WellFormed(disk), NEW p \in Path
    PROVE  /\ size_path(disk, p).bytes \in Nat /\ size_path(disk, p).newest \in Nat
           /\ \A r \in Readable(disk, Entry(disk, p)) :
                  disk[r].type = "file" => disk[r].mtime <= size_path(disk, p).newest
<1> DEFINE q       == Entry(disk, p)
           counted == {r \in Readable(disk, q) : \/ disk[r].type = "file"
                                                 \/ r = q /\ disk[r].type = "link"}
           bytes   == Bytes(disk, q, counted)
           f       == [r \in DOMAIN disk |-> disk[r].mtime]
           ages    == {disk[r].mtime : r \in counted}
           newest  == Max({0} \cup ages)
           T       == {0} \cup ages
<1>1. counted \in SUBSET DOMAIN disk
  BY DEF Readable, Tree
<1>2. size_path(disk, p) = [bytes |-> bytes, newest |-> newest]
  BY DEF size_path, Bytes
<1>3. bytes \in Nat
  <2> HIDE DEF counted, q
  <2> QED
    BY <1>1, SizeBytes
<1> HIDE DEF bytes
<1>4. ASSUME NEW r \in Readable(disk, q), disk[r].type = "file" PROVE disk[r].mtime \in T
  <2>1. r \in counted
    BY <1>4
  <2> HIDE DEF counted
  <2> QED
    BY <2>1
<1>5. ages = {f[r] : r \in counted}
  BY <1>1
<1> HIDE DEF counted, q
<1>6. T \in SUBSET Nat
  BY <1>1, NodeParts
<1>7. IsFiniteSet(counted)
  BY <1>1, WellFormedParts, FS_Subset
<1> HIDE DEF f
<1>8. IsFiniteSet(ages)
  BY <1>5, <1>7, ImageFinite
<1> HIDE DEF ages
<1>9. IsFiniteSet(T)
  <2>1. IsFiniteSet(ages \cup {0})
    BY <1>8, FS_AddElement
  <2> QED
    BY <2>1
<1>10. T # {} /\ newest = Max(T)
  OBVIOUS
<1> HIDE DEF T, newest
<1>11. newest \in T /\ \A y \in T : newest >= y
  BY <1>6, <1>9, <1>10, MaxOf
<1>12. \A y \in T : y \in Nat /\ newest \in Nat /\ y <= newest
  BY <1>6, <1>11
<1>13. size_path(disk, p).bytes = bytes /\ size_path(disk, p).newest = newest
  BY <1>2
<1> QED
  BY <1>3, <1>4, <1>11, <1>12, <1>13 DEF q

LEMMA MinOf == ASSUME NEW T \in SUBSET Nat, T # {} PROVE Min(T) \in T
<1>1. \E n \in T : \A m \in T : ~(<<m, n>> \in OpToRel(<, Nat))
  BY NatLessThanWellFounded, WFMin
<1>2. PICK n \in T : \A m \in T : ~(m < n)
  BY <1>1 DEF OpToRel
<1>3. \E n_1 \in T : \A m \in T : n_1 <= m
  BY <1>2
<1> QED
  BY <1>3 DEF Min

-----------------------------------------------------------------------------
(* The inductive invariant.                                                *)
Reasons == {"protected", "outside root", "missing", "in use", "needs a flag", "too new",
            "dry-run", "deleted", "delete failed", "not installed", "ran", "command failed"}

Candidate == [target_idx : DOMAIN catalog, turn : Nat, path : Path, root : Path]

ItemSet == [id : {catalog[idx].id : idx \in DOMAIN catalog},
            tier : {catalog[idx].tier : idx \in DOMAIN catalog},
            path : Path, verdict : {"reclaimable", "skipped"}, reason : Reasons, bytes : Nat]

(* The configuration is what the call's arguments say.                     *)
Asked ==
    /\ nth > 0 /\ HomeIs
    /\ parse_args(args).ends = "" /\ cfg = parse_args(args).cfg
    /\ warned = (cfg.apply /\ ~cfg.no_external /\ home_is_overridden(home))

(* What is listed as done was asked for.                                   *)
Fits(it) ==
    /\ it.reason \in {"deleted", "delete failed"} =>
           cfg.apply /\ (it.tier = "vm-disk" => cfg.include_vm_disks)
    /\ it.reason \in {"ran", "command failed"} => cfg.apply /\ ~cfg.no_external

Ordered(list) ==
    \A i \in 1 .. Len(list) : \A j \in 1 .. i - 1 :
        ~StartsWith(list[i].path, list[j].path) /\ SortsBefore(list[j], list[i])

Basics ==
    /\ scene \in Scenes /\ nth \in 0 .. Len(scene.calls)
    /\ WellFormed(fs) /\ WellFormed(before) /\ Remains(fs, before)
    /\ cfg \in Config /\ warned \in BOOLEAN
    /\ pc \in {"called", "resolve", "judge", "delegate"}
    /\ seen \subseteq DOMAIN catalog /\ delegated \subseteq DOMAIN catalog

Phases ==
    /\ pc # "called" \/ items # << >> \/ Gone # {} => Asked
    /\ pc = "resolve" => fs = before
    /\ pc # "judge" => kept = << >>
    /\ pc # "delegate" => delegated = {}
    /\ kept \in Seq(Candidate) /\ Ordered(kept)
    /\ \A i \in 1 .. Len(kept) : Resolved(before, cfg, kept[i])

Reported ==
    /\ items \in Seq(ItemSet) /\ \A i \in 1 .. Len(items) : Fits(items[i])
    /\ Gone # {} => cfg.apply
    /\ delegated # {} => ~cfg.no_external

IInv == Basics /\ Phases /\ Reported /\ AllowlistOnly /\ RecentSurvives

(* What only depends on the call stays while it lasts.                     *)
LEMMA SameCall ==
    ASSUME UNCHANGED call
    PROVE  /\ home' = home /\ args' = args /\ scene' = scene /\ nth' = nth /\ cfg' = cfg
           /\ warned' = warned /\ before' = before
           /\ Asked' <=> Asked
           /\ \A x : Resolved(before, cfg, x)' <=> Resolved(before, cfg, x)
           /\ \A q : Listed(q)' <=> Listed(q)
           /\ \A it : Fits(it)' <=> Fits(it)
<1>1. /\ home' = home /\ args' = args /\ scene' = scene /\ nth' = nth /\ cfg' = cfg
      /\ warned' = warned /\ before' = before
  BY DEF call, home, args
<1>2. Asked' <=> Asked
  BY <1>1 DEF Asked, HomeIs
<1>3. ASSUME NEW x PROVE Resolved(before, cfg, x)' <=> Resolved(before, cfg, x)
  <2>1. RootIs(cfg, x)' <=> RootIs(cfg, x)
    BY <1>1 DEF RootIs
  <2>2. Grounds(before, cfg, catalog[x.target_idx], Entry(before, x.path))'
        <=> Grounds(before, cfg, catalog[x.target_idx], Entry(before, x.path))
    BY <1>1 DEF Grounds
  <2> QED
    BY <1>1, <2>1, <2>2 DEF Resolved
<1>4. ASSUME NEW q PROVE Listed(q)' <=> Listed(q)
  BY <1>1 DEF Listed
<1>5. ASSUME NEW it PROVE Fits(it)' <=> Fits(it)
  BY <1>1 DEF Fits
<1> QED
  BY <1>1, <1>2, <1>3, <1>4, <1>5
(* What Retained takes of the first m items.                               *)
Picks(X, list, stays, m) ==
    /\ list \in Seq(X)
    /\ \A i \in 1 .. Len(list) : \E l \in 1 .. m : list[i] = items[l]
    /\ \A l \in 1 .. m : l \in stays => \E i \in 1 .. Len(list) : list[i] = items[l]

LEMMA PicksOneMore ==
    ASSUME NEW X, items \in Seq(X), NEW stays, NEW m \in Nat, NEW h \in 1 .. Len(items), h = m + 1,
           NEW s, Picks(X, s, stays, m)
    PROVE  Picks(X, IF h \in stays THEN Append(s, items[h]) ELSE s, stays, h)
<1>1. s \in Seq(X) /\ Len(s) \in Nat /\ items[h] \in X
  BY DEF Picks
<1>2. \A l : l \in 1 .. h <=> l \in 1 .. m \/ l = h
  OBVIOUS
<1>3. CASE h \notin stays
  BY <1>2, <1>3 DEF Picks
<1>4. CASE h \in stays
  <2> DEFINE t == Append(s, items[h])
             n == Len(s)
  <2>1. /\ t \in Seq(X) /\ Len(t) = n + 1 /\ t[n + 1] = items[h]
        /\ \A i \in 1 .. n : t[i] = s[i]
    BY <1>1
  <2>2. \A i : i \in 1 .. n + 1 <=> i \in 1 .. n \/ i = n + 1
    BY <1>1
  <2> HIDE DEF t, n
  <2>3. ASSUME NEW i \in 1 .. Len(t) PROVE \E l \in 1 .. h : t[i] = items[l]
    <3>1. CASE i = n + 1
      BY <1>2, <2>1, <3>1
    <3>2. CASE i \in 1 .. n
      BY <1>2, <2>1, <3>2 DEF Picks, n
    <3> QED
      BY <2>1, <2>2, <3>1, <3>2
  <2>4. ASSUME NEW l \in 1 .. h, l \in stays PROVE \E i \in 1 .. Len(t) : t[i] = items[l]
    <3>1. CASE l = h
      BY <2>1, <2>2, <3>1
    <3>2. CASE l \in 1 .. m
      <4>1. PICK i \in 1 .. n : s[i] = items[l]
        BY <2>4, <3>2 DEF Picks, n
      <4> QED
        BY <2>1, <2>2, <4>1
    <3> QED
      BY <1>2, <3>1, <3>2
  <2>5. Picks(X, t, stays, h)
    BY <2>1, <2>3, <2>4 DEF Picks
  <2> QED
    BY <1>4, <2>5 DEF t
<1> QED
  BY <1>3, <1>4

(* Retained(stays) is built up item by item: of has it for the first ones. *)
Built(stays, of) ==
    /\ of[0] = << >>
    /\ \A m \in 0 .. Len(items) - 1 :
           of[m + 1] = IF m + 1 \in stays THEN Append(of[m], items[m + 1]) ELSE of[m]
    /\ Retained(stays) = of[Len(items)]

LEMMA RetainedBuilt ==
    ASSUME NEW X, items \in Seq(X), NEW stays
    PROVE  \E of : Built(stays, of)
<1> DEFINE n == Len(items)
           S == Seq(X)
           b == << >>
           D == [i \in 1 .. n |-> [s \in S |-> IF i \in stays THEN Append(s, items[i]) ELSE s]]
<1>1. n \in Nat /\ b \in S
  OBVIOUS
<1>2. ASSUME NEW i \in 1 .. n, NEW s \in S
      PROVE  (IF i \in stays THEN Append(s, items[i]) ELSE s) \in S
  <2>1. items[i] \in X
    OBVIOUS
  <2> QED
    BY <2>1, AppendType
<1>3. /\ D \in [1 .. n -> [S -> S]]
      /\ \A i \in 1 .. n : \A s \in S : D[i][s] = IF i \in stays THEN Append(s, items[i]) ELSE s
  BY <1>2
<1> HIDE DEF D, n, S, b
<1>4. Iterated(n, S, b, D)
  BY <1>1, <1>3, Recursion
<1>5. PICK f \in [0 .. n -> S] : f[0] = b /\ \A i \in 1 .. n : f[i] = D[i][f[i - 1]]
  BY <1>4 DEF Iterated
<1>6. \A i \in 1 .. n : f[i] = IF i \in stays THEN Append(f[i - 1], items[i]) ELSE f[i - 1]
  <2>1. \A i \in 1 .. n : f[i - 1] \in S
    BY <1>1
  <2> QED
    BY <1>3, <1>5, <2>1
<1> DEFINE E(g) == [i \in 0 .. n |-> IF i = 0 THEN b
                                    ELSE IF i \in stays THEN Append(g[i - 1], items[i]) ELSE g[i - 1]]
           of   == CHOOSE g : g = E(g)
<1>7. f = E(f)
  <2>1. \A i \in 0 .. n : f[i] = E(f)[i]
    <3>1. \A i \in 0 .. n : i = 0 \/ i \in 1 .. n
      BY <1>1
    <3> QED
      BY <1>5, <1>6, <3>1
  <2>2. f = [i \in 0 .. n |-> f[i]] /\ E(f) = [i \in 0 .. n |-> E(f)[i]]
    BY <1>5
  <2> HIDE DEF E
  <2> QED
    BY <2>1, <2>2
<1>8. of = E(of)
  <2> HIDE DEF E
  <2> QED
    BY <1>7
<1>9. Retained(stays) = of[n]
  BY DEF Retained, n, b
<1> HIDE DEF of
<1>10. /\ DOMAIN of = 0 .. n
       /\ \A i \in 0 .. n : of[i] = IF i = 0 THEN b
                                    ELSE IF i \in stays THEN Append(of[i - 1], items[i]) ELSE of[i - 1]
  BY <1>8
<1> HIDE DEF E
<1>11. of[0] = b
  BY <1>1, <1>10
<1>12. ASSUME NEW m \in Nat, m < n
       PROVE  of[m + 1] = IF m + 1 \in stays THEN Append(of[m], items[m + 1]) ELSE of[m]
  <2> DEFINE h == m + 1
  <2>1. h \in 0 .. n /\ h # 0 /\ h - 1 = m
    BY <1>1, <1>12
  <2> HIDE DEF h
  <2>2. of[h] = IF h \in stays THEN Append(of[h - 1], items[h]) ELSE of[h - 1]
    BY <1>10, <2>1
  <2>3. of[h] = IF h \in stays THEN Append(of[m], items[h]) ELSE of[m]
    BY <2>1, <2>2
  <2> QED
    BY <2>3 DEF h
<1>13. Built(stays, of)
  <2>1. \A m \in 0 .. n - 1 : m \in Nat /\ m < n
    BY <1>1
  <2> QED
    BY <1>9, <1>11, <1>12, <2>1 DEF Built, n, b
<1> QED
  BY <1>13

LEMMA RetainedIs ==
    ASSUME NEW X, items \in Seq(X), NEW stays
    PROVE  Picks(X, Retained(stays), stays, Len(items))
<1> DEFINE n == Len(items)
<1>1. n \in Nat
  OBVIOUS
<1>2. PICK of : Built(stays, of)
  BY RetainedBuilt
<1>3. of[0] = << >>
  BY <1>2 DEF Built
<1>4. ASSUME NEW m \in Nat, m < n
       PROVE  of[m + 1] = IF m + 1 \in stays THEN Append(of[m], items[m + 1]) ELSE of[m]
  <2>1. m \in 0 .. n - 1
    BY <1>1, <1>4
  <2> QED
    BY <1>2, <2>1 DEF Built, n
<1> HIDE DEF n
<1> DEFINE A == {m \in Nat : m <= n => Picks(X, of[m], stays, m)}
<1>5. 0 \in A
  <2>1. Len(<< >>) = 0 /\ << >> \in Seq(X)
    OBVIOUS
  <2>2. \A i : i \notin 1 .. 0
    OBVIOUS
  <2>3. Picks(X, << >>, stays, 0)
    BY <2>1, <2>2 DEF Picks
  <2> QED
    BY <1>3, <2>3
<1>6. ASSUME NEW m \in Nat, m \in A PROVE m + 1 \in A
  <2> SUFFICES ASSUME m + 1 <= n PROVE Picks(X, of[m + 1], stays, m + 1)
    OBVIOUS
  <2> DEFINE h == m + 1
  <2>1. m < n /\ m <= n /\ h \in 1 .. n /\ h = m + 1
    BY <1>1
  <2>2. Picks(X, of[m], stays, m)
    BY <1>6, <2>1
  <2>3. of[h] = IF h \in stays THEN Append(of[m], items[h]) ELSE of[m]
    BY <1>4, <2>1
  <2> HIDE DEF h
  <2>4. Picks(X, IF h \in stays THEN Append(of[m], items[h]) ELSE of[m], stays, h)
    BY <2>1, <2>2, PicksOneMore DEF n
  <2> QED
    BY <2>3, <2>4 DEF h
<1> HIDE DEF A
<1>7. n \in A
  BY <1>1, <1>5, <1>6, NatInduct
<1>8. Picks(X, of[n], stays, n)
  BY <1>1, <1>7 DEF A
<1> QED
  BY <1>2, <1>8 DEF Built, n
-----------------------------------------------------------------------------
(* Whatever part of a tree a removal takes, what is in it goes first, and  *)
(* nothing goes that the sizing walk did not get to see.                   *)
Takes(tree, gone) == (HeldIn(tree) = {} /\ gone = tree) \/ gone \in Partial(tree)

LEMMA GoneIs ==
    ASSUME WellFormed(fs), NEW e \in Places(fs), e # <<"/">>, NEW gone, Takes(Tree(fs, e), gone)
    PROVE  Closed(fs, gone) /\ gone \subseteq Tree(fs, e) \cap Readable(fs, e)
<1> DEFINE tree == Tree(fs, e)
<1>1. Closed(fs, tree)
  BY TreeClosed
<1>2. ASSUME NEW q \in tree PROVE q \in DOMAIN fs /\ q \in Path /\ e \in Path /\ Len(e) > 0
  <2>1. q \in DOMAIN fs /\ e # Nowhere
    BY DEF Tree
  <2>2. e \in DOMAIN fs
    BY <2>1 DEF Places
  <2>3. q \in Path /\ e \in Path
    BY <2>1, <2>2, WellFormedParts
  <2> QED
    BY <2>1, <2>3 DEF Nowhere, Path
<1>3. ASSUME NEW q \in tree, ~Held(fs, q) PROVE q \in Readable(fs, e)
  <2>1. q \in Path /\ e \in Path /\ Len(e) > 0 /\ Len(q) \in Nat /\ Len(e) \in Nat
    BY <1>2 DEF Path
  <2>2. \A i \in 1 .. Len(q) : fs[SubSeq(q, 1, i)].mode # "none"
    BY <1>3 DEF Held
  <2>3. \A i \in Len(e) .. Len(q) - 1 : i \in 1 .. Len(q)
    BY <2>1
  <2> QED
    BY <2>2, <2>3 DEF Readable
<1>4. CASE HeldIn(tree) = {} /\ gone = tree
  <2>1. \A q \in tree : ~Held(fs, q)
    BY <1>4 DEF HeldIn
  <2> QED
    BY <1>1, <1>3, <1>4, <2>1
<1>5. CASE gone = {}
  BY <1>5 DEF Closed
<1>6. CASE gone = {q \in tree : \A h \in HeldIn(tree) : ~StartsWith(h, q)}
  <2>1. ASSUME NEW q \in gone PROVE q \in tree /\ ~Held(fs, q)
    <3>1. q \in tree /\ \A h \in HeldIn(tree) : ~StartsWith(h, q)
      BY <1>6
    <3>2. StartsWith(q, q)
      BY <1>2, <3>1, Prefix DEF AgreeTo, Path
    <3> QED
      BY <3>1, <3>2 DEF HeldIn
  <2>2. ASSUME NEW q \in DOMAIN fs, q # <<"/">>, Parent(q) \in gone PROVE q \in gone
    <3>1. Parent(q) \in tree /\ \A h \in HeldIn(tree) : ~StartsWith(h, Parent(q))
      BY <1>6, <2>2
    <3>2. q \in tree
      BY <1>1, <2>2, <3>1 DEF Closed
    <3>3. ASSUME NEW h \in HeldIn(tree), StartsWith(h, q) PROVE FALSE
      <4>1. h \in Path /\ q \in Path /\ Len(q) > 1 /\ Parent(q) \in Path
        BY <1>2, <2>2, <3>1, WellFormedParts DEF HeldIn
      <4>2. Len(Parent(q)) = Len(q) - 1 /\ \A i \in 1 .. Len(q) - 1 : Parent(q)[i] = q[i]
        BY <4>1 DEF Parent, Front, Path
      <4>3. Len(q) <= Len(h) /\ AgreeTo(q, h, Len(q))
        BY <3>3, <4>1, Prefix
      <4>4. Len(Parent(q)) <= Len(h) /\ AgreeTo(Parent(q), h, Len(Parent(q)))
        BY <4>1, <4>2, <4>3 DEF AgreeTo, Path
      <4>5. StartsWith(h, Parent(q))
        BY <4>1, <4>4, Prefix
      <4> QED
        BY <3>1, <4>5
    <3> QED
      BY <1>6, <3>2, <3>3
  <2>3. Closed(fs, gone)
    BY <1>1, <2>1, <2>2 DEF Closed
  <2> QED
    BY <1>3, <2>1, <2>3
<1> QED
  BY <1>4, <1>5, <1>6 DEF Takes, Partial
-----------------------------------------------------------------------------
(* Items are added, and those of a removal never go again.                 *)
LEMMA OneItemMore ==
    ASSUME items \in Seq(ItemSet), NEW it \in ItemSet, items' = Append(items, it)
    PROVE  /\ items' \in Seq(ItemSet) /\ Len(items') = Len(items) + 1 /\ Len(items) \in Nat
           /\ items'[Len(items) + 1] = it /\ DOMAIN items' = 1 .. Len(items) + 1
           /\ \A i \in 1 .. Len(items) : i \in 1 .. Len(items) + 1 /\ items'[i] = items[i]
           /\ \A i \in 1 .. Len(items') : i \in 1 .. Len(items) \/ i = Len(items) + 1
  OBVIOUS

LEMMA ItemType ==
    ASSUME WellFormed(fs), NEW c \in Candidate, NEW reason \in Reasons
    PROVE  /\ Item(c, reason) \in ItemSet
           /\ Item(c, reason).reason = reason /\ Item(c, reason).path = c.path
           /\ Item(c, reason).tier = catalog[c.target_idx].tier
<1>1. c.target_idx \in DOMAIN catalog /\ c.path \in Path
  BY DEF Candidate
<1>2. Sized(fs, c) \in Nat
  BY <1>1, SizeIs DEF Sized
<1>3. Verdict(reason) \in {"reclaimable", "skipped"}
  BY DEF Verdict
<1> QED
  BY <1>1, <1>2, <1>3 DEF Item, ItemSet, Target

LEMMA JudgedKeeps ==
    ASSUME IInv, pc = "judge", kept # << >>, NEW it \in ItemSet, Fits(it), Judged(it),
           WellFormed(fs'), Remains(fs', before), Gone' # {} => cfg.apply
    PROVE  Basics' /\ Phases' /\ Reported'
<1>1. /\ home' = home /\ scene' = scene /\ nth' = nth /\ cfg' = cfg /\ before' = before
      /\ warned' = warned /\ pc' = pc /\ delegated' = delegated
      /\ Asked' <=> Asked
  BY SameCall DEF Judged
<1>2. kept \in Seq(Candidate) /\ Ordered(kept)
      /\ \A i \in 1 .. Len(kept) : Resolved(before, cfg, kept[i])
  BY DEF IInv, Phases
<1>3. /\ Len(kept) \in Nat /\ Len(kept) > 0 /\ Head(kept) \in Candidate
      /\ kept' \in Seq(Candidate) /\ Len(kept') = Len(kept) - 1
      /\ \A i \in 1 .. Len(kept) - 1 : i + 1 \in 1 .. Len(kept) /\ kept'[i] = kept[i + 1]
  BY <1>2 DEF Judged
<1>4. Basics'
  <2>1. seen' \subseteq DOMAIN catalog
    BY <1>3 DEF Judged, IInv, Basics, Candidate
  <2> QED
    BY <1>1, <2>1 DEF IInv, Basics
<1>5. Phases'
  <2>1. Ordered(kept')
    <3>1. ASSUME NEW i \in 1 .. Len(kept'), NEW j \in 1 .. i - 1
          PROVE  ~StartsWith(kept'[i].path, kept'[j].path) /\ SortsBefore(kept'[j], kept'[i])
      <4>1. i \in 1 .. Len(kept) - 1 /\ j \in 1 .. Len(kept) - 1
        BY <1>3
      <4>2. i + 1 \in 1 .. Len(kept) /\ j + 1 \in 1 .. (i + 1) - 1
        BY <1>3, <4>1
      <4>3. kept'[i] = kept[i + 1] /\ kept'[j] = kept[j + 1]
        BY <1>3, <4>1
      <4> QED
        BY <1>2, <4>2, <4>3 DEF Ordered
    <3> QED
      BY <3>1 DEF Ordered
  <2>2. \A i \in 1 .. Len(kept') : Resolved(before, cfg, kept[i])'
    <3>1. \A i \in 1 .. Len(kept') : Resolved(before, cfg, kept'[i])
      BY <1>2, <1>3
    <3>2. UNCHANGED call
      BY DEF Judged
    <3> QED
      BY <3>1, <3>2, SameCall
  <2>3. Asked
    BY DEF IInv, Phases
  <2> QED
    BY <1>1, <1>3, <2>1, <2>2, <2>3 DEF IInv, Phases, Ordered
<1>6. Reported'
  <2>1. items \in Seq(ItemSet) /\ \A i \in 1 .. Len(items) : Fits(items[i])
    BY DEF IInv, Reported
  <2>2. items' = Append(items, it)
    BY DEF Judged
  <2>3. \A i \in 1 .. Len(items') : Fits(items'[i])
    BY <2>1, <2>2, OneItemMore
  <2>4. \A i \in 1 .. Len(items') : Fits(items[i])'
    BY <2>3, <1>1 DEF Fits
  <2>5. items' \in Seq(ItemSet)
    BY <2>1, <2>2, OneItemMore
  <2> QED
    BY <1>1, <2>4, <2>5 DEF IInv, Reported
<1> QED
  BY <1>4, <1>5, <1>6

(* Whatever goes is accounted for while its item stays listed.             *)
LEMMA AllowlistCarried ==
    ASSUME AllowlistOnly, UNCHANGED call,
           \A i \in Removals : \E j \in Removals' : items'[j] = items[i],
           \A q \in Gone' : q \in Gone \/ \E i \in Removals' :
               q \in Tree(before, Entry(before, items'[i].path)) /\ Listed(Entry(before, items'[i].path))
    PROVE  AllowlistOnly'
<1> SUFFICES ASSUME NEW q \in Gone'
             PROVE  \E i \in Removals' : /\ q \in Tree(before, Entry(before, items'[i].path))
                                         /\ Listed(Entry(before, items'[i].path))
  <2>1. before' = before /\ \A q : Listed(q)' <=> Listed(q)
    BY SameCall
  <2> QED
    BY <2>1 DEF AllowlistOnly
<1>1. CASE q \in Gone
  <2>1. PICK i \in Removals : /\ q \in Tree(before, Entry(before, items[i].path))
                              /\ Listed(Entry(before, items[i].path))
    BY <1>1 DEF AllowlistOnly
  <2>2. PICK j \in Removals' : items'[j] = items[i]
    OBVIOUS
  <2> QED
    BY <2>1, <2>2
<1> QED
  BY <1>1
LEMMA ReasonIs ==
    ASSUME NEW c
    PROVE  Reason(c) \in {"protected", "outside root", "missing", "in use", "needs a flag", "too new", "ok"}
<1>1. verdict(fs, home, c) \in {"protected", "outside root", "missing", "in use", "ok"}
  BY DEF verdict, evaluate
<1> QED
  BY <1>1 DEF Reason, ReasonAt

-----------------------------------------------------------------------------
(* Step by step.                                                           *)
LEMMA EmptyList == ASSUME NEW S PROVE << >> \in Seq(S) /\ \A i : i \notin 1 .. Len(<< >>)
  OBVIOUS

LEMMA ElementType == ASSUME NEW S, NEW s \in Seq(S), NEW i \in 1 .. Len(s) PROVE s[i] \in S
  OBVIOUS

LEMMA InitKeeps == ASSUME Init PROVE IInv
<1>1. scene \in Scenes /\ fs = scene.disk /\ before = fs /\ WellFormed(fs)
  BY SystemAssumption DEF Init
<1>2. nth \in 0 .. Len(scene.calls)
  <2>1. scene.calls \in Seq([home : Path, args : Seq(DOMAIN Paths)])
    BY <1>1, SystemAssumption
  <2>2. Len(scene.calls) \in Nat
    BY <2>1
  <2> QED
    BY <2>2 DEF Init
<1>3. Gone = {}
  BY <1>1 DEF Gone
<1>4. Basics
  BY <1>1, <1>2, DefaultsType, RemainsReflexive DEF Init, Basics
<1>5. Phases
  <2>1. pc = "called" /\ kept = << >> /\ items = << >> /\ delegated = {}
    BY DEF Init
  <2>2. kept \in Seq(Candidate) /\ Len(kept) = 0
    BY <2>1
  <2> QED
    BY <1>3, <2>1, <2>2 DEF Phases, Ordered
<1>6. Reported
  <2>1. items = << >> /\ delegated = {}
    BY DEF Init
  <2>2. items \in Seq(ItemSet) /\ Len(items) = 0
    BY <2>1
  <2> QED
    BY <1>3, <2>1, <2>2 DEF Reported
<1> QED
  BY <1>3, <1>4, <1>5, <1>6 DEF IInv, AllowlistOnly, RecentSurvives

LEMMA CallKeeps == ASSUME IInv, Call PROVE IInv'
<1> DEFINE p == parse_args(args')
<1>1. /\ pc = "called" /\ nth < Len(scene.calls) /\ nth' = nth + 1 /\ before' = fs
      /\ items' = << >> /\ fs' = fs /\ scene' = scene /\ kept' = kept /\ seen' = seen
      /\ delegated' = delegated
  BY DEF Call
<1>2. scene \in Scenes /\ nth \in 0 .. Len(scene.calls)
  BY DEF IInv, Basics
<1>3. scene.calls \in Seq([home : Path, args : Seq(DOMAIN Paths)])
  BY <1>2, SystemAssumption
<1>4. nth' \in 1 .. Len(scene.calls)
  BY <1>1, <1>2, <1>3
<1>5. args' \in Seq(DOMAIN Paths) /\ home' \in Path
  <2>1. scene.calls[nth'] \in [home : Path, args : Seq(DOMAIN Paths)]
    BY <1>3, <1>4, ElementType
  <2> QED
    BY <1>1, <2>1 DEF args, home
<1>6. Gone' = {}
  BY <1>1 DEF Gone
<1>7. \/ cfg' = cfg /\ warned' = warned /\ pc' = pc
      \/ /\ p.ends = "" /\ home' # Nowhere /\ cfg' = p.cfg
         /\ warned' = (p.cfg.apply /\ ~p.cfg.no_external /\ home_is_overridden(home'))
         /\ pc' = "resolve"
  BY DEF Call
<1>8. p.ends = "" => p.cfg \in Config
  BY <1>5, ParsesAsGiven
<1> HIDE DEF p
<1>9. cfg' \in Config /\ warned' \in BOOLEAN /\ pc' \in {"called", "resolve"}
  BY <1>1, <1>7, <1>8 DEF IInv, Basics
<1>10. Basics'
  <2>1. WellFormed(fs') /\ WellFormed(before') /\ Remains(fs', before')
    BY <1>1, RemainsReflexive DEF IInv, Basics
  <2>2. nth' \in 0 .. Len(scene'.calls)
    BY <1>1, <1>2, <1>4
  <2> QED
    BY <1>1, <1>2, <1>9, <2>1, <2>2 DEF IInv, Basics
<1>11. kept' = << >> /\ delegated' = {}
  BY <1>1 DEF IInv, Phases
<1>12. Phases'
  <2>1. pc' # "called" => Asked'
    <3>1. SUFFICES ASSUME pc' # "called" PROVE Asked'
      OBVIOUS
    <3>2. /\ p.ends = "" /\ home' # Nowhere /\ cfg' = p.cfg
          /\ warned' = (p.cfg.apply /\ ~p.cfg.no_external /\ home_is_overridden(home'))
      BY <1>1, <1>7, <3>1
    <3>3. nth' > 0
      BY <1>4
    <3> QED
      BY <1>5, <3>2, <3>3 DEF Asked, HomeIs, p
  <2>2. kept' \in Seq(Candidate) /\ Len(kept') = 0
    BY <1>11
  <2> QED
    BY <1>1, <1>6, <1>11, <2>1, <2>2 DEF Phases, Ordered
<1>13. Reported'
  <2>1. items' \in Seq(ItemSet) /\ Len(items') = 0
    BY <1>1
  <2> QED
    BY <1>6, <1>11, <2>1 DEF Reported
<1> QED
  BY <1>6, <1>10, <1>12, <1>13 DEF IInv, AllowlistOnly, RecentSurvives

LEMMA ResolveKeeps == ASSUME IInv, Resolve PROVE IInv'
<1>1. /\ pc = "resolve" /\ kept' = Listing(fs, cfg, home) /\ seen' = {}
      /\ pc' = "judge" /\ UNCHANGED call
      /\ fs' = fs /\ items' = items /\ delegated' = delegated
  BY DEF Resolve
<1>2. /\ home' = home /\ scene' = scene /\ nth' = nth /\ cfg' = cfg /\ before' = before
      /\ warned' = warned
      /\ Asked' <=> Asked
      /\ \A x : Resolved(before, cfg, x)' <=> Resolved(before, cfg, x)
      /\ \A it : Fits(it)' <=> Fits(it)
  BY <1>1, SameCall
<1>3. Asked /\ fs = before /\ WellFormed(before) /\ cfg \in Config
  BY <1>1 DEF IInv, Phases, Basics
<1> DEFINE found == Candidates(before, cfg, home)
<1>4. Sortable(found) /\ \A x \in found : Resolved(before, cfg, x)
  BY <1>3, CandidatesAre DEF Asked
<1>5. kept' = dedupe_nested(found)
  BY <1>1, <1>3 DEF Listing
<1> HIDE DEF found
<1>6. Outer(found, kept', Cardinality(found))
  BY <1>4, <1>5, DedupeKeeps
<1>7. kept' \in Seq(found) /\ Ordered(kept')
  BY <1>6 DEF Outer, Ordered
<1>8. ASSUME NEW x \in found PROVE x \in Candidate
  BY <1>4 DEF Resolved, Candidate, Found
<1>9. kept' \in Seq(Candidate) /\ \A i \in 1 .. Len(kept') : Resolved(before, cfg, kept'[i])
  BY <1>4, <1>7, <1>8
<1>10. Phases'
  <2>1. \A i \in 1 .. Len(kept') : Resolved(before, cfg, kept[i])'
    BY <1>2, <1>9
  <2>2. delegated = {}
    BY <1>1 DEF IInv, Phases
  <2> QED
    BY <1>1, <1>2, <1>3, <1>7, <1>9, <2>1, <2>2 DEF Phases, Ordered
<1>11. Basics'
  BY <1>1, <1>2 DEF IInv, Basics
<1>12. Reported'
  BY <1>1, <1>2 DEF IInv, Reported, Gone, Fits
<1>13. Removals' = Removals /\ Gone' = Gone
  BY <1>1, <1>2 DEF Removals, Gone
<1>14. AllowlistOnly'
  BY <1>1, <1>13, AllowlistCarried DEF IInv
<1>15. RecentSurvives'
  BY <1>2, <1>13 DEF IInv, RecentSurvives
<1> QED
  BY <1>10, <1>11, <1>12, <1>14, <1>15 DEF IInv
(* The candidate a step of phase 3 is about.                               *)
LEMMA HeadIs ==
    ASSUME IInv, kept # << >>
    PROVE  /\ Head(kept) \in Candidate /\ Head(kept).path \in Path
           /\ Head(kept).target_idx \in DOMAIN catalog
           /\ Resolved(before, cfg, Head(kept))
<1>1. kept \in Seq(Candidate) /\ \A i \in 1 .. Len(kept) : Resolved(before, cfg, kept[i])
  BY DEF IInv, Phases
<1>2. 1 \in 1 .. Len(kept) /\ Head(kept) = kept[1]
  BY <1>1
<1>3. Head(kept) \in Candidate /\ Resolved(before, cfg, Head(kept))
  BY <1>1, <1>2, ElementType
<1> QED
  BY <1>3 DEF Candidate

LEMMA MoreCarried ==
    ASSUME items \in Seq(ItemSet), NEW it \in ItemSet, items' = Append(items, it)
    PROVE  \A i \in Removals : \E j \in Removals' : items'[j] = items[i]
<1> SUFFICES ASSUME NEW i \in Removals PROVE \E j \in Removals' : items'[j] = items[i]
  OBVIOUS
<1>1. i \in 1 .. Len(items) /\ items[i].reason \in {"deleted", "delete failed"}
  <2>1. DOMAIN items = 1 .. Len(items)
    OBVIOUS
  <2> QED
    BY <2>1 DEF Removals
<1>2. items'[i] = items[i] /\ i \in DOMAIN items'
  BY <1>1, OneItemMore
<1> QED
  BY <1>1, <1>2 DEF Removals

LEMMA JudgedIntact ==
    ASSUME IInv, pc = "judge", kept # << >>, NEW it \in ItemSet, Fits(it), Judged(it), fs' = fs
    PROVE  IInv'
<1>1. UNCHANGED call /\ items' = Append(items, it) /\ items \in Seq(ItemSet)
  BY DEF Judged, IInv, Reported
<1>2. before' = before /\ cfg' = cfg
  BY <1>1, SameCall
<1>3. Gone' = Gone
  BY <1>2 DEF Gone
<1>4. WellFormed(fs') /\ Remains(fs', before) /\ (Gone' # {} => cfg.apply)
  BY <1>3 DEF IInv, Basics, Reported
<1>5. Basics' /\ Phases' /\ Reported'
  BY <1>4, JudgedKeeps
<1>6. AllowlistOnly'
  BY <1>1, <1>3, MoreCarried, AllowlistCarried DEF IInv
<1>7. RecentSurvives'
  BY <1>2, <1>3 DEF IInv, RecentSurvives
<1> QED
  BY <1>5, <1>6, <1>7 DEF IInv

LEMMA SkipKeeps == ASSUME IInv, Skip PROVE IInv'
<1> DEFINE reason == Reason(Head(kept))
           it     == Item(Head(kept), reason)
<1>1. pc = "judge" /\ kept # << >> /\ reason # "ok" /\ Judged(it) /\ fs' = fs
  BY DEF Skip
<1>2. reason \in {"protected", "outside root", "missing", "in use", "needs a flag", "too new"}
  BY <1>1, ReasonIs
<1>3. it \in ItemSet /\ it.reason = reason
  <2> HIDE DEF reason
  <2>1. reason \in Reasons
    BY <1>2 DEF Reasons
  <2> QED
    BY <1>1, <2>1, HeadIs, ItemType DEF IInv, Basics
<1> HIDE DEF reason, it
<1>4. Fits(it)
  BY <1>2, <1>3 DEF Fits
<1> QED
  BY <1>1, <1>3, <1>4, JudgedIntact

LEMMA WouldDeleteKeeps == ASSUME IInv, WouldDelete PROVE IInv'
<1> DEFINE it == Item(Head(kept), "dry-run")
<1>1. pc = "judge" /\ kept # << >> /\ Judged(it) /\ fs' = fs
  BY DEF WouldDelete
<1>2. it \in ItemSet /\ it.reason = "dry-run"
  <2>1. "dry-run" \in Reasons
    BY DEF Reasons
  <2> QED
    BY <1>1, <2>1, HeadIs, ItemType DEF IInv, Basics
<1> HIDE DEF it
<1>3. Fits(it)
  BY <1>2 DEF Fits
<1> QED
  BY <1>1, <1>2, <1>3, JudgedIntact

LEMMA DeleteKeeps == ASSUME IInv, Delete PROVE IInv'
<1> DEFINE c    == Head(kept)
           e    == Entry(fs, c.path)
           tree == Tree(fs, e)
<1>1. /\ pc = "judge" /\ kept # << >> /\ Reason(c) = "ok" /\ cfg.apply
      /\ WellFormed(fs) /\ WellFormed(before) /\ Remains(fs, before)
  BY DEF Delete, IInv, Basics
<1>2. /\ c \in Candidate /\ c.path \in Path /\ c.target_idx \in DOMAIN catalog
      /\ Resolved(before, cfg, c)
  BY <1>1, HeadIs
<1>3. \E gone, reason : /\ reason \in {"deleted", "delete failed"} /\ Takes(tree, gone)
                        /\ fs' = Without(fs, gone, Now) /\ Judged(Item(c, reason))
  <2>1. remove_path(c.path) = tree
    BY DEF remove_path, RemovalTree
  <2> QED
    BY <2>1 DEF Delete, Takes
<1>4. PICK gone, reason : /\ reason \in {"deleted", "delete failed"} /\ Takes(tree, gone)
                          /\ fs' = Without(fs, gone, Now) /\ Judged(Item(c, reason))
  BY <1>3
<1> DEFINE it == Item(c, reason)
<1>5. e \in Places(fs) /\ e # <<"/">>
  BY <1>1, <1>2, EntryPlace DEF Resolved
<1>6. Closed(fs, gone) /\ gone \subseteq tree \cap Readable(fs, e)
  BY <1>1, <1>4, <1>5, GoneIs
<1>7. DOMAIN fs' = DOMAIN fs \ gone /\ Remains(fs', fs) /\ WellFormed(fs')
  BY <1>1, <1>4, <1>6, RemainsAtOnce, SystemAssumption
<1>8. Remains(fs', before)
  BY <1>1, <1>7, RemainsTransitive
<1>9. deletable(catalog[c.target_idx].tier, cfg) /\ ~too_new(fs, cfg, c)
  BY <1>1 DEF Reason, ReasonAt, gated, Target
<1>10. /\ it \in ItemSet /\ it.reason = reason /\ it.path = c.path
       /\ it.tier = catalog[c.target_idx].tier
  <2>1. reason \in Reasons
    BY <1>4 DEF Reasons
  <2> QED
    BY <1>1, <1>2, <2>1, ItemType
<1> HIDE DEF c
<1>11. Judged(it)
  BY <1>4
<1> HIDE DEF it
<1>12. Fits(it)
  <2>1. catalog[c.target_idx].tier = "vm-disk" => cfg.include_vm_disks
    BY <1>9 DEF deletable
  <2> QED
    BY <1>1, <1>4, <1>10, <2>1 DEF Fits
<1>13. UNCHANGED call /\ items' = Append(items, it) /\ items \in Seq(ItemSet)
  BY <1>11 DEF Judged, IInv, Reported
<1>14. before' = before /\ cfg' = cfg
  BY <1>13, SameCall
<1>15. Gone' \subseteq Gone \cup gone /\ gone \subseteq DOMAIN fs
  BY <1>6, <1>7, <1>14 DEF Gone, Tree
<1>16. Basics' /\ Phases' /\ Reported'
  BY <1>1, <1>7, <1>8, <1>10, <1>11, <1>12, JudgedKeeps
<1>17. ASSUME NEW q \in gone PROVE e # Nowhere /\ StartsWith(q, e)
  BY <1>6 DEF Tree
<1>18. AllowlistOnly'
  <2>1. ASSUME NEW q \in gone
        PROVE  \E i \in Removals' : /\ q \in Tree(before, Entry(before, items'[i].path))
                                    /\ Listed(Entry(before, items'[i].path))
    <3>1. Entry(before, c.path) = e
      BY <1>1, <1>2, <1>17, EntryRemains
    <3>2. Listed(e)
      BY <1>2, <1>9, <3>1, ListedIs DEF Resolved
    <3> DEFINE last == Len(items) + 1
    <3>3. last \in DOMAIN items' /\ items'[last] = it
      BY <1>10, <1>13, OneItemMore
    <3> HIDE DEF last
    <3>4. last \in Removals'
      BY <1>4, <1>10, <3>3 DEF Removals
    <3>5. q \in Tree(before, e)
      BY <1>1, <1>15, <1>17 DEF Tree, Remains
    <3> QED
      BY <1>10, <3>1, <3>2, <3>3, <3>4, <3>5
  <2>2. \A i \in Removals : \E j \in Removals' : items'[j] = items[i]
    BY <1>10, <1>13, MoreCarried
  <2>3. \A q \in Gone' : q \in Gone \/ \E i \in Removals' :
            q \in Tree(before, Entry(before, items'[i].path)) /\ Listed(Entry(before, items'[i].path))
    BY <1>15, <2>1
  <2> QED
    BY <1>13, <2>2, <2>3, AllowlistCarried DEF IInv
<1>19. RecentSurvives'
  <2>1. ASSUME cfg.min_age_days > 0, NEW q \in gone, before[q].type = "file"
        PROVE  before[q].mtime = 0 \/ Now - before[q].mtime >= cfg.min_age_days * Day
    <3> DEFINE newest == size_path(fs, c.path).newest
               days   == cfg.min_age_days
               mtime  == before[q].mtime
    <3>1. q \in DOMAIN fs /\ q \in Readable(fs, e)
      BY <1>6, <1>15
    <3>2. fs[q].type = "file" /\ fs[q].mtime = mtime
      BY <1>1, <2>1, <3>1 DEF Remains
    <3>3. newest \in Nat /\ mtime <= newest
      BY <1>1, <1>2, <3>1, <3>2, SizeIs
    <3>4. ~(days * Day > 0 /\ newest > 0 /\ Now - newest < days * Day)
      BY <1>9 DEF too_new
    <3>5. mtime \in Nat /\ days \in Nat /\ days > 0 /\ Now \in Nat
      BY <1>1, <2>1, <3>1, <3>2, NodeParts, SystemAssumption DEF IInv, Basics, Config
    <3> HIDE DEF newest, days, mtime
    <3>6. mtime = 0 \/ Now - mtime >= days * Day
      BY <3>3, <3>4, <3>5 DEF Day
    <3> QED
      BY <3>6 DEF days, mtime
  <2>2. cfg.min_age_days > 0 => \A q \in Gone : before[q].type = "file" =>
            before[q].mtime = 0 \/ Now - before[q].mtime >= cfg.min_age_days * Day
    BY DEF IInv, RecentSurvives
  <2> QED
    BY <1>14, <1>15, <2>1, <2>2 DEF RecentSurvives
<1> QED
  BY <1>16, <1>18, <1>19 DEF IInv
LEMMA RetainKeeps == ASSUME IInv, Retain PROVE IInv'
<1> DEFINE stays == {n \in DOMAIN items : ~(Matched(items[n].id) /\ items[n].reason = "missing")}
<1>1. /\ pc = "judge" /\ kept = << >> /\ items' = Retained(stays) /\ pc' = "delegate"
      /\ UNCHANGED call /\ fs' = fs /\ kept' = kept /\ seen' = seen
      /\ delegated' \subseteq DOMAIN catalog /\ (delegated' # {} => ~cfg.no_external)
  BY DEF Retain
<1>2. /\ scene' = scene /\ nth' = nth /\ cfg' = cfg /\ before' = before /\ warned' = warned
      /\ Asked' <=> Asked
      /\ \A it : Fits(it)' <=> Fits(it)
  BY <1>1, SameCall
<1>3. items \in Seq(ItemSet) /\ \A i \in 1 .. Len(items) : Fits(items[i])
  BY DEF IInv, Reported
<1>4. DOMAIN items = 1 .. Len(items)
  BY <1>3
<1>5. \A i \in Removals : i \in 1 .. Len(items) /\ i \in stays
  BY <1>4 DEF Removals
<1> HIDE DEF stays
<1>6. /\ items' \in Seq(ItemSet)
      /\ \A i \in 1 .. Len(items') : \E l \in 1 .. Len(items) : items'[i] = items[l]
      /\ \A l \in 1 .. Len(items) : l \in stays => \E i \in 1 .. Len(items') : items'[i] = items[l]
  <2>1. Picks(ItemSet, items', stays, Len(items))
    BY <1>1, <1>3, RetainedIs
  <2> QED
    BY <2>1 DEF Picks
<1>7. Gone' = Gone
  BY <1>1, <1>2 DEF Gone
<1>8. Basics'
  BY <1>1, <1>2 DEF IInv, Basics
<1>9. Phases'
  <2>1. Asked
    BY <1>1 DEF IInv, Phases
  <2>2. kept' = << >> /\ kept' \in Seq(Candidate) /\ Len(kept') = 0
    BY <1>1
  <2> QED
    BY <1>1, <1>2, <2>1, <2>2 DEF Phases, Ordered
<1>10. Reported'
  <2>1. \A i \in 1 .. Len(items') : Fits(items'[i])
    BY <1>3, <1>6
  <2>2. \A i \in 1 .. Len(items') : Fits(items[i])'
    BY <1>2, <2>1 DEF Fits
  <2> QED
    BY <1>1, <1>2, <1>6, <1>7, <2>2 DEF IInv, Reported
<1>11. AllowlistOnly'
  <2>1. ASSUME NEW i \in Removals PROVE \E j \in Removals' : items'[j] = items[i]
    <3>1. PICK j \in 1 .. Len(items') : items'[j] = items[i]
      BY <1>5, <1>6
    <3>2. j \in DOMAIN items'
      BY <1>6
    <3> QED
      BY <3>1, <3>2 DEF Removals
  <2> QED
    BY <1>1, <1>7, <2>1, AllowlistCarried DEF IInv
<1>12. RecentSurvives'
  BY <1>2, <1>7 DEF IInv, RecentSurvives
<1> QED
  BY <1>8, <1>9, <1>10, <1>11, <1>12 DEF IInv

LEMMA HandleExternalKeeps == ASSUME IInv, handle_external PROVE IInv'
<1> DEFINE next          == Min(delegated)
           t             == catalog[next]
           it(v, reason) == [id |-> t.id, tier |-> t.tier, path |-> Nowhere,
                             verdict |-> v, reason |-> reason, bytes |-> 0]
<1>1. /\ pc = "delegate" /\ delegated # {} /\ delegated' = delegated \ {next}
      /\ UNCHANGED call /\ fs' = fs /\ pc' = pc /\ kept' = kept /\ seen' = seen
  BY DEF handle_external
<1>2. \E v \in {"reclaimable", "skipped"} :
          \E reason \in {"not installed", "dry-run", "ran", "command failed"} :
              /\ items' = Append(items, it(v, reason))
              /\ reason \in {"ran", "command failed"} => cfg.apply
  BY DEF handle_external
<1>3. PICK v \in {"reclaimable", "skipped"},
           reason \in {"not installed", "dry-run", "ran", "command failed"} :
               /\ items' = Append(items, it(v, reason))
               /\ reason \in {"ran", "command failed"} => cfg.apply
  BY <1>2
<1> DEFINE new == it(v, reason)
<1>4. /\ scene' = scene /\ nth' = nth /\ cfg' = cfg /\ before' = before /\ warned' = warned
      /\ Asked' <=> Asked
      /\ \A it_1 : Fits(it_1)' <=> Fits(it_1)
  BY <1>1, SameCall
<1>5. next \in DOMAIN catalog
  <2>1. delegated \in SUBSET Nat /\ delegated \subseteq DOMAIN catalog
    BY CatalogIs DEF IInv, Basics
  <2> QED
    BY <1>1, <2>1, MinOf
<1> HIDE DEF next
<1>6. new \in ItemSet /\ new.reason = reason
  <2>1. Nowhere \in Path
    BY EmptyList DEF Nowhere, Path
  <2> QED
    BY <1>5, <2>1 DEF ItemSet, Reasons
<1>7. items' = Append(items, new)
  BY <1>3
<1> HIDE DEF new
<1>8. items \in Seq(ItemSet) /\ \A i \in 1 .. Len(items) : Fits(items[i])
  BY DEF IInv, Reported
<1>9. Gone' = Gone
  BY <1>1, <1>4 DEF Gone
<1>10. Basics'
  BY <1>1, <1>4 DEF IInv, Basics
<1>11. Phases'
  <2>1. Asked /\ kept' = << >>
    BY <1>1 DEF IInv, Phases
  <2>2. kept' \in Seq(Candidate) /\ \A i : i \notin 1 .. Len(kept')
    BY <2>1, EmptyList
  <2> QED
    BY <1>1, <1>4, <2>1, <2>2 DEF Phases, Ordered
<1>12. Reported'
  <2>1. Fits(new)
    BY <1>1, <1>3, <1>6 DEF Fits, IInv, Reported
  <2>2. \A i \in 1 .. Len(items') : Fits(items'[i])
    BY <1>6, <1>7, <1>8, <2>1, OneItemMore
  <2>3. \A i \in 1 .. Len(items') : Fits(items[i])'
    BY <1>4, <2>2 DEF Fits
  <2>4. items' \in Seq(ItemSet)
    BY <1>6, <1>7, <1>8, OneItemMore
  <2> QED
    BY <1>1, <1>4, <1>9, <2>3, <2>4 DEF IInv, Reported
<1>13. AllowlistOnly'
  BY <1>1, <1>6, <1>7, <1>8, <1>9, MoreCarried, AllowlistCarried DEF IInv
<1>14. RecentSurvives'
  BY <1>4, <1>9 DEF IInv, RecentSurvives
<1> QED
  BY <1>10, <1>11, <1>12, <1>13, <1>14 DEF IInv

LEMMA QuietKeeps ==
    ASSUME IInv, UNCHANGED call, fs' = fs, kept' = kept, seen' = seen, items' = items,
           delegated' = delegated,
           pc' = pc \/ (pc' = "called" /\ pc = "delegate" /\ delegated = {})
    PROVE  IInv'
<1>1. /\ scene' = scene /\ nth' = nth /\ cfg' = cfg /\ before' = before /\ warned' = warned
      /\ Asked' <=> Asked
      /\ \A x : Resolved(before, cfg, x)' <=> Resolved(before, cfg, x)
      /\ \A it : Fits(it)' <=> Fits(it)
  BY SameCall
<1>2. Gone' = Gone /\ Removals' = Removals
  BY <1>1 DEF Gone, Removals
<1>3. Basics'
  BY <1>1 DEF IInv, Basics
<1>4. Phases'
  <2>1. \A i \in 1 .. Len(kept') : Resolved(before, cfg, kept[i])'
    <3>1. \A i \in 1 .. Len(kept') : Resolved(before, cfg, kept'[i])
      BY DEF IInv, Phases
    <3> QED
      BY <1>1, <3>1
  <2> QED
    BY <1>1, <1>2, <2>1 DEF IInv, Phases, Ordered
<1>5. Reported'
  <2>1. \A i \in 1 .. Len(items') : Fits(items[i])'
    BY <1>1 DEF IInv, Reported, Fits
  <2> QED
    BY <1>1, <1>2, <2>1 DEF IInv, Reported
<1>6. AllowlistOnly'
  BY <1>2, AllowlistCarried DEF IInv
<1>7. RecentSurvives'
  BY <1>1, <1>2 DEF IInv, RecentSurvives
<1> QED
  BY <1>3, <1>4, <1>5, <1>6, <1>7 DEF IInv

LEMMA NextKeeps == ASSUME IInv, [Next]_vars PROVE IInv'
<1>1. ASSUME Finish PROVE IInv'
  BY <1>1, QuietKeeps DEF Finish
<1>2. ASSUME UNCHANGED vars PROVE IInv'
  BY <1>2, QuietKeeps DEF vars
<1> QED
  BY <1>1, <1>2, CallKeeps, ResolveKeeps, SkipKeeps, WouldDeleteKeeps, DeleteKeeps, RetainKeeps,
     HandleExternalKeeps DEF Next

LEMMA InvariantHolds == Spec => []IInv
<1>1. Init => IInv
  BY InitKeeps
<1>2. IInv /\ [Next]_vars => IInv'
  BY NextKeeps
<1> QED
  BY <1>1, <1>2, PTL DEF Spec

-----------------------------------------------------------------------------
(* Whatever the calls, the disk stays a file system of what was there, the *)
(* phases hand on what the next one relies on, and what phase 2 keeps is   *)
(* sorted, without a path inside another (run and dedupe_nested).          *)
THEOREM CallsWellFormed == Spec => []TypeOK
<1>1. IInv => TypeOK
  <2> SUFFICES ASSUME IInv PROVE TypeOK
    OBVIOUS
  <2>1. /\ WellFormed(fs) /\ WellFormed(before) /\ DOMAIN fs \subseteq DOMAIN before
        /\ nth \in 0 .. Len(scene.calls)
        /\ cfg.min_age_days \in Nat /\ cfg.top \in Nat /\ warned \in BOOLEAN
        /\ pc \in {"called", "resolve", "judge", "delegate"}
        /\ seen \cup delegated \subseteq DOMAIN catalog
    BY DEF IInv, Basics, Remains, Config
  <2>2. \A i \in DOMAIN kept : \A j \in 1 .. i - 1 :
            ~StartsWith(kept[i].path, kept[j].path) /\ SortsBefore(kept[j], kept[i])
    BY DEF IInv, Phases, Ordered
  <2>3. ASSUME NEW i \in DOMAIN items
        PROVE  items[i].verdict \in {"reclaimable", "skipped"} /\ items[i].bytes \in Nat
    <3>1. items \in Seq(ItemSet)
      BY DEF IInv, Reported
    <3>2. items[i] \in ItemSet
      BY <3>1
    <3> QED
      BY <3>2 DEF ItemSet
  <2> QED
    BY <2>1, <2>2, <2>3 DEF TypeOK
<1> QED
  BY <1>1, InvariantHolds, PTL

(* Only what the allowlist names ever disappears, and the report says so:  *)
(* for every disk, links and unreadable directories included, every list   *)
(* of arguments and any number of calls (run, push_item and remove_path).  *)
THEOREM DeletesAllowlisted == Spec => []AllowlistOnly
<1>1. IInv => AllowlistOnly
  BY DEF IInv
<1> QED
  BY <1>1, InvariantHolds, PTL

(* Nothing is deleted without --apply, no VM disk without its flag, and no *)
(* tool's own cleanup runs after --no-external, or unannounced under       *)
(* another home: whatever the arguments and their order (main, parse_args, *)
(* push_item and handle_external).                                         *)
THEOREM ObeysArguments == Spec => []ActsAsAsked
<1>1. IInv => ActsAsAsked
  <2> SUFFICES ASSUME IInv PROVE ActsAsAsked
    OBVIOUS
  <2>1. ASSUME Asked
        PROVE  /\ cfg.apply => Given(args, "--apply")
               /\ cfg.include_vm_disks => Given(args, "--include-vm-disks")
               /\ ~cfg.no_external => ~Given(args, "--no-external")
               /\ cfg.apply /\ ~cfg.no_external => warned \/ ~home_is_overridden(home)
    <3>1. args \in Seq(DOMAIN Paths)
      <4>1. scene.calls \in Seq([home : Path, args : Seq(DOMAIN Paths)])
        BY SystemAssumption DEF IInv, Basics
      <4>2. nth \in 1 .. Len(scene.calls)
        <5>1. nth \in 0 .. Len(scene.calls) /\ nth > 0
          BY <2>1 DEF Asked, IInv, Basics
        <5> QED
          BY <5>1
      <4>3. scene.calls[nth] \in [home : Path, args : Seq(DOMAIN Paths)]
        BY <4>1, <4>2, ElementType
      <4> QED
        BY <4>3 DEF args
    <3>2. \A o \in Flags : cfg[Switch[o]] <=> Given(args, o)
      BY <2>1, <3>1, ParsesAsGiven DEF Asked
    <3>3. /\ cfg.apply <=> Given(args, "--apply")
          /\ cfg.include_vm_disks <=> Given(args, "--include-vm-disks")
          /\ cfg.no_external <=> Given(args, "--no-external")
      BY <3>2, SwitchIs DEF Flags
    <3> QED
      BY <2>1, <3>3 DEF Asked
  <2>2. Gone # {} => Asked /\ cfg.apply
    BY DEF IInv, Phases, Reported
  <2>3. ASSUME NEW i \in DOMAIN items PROVE Asked /\ Fits(items[i])
    <3>1. items \in Seq(ItemSet)
      BY DEF IInv, Reported
    <3>2. i \in 1 .. Len(items) /\ items # << >>
      BY <3>1
    <3> QED
      BY <3>2 DEF IInv, Phases, Reported
  <2>4. \A i \in Removals : items[i].tier = "vm-disk" => Given(args, "--include-vm-disks")
    BY <2>1, <2>3 DEF Removals, Fits
  <2>5. \A i \in DOMAIN items : items[i].reason \in {"ran", "command failed"} =>
            /\ Given(args, "--apply") /\ ~Given(args, "--no-external")
            /\ warned \/ LoginHomes = {} \/ home \in LoginHomes
    BY <2>1, <2>3 DEF Fits, home_is_overridden
  <2> QED
    BY <2>1, <2>2, <2>4, <2>5 DEF ActsAsAsked
<1> QED
  BY <1>1, InvariantHolds, PTL

(* No call deletes a file younger than --min-age-days, even where a        *)
(* directory could not be read (run, size_into and remove_path).           *)
THEOREM SparesRecent == Spec => []RecentSurvives
<1>1. IInv => RecentSurvives
  BY DEF IInv
<1> QED
  BY <1>1, InvariantHolds, PTL
=============================================================================
