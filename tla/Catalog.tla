------------------------------ MODULE Catalog ------------------------------
(***************************************************************************)
(* src/targets.rs: the targets cachewipe may delete, and the tiers that    *)
(* decide which of them the flags let it delete.  Prose (what a target     *)
(* regenerates from) is left out.                                          *)
(***************************************************************************)
EXTENDS FileSystem

CONSTANTS
    Enabled,   \* the targets of this instance: all of them, or a few for TLC
    Stem       \* names with a "-": the text before their last one

default_on(tier)      == tier \notin {"os-cache", "vm-disk"}
always_reported(tier) == tier = "vm-disk"

(* deletable, of src/main.rs                                               *)
deletable(tier, cfg) ==
    CASE tier = "os-cache" -> cfg.include_os_caches
      [] tier = "vm-disk"  -> cfg.include_vm_disks
      [] OTHER             -> default_on(tier)

(* The kinds of target; fields a kind does not have are empty.             *)
HomeDirs(id, tier, subs) ==
    [id |-> id, tier |-> tier, kind |-> "HomeDirs", subs |-> subs, keep |-> 0,
     name |-> "", siblings |-> {}]
VersionedDirs(id, subs, keep) ==
    [id |-> id, tier |-> "package-cache", kind |-> "VersionedDirs", subs |-> subs,
     keep |-> keep, name |-> "", siblings |-> {}]
NamedDirUnder(id, name, siblings) ==
    [id |-> id, tier |-> "build-artifact", kind |-> "NamedDirUnder", subs |-> << >>,
     keep |-> 0, name |-> name, siblings |-> siblings]
External(id, tier) ==
    [id |-> id, tier |-> tier, kind |-> "External", subs |-> << >>, keep |-> 0,
     name |-> "", siblings |-> {}]

Library(name) == <<"Library", "Caches", name>>

package_cache(id, subs) == HomeDirs(id, "package-cache", subs)
vm_disk(id, sub)        == HomeDirs(id, "vm-disk", <<sub>>)
os_cache(id, name)      == HomeDirs(id, "os-cache", <<Library(name)>>)

PackageCaches == <<
    package_cache("uv", << <<".cache", "uv">>, Library("uv") >>),
    package_cache("pip", << <<".cache", "pip">>, Library("pip") >>),
    package_cache("npm", << <<".npm", "_cacache">> >>),
    package_cache("npx", << <<".npm", "_npx">> >>),
    package_cache("yarn", << <<".cache", "yarn">>, Library("Yarn") >>),
    package_cache("pnpm", << <<".local", "share", "pnpm", "store">>, <<"Library", "pnpm", "store">> >>),
    package_cache("cargo-registry", << <<".cargo", "registry", "cache">> >>),
    package_cache("go-mod", << <<"go", "pkg", "mod", "cache", "download">> >>),
    package_cache("gradle", << <<".gradle", "caches">> >>),
    package_cache("huggingface", << <<".cache", "huggingface">> >>) >>

ToolInstalls == <<
    VersionedDirs("puppeteer", << <<".cache", "puppeteer", "chrome">>,
                                  <<".cache", "puppeteer", "chrome-headless-shell">>,
                                  <<".cache", "puppeteer", "firefox">> >>, 1),
    VersionedDirs("playwright", << Library("ms-playwright"), <<".cache", "ms-playwright">> >>, 1) >>

BuildArtifacts == <<
    NamedDirUnder("node_modules", "node_modules", {}),
    NamedDirUnder("venv", ".venv", {}),
    NamedDirUnder("next", ".next", {}),
    NamedDirUnder("cargo-target", "target",
                  {"Cargo.toml", "pom.xml", "build.gradle", "build.gradle.kts"}),
    NamedDirUnder("pycache", "__pycache__", {}) >>

Delegated == << External("docker", "docker"), External("homebrew", "package-cache") >>

VmDisks == <<
    vm_disk("docker-desktop-disk", <<"Library", "Containers", "com.docker.docker", "Data", "vms",
                                "0", "data", "Docker.raw">>),
    vm_disk("finch-disk", <<".finch", ".disks">>),
    vm_disk("lima-disk", <<".lima">>),
    vm_disk("colima-disk", <<".colima">>),
    vm_disk("podman-disk", <<".local", "share", "containers", "podman">>) >>

OsCaches == <<
    os_cache("spotify-cache", "com.spotify.client"),
    os_cache("firefox-cache", "Firefox"),
    os_cache("chrome-cache", "Google"),
    os_cache("jsii-cache", "com.amazonaws.jsii") >>

AllTargets ==
    PackageCaches \o ToolInstalls \o BuildArtifacts \o Delegated \o VmDisks \o OsCaches

catalog == Restrict(AllTargets, {idx \in DOMAIN AllTargets : AllTargets[idx].id \in Enabled})

(* Names gives a rank to every name the targets of this instance mention.  *)
ASSUME CatalogAssumption ==
    \A idx \in DOMAIN catalog : /\ catalog[idx].subs \in Seq(Path)
                                /\ catalog[idx].siblings \subseteq Component \ Special

home_path(home, sub) == home \o sub

(* A name without a "-" is a group of its own, which it shares with the    *)
(* names that have it in front of their last "-".                          *)
version_group(name) == IF name \in DOMAIN Stem THEN Stem[name] ELSE name
=============================================================================
