-------------------------------- MODULE Sweep --------------------------------
(***************************************************************************)
(* What a call of cachewipe promises, in one step: it looks at the disk    *)
(* once, before it touches anything, and from that look alone follows what *)
(* goes and what the report adds up to.  A dry run takes nothing.  Where   *)
(* no link leads a path astray, a call that deletes takes what is doomed,  *)
(* and nothing else even if removals fail, which may leave anything.       *)
(* Cachewipe, which judges one candidate after the other on the disk that  *)
(* the removals before it have left, implements it.                        *)
(***************************************************************************)
EXTENDS Naturals, Sequences

CONSTANTS
    WellFormed(_),             \* is this a disk
    Without(_, _, _),          \* a disk after these entries have gone, at a time
    Now,
    Direct(_), Plain(_),       \* is there no link that leads a path astray
    Doomed(_, _, _),           \* what a configuration takes from a disk, for a home
    Worth(_, _, _)             \* and how many bytes that is

VARIABLES
    scene,
    disk,
    told      \* the reports so far

vars == <<scene, disk, told>>

Init == WellFormed(disk) /\ told = << >>

Complete(r) == \A i \in DOMAIN r.items : r.items[i].reason # "delete failed"

Sweep ==
    /\ told' # << >>
    /\ LET r    == told'[Len(told')]
           gone == DOMAIN disk \ DOMAIN disk'
           due  == Doomed(disk, r.cfg, r.home)
       IN  /\ told' = Append(told, r)
           /\ disk' = Without(disk, gone, Now)
           /\ ~r.cfg.apply => gone = {} /\ r.total_reclaimable = Worth(disk, r.cfg, r.home)
           /\ Direct(scene) /\ Plain(scene) =>
                  /\ gone \subseteq due
                  /\ r.cfg.apply /\ Complete(r) =>
                         gone = due /\ r.total_deleted = Worth(disk, r.cfg, r.home)
    /\ UNCHANGED scene

Spec == Init /\ [][Sweep]_vars
=============================================================================
