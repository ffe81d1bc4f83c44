---------------------------- MODULE CommandLine ----------------------------
(***************************************************************************)
(* parse_args and the first half of main (src/main.rs): what a call is     *)
(* asked to do, read from its arguments and its environment.               *)
(***************************************************************************)
EXTENDS FileSystem

CONSTANTS
    Numbers,     \* the arguments that are a number, with their value
    Paths,       \* the path an argument stands for
    LoginHomes   \* the conventional homes of $USER, none if it is not set

(* Every argument stands for some path, some for a number as well.         *)
ASSUME CommandLineAssumption ==
    /\ Paths \in [DOMAIN Paths -> Path] /\ Numbers \in [DOMAIN Numbers -> Nat]
    /\ DOMAIN Numbers \subseteq DOMAIN Paths /\ DOMAIN Paths \subseteq STRING

Defaults == [apply |-> FALSE, include_os_caches |-> FALSE, include_vm_disks |-> FALSE,
             no_external |-> FALSE, json |-> FALSE, min_age_days |-> 0, top |-> 12,
             scan_roots |-> << >>]

(* Options that set a field of the configuration, and those with a value.  *)
Switch ==
    [a \in {"--apply", "--json", "--no-external", "--include-os-caches", "--include-vm-disks"} |->
        CASE a = "--apply"       -> "apply"
          [] a = "--json"        -> "json"
          [] a = "--no-external" -> "no_external"
          [] a = "--include-os-caches" -> "include_os_caches"
          [] a = "--include-vm-disks"  -> "include_vm_disks"]

Valued ==
    [a \in {"--min-age-days", "--top", "--root"} |->
        CASE a = "--min-age-days" -> "min_age_days"
          [] a = "--top"          -> "top"
          [] a = "--root"         -> "scan_roots"]

(* A parse has read the arguments so far into cfg, waits for the value of  *)
(* the option `wants`, or has ended the program.                           *)
Value(p, a) ==
    IF p.wants = "scan_roots"
    THEN [p EXCEPT !.cfg.scan_roots = Append(@, Paths[a]), !.wants = ""]
    ELSE IF a \in DOMAIN Numbers THEN [p EXCEPT !.cfg[p.wants] = Numbers[a], !.wants = ""]
    ELSE [p EXCEPT !.ends = "error"]

Option(p, a) ==
    IF a \in DOMAIN Switch         THEN [p EXCEPT !.cfg[Switch[a]] = TRUE]
    ELSE IF a \in DOMAIN Valued    THEN [p EXCEPT !.wants = Valued[a]]
    ELSE IF a \in {"-h", "--help"} THEN [p EXCEPT !.ends = "help"]
    ELSE [p EXCEPT !.ends = "error"]

(* Mutant: what looks like an option is none's value.                      *)
TakeLoosely(p, a) ==
    IF p.ends # "" THEN p
    ELSE IF p.wants # "" /\ a \notin DOMAIN Switch THEN Value(p, a) ELSE Option(p, a)

(* An option that takes a value takes whatever comes next.                 *)
Take(p, a) ==
    IF p.ends # "" THEN p ELSE IF p.wants # "" THEN Value(p, a) ELSE Option(p, a)

Parsed(args) ==
    LET p[n \in 0 .. Len(args)] ==
            IF n = 0 THEN [cfg |-> Defaults, wants |-> "", ends |-> ""]
            ELSE Take(p[n - 1], args[n])
    IN  p[Len(args)]

parse_args(args) ==
    IF Parsed(args).wants # "" THEN [Parsed(args) EXCEPT !.ends = "error"] ELSE Parsed(args)

(* No $USER, no opinion.                                                   *)
home_is_overridden(home) == LoginHomes # {} /\ home \notin LoginHomes

-----------------------------------------------------------------------------
(* What the arguments ask for, told without a parser: one is the value of  *)
(* the option before it if an odd number of such options precede it.       *)
IsValue(args, i) ==
    \E k \in 0 .. i - 1 :
        /\ k % 2 = 1
        /\ \A j \in i - k .. i - 1 : args[j] \in DOMAIN Valued
        /\ i - k > 1 => args[i - k - 1] \notin DOMAIN Valued

Given(args, option) == \E i \in DOMAIN args : args[i] = option /\ ~IsValue(args, i)
=============================================================================
