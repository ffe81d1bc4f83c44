------------------------- MODULE CommandLineProofs -------------------------
(* Proofs about CommandLine, for any arguments: the parser does what the   *)
(* arguments say.                                                          *)
EXTENDS CommandLine, FileSystemProofs

Flags  == {"--apply", "--json", "--no-external", "--include-os-caches", "--include-vm-disks"}
Wants  == {"min_age_days", "top", "scan_roots"}
Config == [apply : BOOLEAN, include_os_caches : BOOLEAN, include_vm_disks : BOOLEAN,
           no_external : BOOLEAN, json : BOOLEAN, min_age_days : Nat, top : Nat,
           scan_roots : Seq(Path)]
Parse  == [cfg : Config, wants : Wants \cup {""}, ends : {"", "error", "help"}]

LEMMA SwitchIs ==
    /\ DOMAIN Switch = Flags
    /\ Switch["--apply"] = "apply" /\ Switch["--json"] = "json"
    /\ Switch["--no-external"] = "no_external"
    /\ Switch["--include-os-caches"] = "include_os_caches"
    /\ Switch["--include-vm-disks"] = "include_vm_disks"
  BY DEF Switch, Flags

LEMMA ValuedIs ==
    /\ DOMAIN Valued = {"--min-age-days", "--top", "--root"}
    /\ Valued["--min-age-days"] = "min_age_days" /\ Valued["--top"] = "top"
    /\ Valued["--root"] = "scan_roots"
  BY DEF Valued

LEMMA DefaultsType == Defaults \in Config
  BY DEF Defaults, Config

LEMMA AppendType == ASSUME NEW S, NEW s \in Seq(S), NEW e \in S PROVE Append(s, e) \in Seq(S)
  OBVIOUS

(* One argument more.                                                      *)
LEMMA ValueType ==
    ASSUME NEW p \in Parse, p.wants # "", NEW a \in DOMAIN Paths
    PROVE  /\ Value(p, a) \in Parse
           /\ \A o \in Flags : Value(p, a).cfg[Switch[o]] = p.cfg[Switch[o]]
           /\ Value(p, a).ends = "" => p.ends = "" /\ Value(p, a).wants = ""
<1>1. p.cfg \in Config /\ p.wants \in Wants /\ p.ends \in {"", "error", "help"}
  BY DEF Parse
<1>2. \A o \in Flags : Switch[o] \in {"apply", "json", "no_external", "include_os_caches",
                                       "include_vm_disks"}
  BY SwitchIs DEF Flags
<1>3. CASE p.wants = "scan_roots"
  <2> DEFINE r == Append(p.cfg.scan_roots, Paths[a])
  <2>1. r \in Seq(Path)
    <3>1. p.cfg.scan_roots \in Seq(Path)
      BY <1>1 DEF Config
    <3>2. Paths[a] \in Path
      BY CommandLineAssumption
    <3> QED
      BY <3>1, <3>2, AppendType
  <2> HIDE DEF r
  <2> DEFINE c == [p.cfg EXCEPT !.scan_roots = r]
  <2>2. Value(p, a) = [p EXCEPT !.cfg = c, !.wants = ""]
    BY <1>3 DEF Value, r
  <2>3. c \in Config
    BY <1>1, <2>1 DEF Config
  <2>4. \A o \in Flags : c[Switch[o]] = p.cfg[Switch[o]]
    BY <1>1, <1>2 DEF Config
  <2> HIDE DEF c
  <2>5. Value(p, a) \in Parse
    BY <2>2, <2>3 DEF Parse
  <2>6. Value(p, a).ends = p.ends /\ Value(p, a).wants = "" /\ Value(p, a).cfg = c
    BY <2>2 DEF Parse
  <2> QED
    BY <2>4, <2>5, <2>6
<1>4. CASE p.wants # "scan_roots" /\ a \in DOMAIN Numbers
  <2>1. Numbers[a] \in Nat
    BY <1>4, CommandLineAssumption
  <2> DEFINE c == [p.cfg EXCEPT ![p.wants] = Numbers[a]]
  <2>2. Value(p, a) = [p EXCEPT !.cfg = c, !.wants = ""]
    BY <1>4 DEF Value
  <2>3. p.wants = "min_age_days" \/ p.wants = "top"
    BY <1>1, <1>4 DEF Wants
  <2>4. c \in Config
    BY <1>1, <2>1, <2>3 DEF Config
  <2>5. \A o \in Flags : c[Switch[o]] = p.cfg[Switch[o]]
    BY <1>1, <1>2, <2>3 DEF Config
  <2> HIDE DEF c
  <2>6. Value(p, a) \in Parse
    BY <2>2, <2>4 DEF Parse
  <2>7. Value(p, a).ends = p.ends /\ Value(p, a).wants = "" /\ Value(p, a).cfg = c
    BY <2>2 DEF Parse
  <2> QED
    BY <2>5, <2>6, <2>7
<1>5. CASE p.wants # "scan_roots" /\ a \notin DOMAIN Numbers
  BY <1>5 DEF Value, Parse
<1> QED
  BY <1>3, <1>4, <1>5

LEMMA OptionType ==
    ASSUME NEW p \in Parse, p.wants = "", NEW a
    PROVE  /\ Option(p, a) \in Parse
           /\ Option(p, a).ends = "" =>
                  /\ p.ends = ""
                  /\ Option(p, a).wants # "" <=> a \in DOMAIN Valued
                  /\ \A o \in Flags : Option(p, a).cfg[Switch[o]] <=> p.cfg[Switch[o]] \/ a = o
<1>1. p.cfg \in Config /\ p.wants \in Wants \cup {""} /\ p.ends \in {"", "error", "help"}
  BY DEF Parse
<1>2. \A o \in Flags : Switch[o] \in {"apply", "json", "no_external", "include_os_caches",
                                       "include_vm_disks"}
  BY SwitchIs DEF Flags
<1>3. \A o \in Flags : p.cfg[Switch[o]] \in BOOLEAN
  BY <1>1, <1>2 DEF Config
<1>4. CASE a \in Flags
  <2>1. Option(p, a) = [p EXCEPT !.cfg[Switch[a]] = TRUE]
    BY <1>4, SwitchIs DEF Option
  <2>2. Option(p, a) \in Parse /\ Option(p, a).ends = p.ends /\ Option(p, a).wants = ""
    <3> DEFINE new(f) == [p EXCEPT !.cfg[f] = TRUE]
    <3>1. ASSUME NEW f \in {"apply", "json", "no_external", "include_os_caches", "include_vm_disks"}
          PROVE  new(f) \in Parse /\ new(f).ends = p.ends /\ new(f).wants = p.wants
      <4>1. [p.cfg EXCEPT ![f] = TRUE] \in Config
        BY <1>1 DEF Config
      <4> DEFINE c == [p.cfg EXCEPT ![f] = TRUE]
      <4>2. new(f) = [p EXCEPT !.cfg = c]
        BY DEF Parse
      <4> HIDE DEF new, c
      <4>3. c \in Config
        BY <4>1 DEF c
      <4> QED
        BY <4>2, <4>3 DEF Parse
    <3> QED
      BY <1>2, <1>4, <2>1, <3>1
  <2>3. a \notin DOMAIN Valued
    BY <1>4, ValuedIs DEF Flags
  <2>4. Option(p, a).cfg[Switch[a]] = TRUE
    BY <1>1, <1>2, <1>4, <2>1 DEF Parse, Config
  <2>5. \A o \in Flags : o # a => Switch[o] # Switch[a]
    BY <1>4, SwitchIs DEF Flags
  <2>6. \A o \in Flags : o # a => Option(p, a).cfg[Switch[o]] = p.cfg[Switch[o]]
    BY <1>1, <1>2, <1>4, <2>1, <2>5 DEF Parse, Config
  <2> QED
    BY <2>2, <2>3, <2>4, <2>6
<1>5. CASE a \notin Flags /\ a \in DOMAIN Valued
  <2>1. Option(p, a) = [p EXCEPT !.wants = Valued[a]]
    BY <1>5, SwitchIs DEF Option
  <2>2. Valued[a] \in Wants /\ Valued[a] # ""
    BY <1>5, ValuedIs DEF Wants
  <2>3. /\ Option(p, a) \in Parse /\ Option(p, a).ends = p.ends
        /\ Option(p, a).wants # "" /\ Option(p, a).cfg = p.cfg
    BY <1>1, <2>1, <2>2 DEF Parse
  <2> QED
    BY <1>5, <2>3
<1>6. CASE a \notin Flags /\ a \notin DOMAIN Valued
  <2>1. Option(p, a) = [p EXCEPT !.ends = "help"] \/ Option(p, a) = [p EXCEPT !.ends = "error"]
    BY <1>6, SwitchIs DEF Option
  <2> QED
    BY <1>1, <2>1 DEF Parse
<1> QED
  BY <1>4, <1>5, <1>6

-----------------------------------------------------------------------------
(* Whether an argument is another option's value depends on the one before *)
(* it alone: the options with a value that precede it are counted off in   *)
(* pairs.                                                                  *)
Run(args, i, k) ==
    /\ k \in 0 .. i - 1
    /\ \A j \in i - k .. i - 1 : args[j] \in DOMAIN Valued
    /\ i - k > 1 => args[i - k - 1] \notin DOMAIN Valued

LEMMA RunUnique ==
    ASSUME NEW args, NEW i \in Nat, NEW k, NEW m, Run(args, i, k), Run(args, i, m)
    PROVE  k = m
<1>1. k \in 0 .. i - 1 /\ m \in 0 .. i - 1
  BY DEF Run
<1>2. ~(k < m)
  <2> SUFFICES ASSUME k < m PROVE FALSE
    OBVIOUS
  <2>1. i - k > 1 /\ i - k - 1 \in i - m .. i - 1
    BY <1>1
  <2> QED
    BY <2>1 DEF Run
<1>3. ~(m < k)
  <2> SUFFICES ASSUME m < k PROVE FALSE
    OBVIOUS
  <2>1. i - m > 1 /\ i - m - 1 \in i - k .. i - 1
    BY <1>1
  <2> QED
    BY <2>1 DEF Run
<1> QED
  BY <1>1, <1>2, <1>3

LEMMA RunLonger ==
    ASSUME NEW args, NEW i \in Nat, i > 1, args[i - 1] \in DOMAIN Valued, NEW k, Run(args, i - 1, k)
    PROVE  Run(args, i, k + 1)
<1>1. k \in 0 .. i - 2 /\ k + 1 \in 0 .. i - 1
  BY DEF Run
<1>2. ASSUME NEW j \in i - (k + 1) .. i - 1 PROVE args[j] \in DOMAIN Valued
  <2>1. j = i - 1 \/ j \in i - 1 - k .. i - 1 - 1
    BY <1>1
  <2> QED
    BY <2>1 DEF Run
<1>3. i - (k + 1) = i - 1 - k /\ i - (k + 1) - 1 = i - 1 - k - 1
  BY <1>1
<1>4. i - (k + 1) > 1 => args[i - (k + 1) - 1] \notin DOMAIN Valued
  BY <1>3 DEF Run
<1> QED
  BY <1>1, <1>2, <1>4 DEF Run

LEMMA RunExists == ASSUME NEW args, NEW i \in Nat \ {0} PROVE \E k : Run(args, i, k)
<1> DEFINE A == {n \in Nat : \E k : Run(args, n + 1, k)}
<1>1. 0 \in A
  <2>1. Run(args, 0 + 1, 0)
    BY DEF Run
  <2> QED
    BY <2>1
<1>2. ASSUME NEW n \in Nat, n \in A PROVE n + 1 \in A
  <2> DEFINE h == n + 1 + 1
  <2>1. h \in Nat /\ h > 1 /\ h - 1 = n + 1
    OBVIOUS
  <2> HIDE DEF h
  <2>2. PICK k : Run(args, n + 1, k)
    BY <1>2
  <2>3. CASE args[h - 1] \in DOMAIN Valued
    BY <2>1, <2>2, <2>3, RunLonger DEF h
  <2>4. CASE args[h - 1] \notin DOMAIN Valued
    <3>1. Run(args, h, 0)
      BY <2>1, <2>4 DEF Run
    <3> QED
      BY <3>1 DEF h
  <2> QED
    BY <2>3, <2>4
<1> HIDE DEF A
<1>3. Nat \subseteq A
  BY <1>1, <1>2, NatInduct
<1>4. i - 1 \in A /\ i - 1 + 1 = i
  BY <1>3
<1> QED
  BY <1>4 DEF A

LEMMA ValueIs ==
    ASSUME NEW args, NEW i \in Nat \ {0}
    PROVE  IsValue(args, i) <=> /\ i > 1 /\ args[i - 1] \in DOMAIN Valued
                                /\ ~IsValue(args, i - 1)
<1>1. \A h \in Nat \ {0} : IsValue(args, h) <=> \E k : Run(args, h, k) /\ k % 2 = 1
  BY DEF IsValue, Run
<1>2. PICK k : Run(args, i, k)
  BY RunExists
<1>3. k \in 0 .. i - 1
  BY <1>2 DEF Run
<1>4. IsValue(args, i) <=> k % 2 = 1
  BY <1>1, <1>2, RunUnique
<1>5. CASE k = 0
  <2>1. i > 1 => args[i - 1] \notin DOMAIN Valued
    BY <1>2, <1>5 DEF Run
  <2>2. ~IsValue(args, i)
    BY <1>4, <1>5
  <2> QED
    BY <2>1, <2>2
<1>6. CASE k > 0
  <2>1. i > 1 /\ i - 1 \in i - k .. i - 1 /\ i - 1 \in Nat \ {0}
    BY <1>3, <1>6
  <2>2. args[i - 1] \in DOMAIN Valued
    BY <1>2, <2>1 DEF Run
  <2>3. PICK m : Run(args, i - 1, m)
    BY <2>1, RunExists
  <2>4. Run(args, i, m + 1)
    BY <2>1, <2>2, <2>3, RunLonger
  <2>5. k = m + 1 /\ m \in Nat
    BY <1>2, <2>3, <2>4, RunUnique DEF Run
  <2>6. IsValue(args, i - 1) <=> m % 2 = 1
    BY <1>1, <2>1, <2>3, RunUnique
  <2>7. m % 2 = 1 <=> ~(k % 2 = 1)
    BY <2>5
  <2> QED
    BY <1>4, <2>1, <2>2, <2>6, <2>7
<1> QED
  BY <1>3, <1>5, <1>6

-----------------------------------------------------------------------------
(* The parse, argument by argument.                                        *)
IsParse(args, at) ==
    /\ at \in [0 .. Len(args) -> Parse]
    /\ at[0] = [cfg |-> Defaults, wants |-> "", ends |-> ""]
    /\ \A m \in Nat : m < Len(args) => at[m + 1] = Take(at[m], args[m + 1])
    /\ Parsed(args) = at[Len(args)]

LEMMA ParseSteps ==
    ASSUME NEW args \in Seq(DOMAIN Paths)
    PROVE  \E at : IsParse(args, at)
<1> DEFINE n == Len(args)
           S == Parse
           b == [cfg |-> Defaults, wants |-> "", ends |-> ""]
           D == [i \in 1 .. n |-> [s \in S |-> Take(s, args[i])]]
<1>1. n \in Nat /\ \A i \in 1 .. n : args[i] \in DOMAIN Paths
  OBVIOUS
<1>2. b \in S
  BY DefaultsType DEF Parse
<1>3. ASSUME NEW i \in 1 .. n, NEW s \in S PROVE Take(s, args[i]) \in S
  BY <1>1, ValueType, OptionType DEF Take
<1>4. D \in [1 .. n -> [S -> S]] /\ \A i \in 1 .. n : \A s \in S : D[i][s] = Take(s, args[i])
  BY <1>3
<1> HIDE DEF D, n, S, b
<1>5. Iterated(n, S, b, D)
  BY <1>1, <1>2, <1>4, Recursion
<1>6. PICK f \in [0 .. n -> S] : f[0] = b /\ \A i \in 1 .. n : f[i] = D[i][f[i - 1]]
  BY <1>5 DEF Iterated
<1>7. \A i \in 1 .. n : f[i] = Take(f[i - 1], args[i])
  <2>1. \A i \in 1 .. n : f[i - 1] \in S
    BY <1>1
  <2> QED
    BY <1>4, <1>6, <2>1
<1> DEFINE E(g) == [i \in 0 .. n |-> IF i = 0 THEN b ELSE Take(g[i - 1], args[i])]
           at   == CHOOSE g : g = E(g)
<1>8. f = E(f)
  BY <1>1, <1>6, <1>7
<1>9. at = E(at)
  <2> HIDE DEF E
  <2> QED
    BY <1>8
<1>10. Parsed(args) = at[Len(args)]
  BY DEF Parsed, n, b
<1> HIDE DEF at
<1>11. /\ DOMAIN at = 0 .. n
       /\ \A i \in 0 .. n : at[i] = IF i = 0 THEN b ELSE Take(at[i - 1], args[i])
  BY <1>9
<1>12. at[0] = b /\ \A i \in 1 .. n : at[i] = Take(at[i - 1], args[i])
  BY <1>1, <1>11
<1>13. at = [i \in 0 .. n |-> at[i]]
  BY <1>9, <1>11
<1> HIDE DEF E
<1>14. ASSUME NEW m \in Nat, m < n, at[m] = f[m] PROVE at[m + 1] = f[m + 1]
  BY <1>1, <1>7, <1>12, <1>14
<1>15. Follows(n, f, at)
  BY <1>6, <1>12, <1>13, <1>14 DEF Follows
<1>16. at = f
  BY <1>1, <1>15, SameRecursion
<1> QED
  <2>1. ASSUME NEW m \in Nat, m < n PROVE at[m + 1] = Take(at[m], args[m + 1])
    BY <1>1, <1>12, <2>1
  <2> QED
    BY <1>10, <1>12, <1>16, <2>1 DEF n, S, b, IsParse

(* What a parse that has not ended has read: the options that were not     *)
(* another one's value.                                                    *)
ReadSoFar(args, p, n) ==
    p.ends = "" =>
        /\ p.wants # "" <=> n > 0 /\ args[n] \in DOMAIN Valued /\ ~IsValue(args, n)
        /\ \A o \in Flags : p.cfg[Switch[o]] <=> \E i \in 1 .. n : args[i] = o /\ ~IsValue(args, i)

LEMMA TakeReads ==
    ASSUME NEW args \in Seq(DOMAIN Paths), NEW n \in Nat, NEW h \in 1 .. Len(args), h = n + 1,
           NEW p \in Parse, ReadSoFar(args, p, n)
    PROVE  ReadSoFar(args, Take(p, args[h]), h)
<1> DEFINE a == args[h]
           q == Take(p, a)
           Read(o, m) == \E i \in 1 .. m : args[i] = o /\ ~IsValue(args, i)
<1>1. a \in DOMAIN Paths
  OBVIOUS
<1>2. h \in Nat \ {0} /\ h - 1 = n /\ (h > 1 <=> n > 0) /\ h > 0
  OBVIOUS
<1>3. IsValue(args, h) <=> n > 0 /\ args[n] \in DOMAIN Valued /\ ~IsValue(args, n)
  <2>1. IsValue(args, h) <=> h > 1 /\ args[h - 1] \in DOMAIN Valued /\ ~IsValue(args, h - 1)
    BY <1>2, ValueIs
  <2> QED
    BY <1>2, <2>1
<1>4. \A i : i \in 1 .. h <=> i \in 1 .. n \/ i = h
  OBVIOUS
<1> HIDE DEF a, q
<1>5. ASSUME NEW o PROVE Read(o, h) <=> Read(o, n) \/ (a = o /\ ~IsValue(args, h))
  BY <1>4, Zenon DEF a
<1> HIDE DEF Read
<1> SUFFICES ASSUME q.ends = ""
             PROVE  /\ q.wants # "" <=> a \in DOMAIN Valued /\ ~IsValue(args, h)
                    /\ \A o \in Flags : q.cfg[Switch[o]] <=> Read(o, h)
  BY <1>2 DEF ReadSoFar, Read, a, q
<1>6. p.ends = ""
  BY <1>1, ValueType, OptionType DEF Take, q
<1>7. p.wants # "" <=> IsValue(args, h)
  BY <1>3, <1>6 DEF ReadSoFar
<1>8. \A o \in Flags : p.cfg[Switch[o]] <=> Read(o, n)
  BY <1>6 DEF ReadSoFar, Read
<1>9. CASE p.wants # ""
  <2>1. q = Value(p, a)
    BY <1>6, <1>9 DEF Take, q
  <2>2. q.wants = "" /\ \A o \in Flags : q.cfg[Switch[o]] = p.cfg[Switch[o]]
    BY <1>1, <1>9, <2>1, ValueType
  <2> QED
    BY <1>5, <1>7, <1>8, <1>9, <2>2
<1>10. CASE p.wants = ""
  <2>1. q = Option(p, a)
    BY <1>6, <1>10 DEF Take, q
  <2>2. /\ q.wants # "" <=> a \in DOMAIN Valued
        /\ \A o \in Flags : q.cfg[Switch[o]] <=> p.cfg[Switch[o]] \/ a = o
    BY <1>10, <2>1, OptionType
  <2> QED
    BY <1>5, <1>7, <1>8, <1>10, <2>2
<1> QED
  BY <1>9, <1>10

(* A call that is not turned away has the configuration its arguments ask  *)
(* for: a flag is set if and only if it is one of them and not the value   *)
(* of another option (parse_args, main.rs).                                *)
THEOREM ParsesAsGiven ==
    ASSUME NEW args \in Seq(DOMAIN Paths)
    PROVE  /\ parse_args(args) \in Parse
           /\ parse_args(args).ends = "" =>
                  /\ parse_args(args).cfg \in Config
                  /\ \A o \in Flags : parse_args(args).cfg[Switch[o]] <=> Given(args, o)
<1> DEFINE n == Len(args)
<1>1. n \in Nat /\ DOMAIN args = 1 .. n
  OBVIOUS
<1>2. \E at : IsParse(args, at)
  BY ParseSteps
<1> PICK at : IsParse(args, at)
  BY <1>2
<1>3. at \in [0 .. n -> Parse] /\ Parsed(args) = at[n]
  BY DEF IsParse
<1>4. ASSUME NEW m \in Nat, m < n PROVE at[m + 1] = Take(at[m], args[m + 1])
  BY <1>4 DEF IsParse
<1>5. at[0].ends = "" /\ at[0].wants = "" /\ at[0].cfg = Defaults
  <2> DEFINE b == [cfg |-> Defaults, wants |-> "", ends |-> ""]
  <2>1. at[0] = b
    BY Zenon DEF IsParse
  <2>2. b.ends = "" /\ b.wants = "" /\ b.cfg = Defaults
    OBVIOUS
  <2> HIDE DEF b
  <2> QED
    BY <2>1, <2>2
<1> HIDE DEF n
<1> DEFINE A == {m \in Nat : m <= n => ReadSoFar(args, at[m], m)}
<1>6. 0 \in A
  <2>1. \A o \in Flags : ~Defaults[Switch[o]]
    BY SwitchIs DEF Flags, Defaults
  <2>3. \A i : i \notin 1 .. 0
    OBVIOUS
  <2>4. ~(0 > 0)
    OBVIOUS
  <2>5. ReadSoFar(args, at[0], 0)
    BY <1>5, <2>1, <2>3, <2>4, Zenon DEF ReadSoFar
  <2> QED
    BY <2>5
<1>7. ASSUME NEW m \in Nat, m \in A PROVE m + 1 \in A
  <2> SUFFICES ASSUME m + 1 <= n PROVE ReadSoFar(args, at[m + 1], m + 1)
    OBVIOUS
  <2> DEFINE h == m + 1
  <2>1. m \in 0 .. n /\ m < n /\ h \in 1 .. n
    BY <1>1
  <2>2. at[m] \in Parse
    BY <1>3, <2>1
  <2>3. at[m + 1] = Take(at[m], args[m + 1])
    BY <1>4, <2>1
  <2>4. ReadSoFar(args, at[m], m)
    BY <1>7, <2>1
  <2>5. h \in 1 .. Len(args) /\ h = m + 1
    BY <2>1 DEF n
  <2> HIDE DEF h
  <2>6. ReadSoFar(args, Take(at[m], args[h]), h)
    BY <2>2, <2>4, <2>5, TakeReads
  <2> QED
    BY <2>3, <2>6 DEF h
<1> HIDE DEF A
<1>8. n \in A
  BY <1>1, <1>6, <1>7, NatInduct
<1> DEFINE p == Parsed(args)
<1>9. p \in Parse /\ p = at[n]
  BY <1>1, <1>3
<1>10. ReadSoFar(args, p, n)
  BY <1>1, <1>8, <1>9 DEF A
<1>11. parse_args(args) = IF p.wants # "" THEN [p EXCEPT !.ends = "error"] ELSE p
  BY DEF parse_args
<1> HIDE DEF p
<1>12. parse_args(args) \in Parse
  BY <1>9, <1>11 DEF Parse
<1>13. ASSUME parse_args(args).ends = "" PROVE parse_args(args) = p /\ p.ends = ""
  BY <1>9, <1>11, <1>13 DEF Parse
<1>14. ASSUME NEW o PROVE Given(args, o) <=> \E i \in 1 .. n : args[i] = o /\ ~IsValue(args, i)
  BY <1>1, Zenon DEF Given
<1>15. p.ends = "" => \A o \in Flags : p.cfg[Switch[o]] <=> Given(args, o)
  BY <1>10, <1>14 DEF ReadSoFar
<1>16. p.cfg \in Config
  BY <1>9 DEF Parse
<1> QED
  BY <1>12, <1>13, <1>15, <1>16
=============================================================================
