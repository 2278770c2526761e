----------------------------- MODULE RaplProofs -----------------------------
(***************************************************************************)
(* Theorems about Rapl: what rapl-read, rapl-plot and apm-read report, on   *)
(* any machine, with counters of any width.                                 *)
(***************************************************************************)
EXTENDS Rapl, FiniteSetTheorems, WellFoundedInduction, TLAPS

-----------------------------------------------------------------------------
(* Least elements, and the place of an identity among others.              *)

\* The sets 0..(n - 1) are finite, and inclusion is well founded on finite sets.
LEMMA LeastOf ==
  ASSUME NEW T \in SUBSET Nat, T # {}
  PROVE  \E n \in T : \A k \in T : n <= k
<1> DEFINE Below == {0..(n - 1) : n \in T}
<1>1. Below \subseteq FiniteSubsetsOf(Nat)
  <2>1. \A n \in T : IsFiniteSet(0..(n - 1)) /\ 0..(n - 1) \subseteq Nat
    BY FS_Interval
  <2> QED BY <2>1 DEF FiniteSubsetsOf
<1>2. IsWellFoundedOn(StrictSubsetOrdering(Nat), FiniteSubsetsOf(Nat))
  BY FS_StrictSubsetOrderingWellFounded
<1>3. Below # {}
  OBVIOUS
<1>4. PICK x \in Below : \A y \in Below : <<y, x>> \notin StrictSubsetOrdering(Nat)
  <2> HIDE DEF Below
  <2> QED BY <1>1, <1>2, <1>3, WFMin
<1>5. PICK n \in T : x = 0..(n - 1)
  BY <1>4
<1>6. ASSUME NEW k \in T, k < n PROVE FALSE
  <2>1. 0..(k - 1) \in Below
    OBVIOUS
  <2>2. 0..(k - 1) \subseteq 0..(n - 1) /\ k \in 0..(n - 1) /\ k \notin 0..(k - 1)
    BY <1>6
  <2>3. 0..(k - 1) # 0..(n - 1)
    BY <2>2
  <2>4. 0..(k - 1) \in SUBSET Nat /\ 0..(n - 1) \in SUBSET Nat
    OBVIOUS
  <2>5. <<0..(k - 1), 0..(n - 1)>> \in StrictSubsetOrdering(Nat)
    BY <2>2, <2>3, <2>4 DEF StrictSubsetOrdering
  <2> QED BY <1>4, <1>5, <2>1, <2>5
<1> QED BY <1>6

\* How many of S are less than an identity tells the identities apart, and takes every value.
Rank(S, x) == Cardinality({q \in S : q < x})

LEMMA RankIs ==
  ASSUME NEW S \in SUBSET Nat, IsFiniteSet(S)
  PROVE  /\ Cardinality(S) \in Nat
         /\ \A x \in S : Rank(S, x) \in 0..(Cardinality(S) - 1)
         /\ \A x, y \in S : Rank(S, x) = Rank(S, y) => x = y
         /\ \A n \in 0..(Cardinality(S) - 1) : \E x \in S : Rank(S, x) = n
<1>1. Cardinality(S) \in Nat
  BY FS_CardinalityType
<1>2. ASSUME NEW x PROVE IsFiniteSet({q \in S : q < x}) /\ Rank(S, x) \in Nat
  BY FS_Subset, FS_CardinalityType DEF Rank
<1>3. ASSUME NEW x \in S PROVE Rank(S, x) \in 0..(Cardinality(S) - 1)
  <2>1. {q \in S : q < x} \subseteq S /\ x \notin {q \in S : q < x}
    OBVIOUS
  <2>2. Rank(S, x) <= Cardinality(S) /\ Rank(S, x) # Cardinality(S)
    <3>1. {q \in S : q < x} # S
      BY <2>1
    <3> QED BY <2>1, <3>1, FS_Subset DEF Rank
  <2>3. Rank(S, x) \in Nat
    BY <1>2
  <2> QED BY <1>1, <2>2, <2>3
<1>4. ASSUME NEW x \in S, NEW y \in S, x < y PROVE Rank(S, x) < Rank(S, y)
  <2>1. {q \in S : q < x} \subseteq {q \in S : q < y}
    <3>1. x \in Nat /\ y \in Nat /\ \A q \in S : q \in Nat
      OBVIOUS
    <3>2. \A q \in S : q < x => q < y
      BY <1>4, <3>1
    <3> QED BY <3>2
  <2>2. x \in {q \in S : q < y} /\ x \notin {q \in S : q < x}
    BY <1>4
  <2>3. Rank(S, x) <= Rank(S, y) /\ Rank(S, x) # Rank(S, y)
    <3>1. {q \in S : q < x} # {q \in S : q < y}
      BY <2>2
    <3> QED BY <1>2, <2>1, <3>1, FS_Subset DEF Rank
  <2>4. Rank(S, x) \in Nat /\ Rank(S, y) \in Nat
    BY <1>2
  <2> QED BY <2>3, <2>4
<1>5. ASSUME NEW x \in S, NEW y \in S, Rank(S, x) = Rank(S, y) PROVE x = y
  <2>1. ~(x < y) /\ ~(y < x)
    <3>1. Rank(S, x) \in Nat
      BY <1>2
    <3> QED BY <1>4, <1>5, <3>1
  <2>2. x \in Nat /\ y \in Nat
    OBVIOUS
  <2> QED BY <2>1, <2>2
<1>6. ASSUME NEW n \in 0..(Cardinality(S) - 1) PROVE \E x \in S : Rank(S, x) = n
  <2> DEFINE N == 0..(Cardinality(S) - 1)
             f == [x \in S |-> Rank(S, x)]
  <2>1. f \in Injection(S, N)
    BY <1>3, <1>5 DEF Injection, IsInjective
  <2>2. IsFiniteSet(N) /\ Cardinality(N) = Cardinality(S)
    <3>1. 0 \in Int /\ Cardinality(S) - 1 \in Int /\ ~(0 > Cardinality(S) - 1)
      BY <1>1
    <3> QED BY <1>1, <3>1, FS_Interval
  <2>3. f \in Surjection(S, N)
    <3> HIDE DEF f, N
    <3> QED BY <2>1, <2>2, FS_Injection
  <2> QED BY <2>3 DEF Surjection
<1> QED BY <1>1, <1>3, <1>5, <1>6

-----------------------------------------------------------------------------
(* The invariant.                                                          *)

Index == 0..15
Reads == [Domains -> -1..(MaxEnergy + Word + ClockWord)]
Moments == 0..MaxEnergy
Histories == [Index -> Moments \X Moments]

Places == {"args", "names", "open", "stdin", "list", "before", "sleep", "after",
           "init", "start", "interval", "stop", "done", "unable", "exit", "crashed", "empty"}
Methods == {"", "sysfs", "perf", "msr", "apm"}

TypedState ==
  /\ program \in Programs /\ machine \in Machines
  /\ force_msr \in BOOLEAN /\ force_perf \in BOOLEAN
  /\ pc \in Places /\ method \in Methods /\ j \in Index
  /\ cpu_model \in Models /\ total_packages \in 0..16
  /\ result \in {0, -1} /\ first_time \in BOOLEAN /\ exit \in {-1, 0, 2, 3, 127}
  /\ shown \subseteq Index
Typed ==
  /\ TypedState
  /\ package_map \in [Index -> -1..Cardinality(DOMAIN machine.packages)]
  /\ opened \in [Index -> -1..MaxEnergy]
  /\ last \in [Index -> Reads] /\ energy \in [Index -> Reads] /\ taken \in Histories
  /\ consumed \in [Ids \cup {Clock} -> 0..MaxEnergy]

Detected ==
  total_packages # 0 =>
    package_map = [id \in Index |-> FirstCore(id)] /\ total_packages = CountPackages

\* What each program has when it is at each place.
Located ==
  /\ program = "apm-read" => pc \in {"args", "init", "start", "interval", "stop", "done", "exit", "crashed"}
  /\ program # "apm-read" => pc \notin {"init", "start", "interval", "stop"}
  /\ program = "rapl-read" => pc # "stdin"
  /\ program # "apm-read" /\ pc \notin {"args", "exit", "crashed", "empty"} => total_packages # 0
  /\ pc \in {"names", "open", "stdin", "list", "before", "sleep", "after"} => j < total_packages
  /\ pc \in {"args", "names", "stdin", "sleep", "init", "interval"} => j = 0
  /\ pc \in {"start", "stop"} => j \in {0, 1}
  /\ pc \in {"args", "names", "stdin", "init"} => method = ""
  /\ pc \in {"args", "names", "open", "stdin", "init"} => first_time
  /\ pc = "list" /\ cpu_model = "unknown" => j = 0
  /\ pc = "open" => method = IF j = 0 THEN "" ELSE "perf"
  /\ pc = "list" => method \in {"", "msr"}
  /\ pc \in {"before", "sleep", "after"} => method \in {"sysfs", "perf", "msr"}
  /\ pc = "before" /\ program = "rapl-read" => method # "perf"
  /\ pc \in {"start", "interval", "stop"} => method = "apm"
  /\ method = "apm" => program = "apm-read"
  /\ program = "apm-read" => method \in {"", "apm"}
  /\ method = "msr" /\ program = "rapl-read" => cpu_model # "unknown"

Placed == Detected /\ Located

\* The clock of AMD goes on in two intervals.
ClockIsSlow ==
  /\ pc \in {"start", "interval"} \/ first_time => consumed[Clock] <= MaxEnergy \div 2
  /\ pc # "stop" /\ first_time => consumed[Clock] = 0

\* Events count from when they were opened.
Opened ==
  /\ \A p \in Index : opened[p] # -1 => p \in Ids /\ opened[p] <= consumed[p]
  /\ method = "perf" => \A p \in Packages : pc # "open" \/ p < j => opened[p] # -1 /\ core(p) \in Seen

-----------------------------------------------------------------------------
(* What a reading is, and which there are.                                 *)

Source(p) == IF method = "apm" THEN IF p = 0 THEN machine.packages[0] ELSE Clock ELSE Owner(p)
Value(p, d, at) == IF method = "perf" THEN at - opened[p] ELSE (at + First[d]) % Wide(p)

LastSet(p) ==
  CASE method = "sysfs" -> IF machine.readable THEN machine.zones ELSE {}
    [] method = "perf"  -> IF program = "rapl-read" THEN Domains ELSE machine.events
    [] method = "msr"   -> IF program = "rapl-read" THEN avail(cpu_model) ELSE avail_plot(cpu_model)
    [] OTHER            -> IF (IF p = 0 THEN "acc" ELSE "ptsc") \in machine.registers THEN {"pkg"} ELSE {}
EnergySet(p) ==
  IF method = "perf" THEN machine.events
  ELSE IF method = "msr" /\ program = "rapl-read" THEN avail_after(cpu_model) ELSE LastSet(p)

\* The reading r of package p was taken when its owner had used at, and has the domains of ds.
Valid(r, at, p, ds) ==
  /\ Source(p) \in Ids \cup {Clock} /\ at <= consumed[Source(p)]
  /\ method = "perf" => opened[p] # -1 /\ opened[p] <= at
  /\ \A d \in Domains : r[d] = IF d \in ds THEN Value(p, d, at) ELSE Unread

LastRead(p) ==
  \/ program = "rapl-read" /\ pc \in {"open", "before"} /\ p \in 0..(j - 1)
  \/ program = "rapl-read" /\ pc \in {"sleep", "after"} /\ p \in Packages
  \/ program = "rapl-plot" /\ pc \in {"sleep", "after"} /\ p \in Packages
  \/ program = "apm-read" /\ pc = "start" /\ p \in 0..(j - 1)
  \/ program = "apm-read" /\ pc \in {"interval", "stop"} /\ p \in {0, 1}
EnergyRead(p) ==
  \/ program = "rapl-read" /\ pc = "after" /\ p \in 0..(j - 1)
  \/ program = "rapl-plot" /\ pc = "before" /\ p \in 0..(j - 1)
  \/ program = "rapl-plot" /\ pc \in {"sleep", "after"} /\ p \in Packages
  \/ program = "apm-read" /\ pc = "stop" /\ p \in 0..(j - 1)


\* Package p has been read since last was: last is of the time before.
Twice(p) ==
  \/ program = "rapl-read" /\ pc = "after" /\ p \in 0..(j - 1)
  \/ program = "rapl-plot" /\ pc = "after" /\ p \in 0..(j - 1)
  \/ program = "rapl-plot" /\ pc = "sleep" /\ p \in Packages
  \/ program = "apm-read" /\ pc = "stop" /\ p \in 0..(j - 1)
LastAt(p) == IF Twice(p) THEN taken[p][1] ELSE taken[p][2]

LastIs(p) == Valid(last[p], LastAt(p), p, LastSet(p))
EnergyIs(p) == Valid(energy[p], taken[p][2], p, EnergySet(p))
ReadSoFar ==
  \A p \in Index :
    /\ LastRead(p) => LastIs(p)
    /\ EnergyRead(p) => EnergyIs(p)
    /\ Twice(p) => taken[p][1] <= taken[p][2]

Good(p) ==
  /\ Valid(last[p], taken[p][1], p, LastSet(p)) /\ EnergyIs(p)
  /\ taken[p][1] <= taken[p][2]
Reported ==
  /\ \A p \in shown : Good(p)
  /\ shown # {} => method # "" /\ (method = "apm" => "ptsc" \in machine.registers)
  /\ pc \in {"args", "names", "open", "stdin", "list", "before", "init", "interval", "stop"} => shown = {}
  /\ pc = "sleep" /\ program = "rapl-read" => shown = {}
  /\ pc = "after" => shown \subseteq 0..(j - 1)

\* rapl-read has shown every package it passed.
Swept ==
  program = "rapl-read" =>
    /\ pc = "after" => shown = IF method = "sysfs" THEN {} ELSE 0..(j - 1)
    /\ pc = "done" => shown = Packages
    /\ pc \in {"after", "done"} => method \in {"sysfs", "perf", "msr"}
    /\ method \in {"perf", "msr"} => \A p \in shown : core(p) \in Seen

-----------------------------------------------------------------------------
(* The machine.                                                            *)

LEMMA MachineIs ==
  ASSUME machine \in Machines
  PROVE  LET n == Cardinality(DOMAIN machine.packages)
         IN  /\ n \in Nat \ {0} /\ DOMAIN machine.packages = 0..(n - 1)
             /\ machine.packages \in [0..(n - 1) -> Nat \cup {-1}] /\ machine.packages[0] # -1
             /\ machine.model \in Models /\ machine.zones \subseteq Domains
             /\ machine.events \subseteq Domains
<1> DEFINE n == Cardinality(DOMAIN machine.packages)
<1>1. IsMachine(machine)
  BY RaplAssumption
<1>2. IsFiniteSet(DOMAIN machine.packages) /\ n \in Nat
  BY <1>1, FS_CardinalityType DEF IsMachine
<1>3. machine.packages \in [0..(n - 1) -> Nat \cup {-1}] /\ 0 \in DOMAIN machine.packages
  BY <1>1 DEF IsMachine
<1>4. DOMAIN machine.packages = 0..(n - 1)
  BY <1>3
<1>5. n # 0
  BY <1>2, <1>3, <1>4
<1>6. machine.packages[0] # -1 /\ machine.model \in Models
      /\ machine.zones \subseteq Domains /\ machine.events \subseteq Domains
  BY <1>1 DEF IsMachine
<1> QED BY <1>2, <1>3, <1>4, <1>5, <1>6

\* Packages are numbered as they like; the first is seen at least, and counted when its number
\* is below 16.
SeenIds == {machine.packages[c] : c \in Seen}

LEMMA IdsAre ==
  ASSUME machine \in Machines
  PROVE  /\ Ids \subseteq Nat /\ IsFiniteSet(Ids) /\ Cardinality(Ids) \in Nat
         /\ Seen \subseteq DOMAIN machine.packages /\ Seen \subseteq Nat /\ 0 \in Seen
         /\ SeenIds \subseteq Ids
         /\ CountPackages \in 0..16 /\ CountPackages <= Cardinality(Ids)
         /\ machine.packages[0] \in Ids
<1> DEFINE n == Cardinality(DOMAIN machine.packages)
           Numbers == {machine.packages[c] : c \in DOMAIN machine.packages}
<1>1. /\ n \in Nat \ {0} /\ DOMAIN machine.packages = 0..(n - 1)
      /\ machine.packages \in [0..(n - 1) -> Nat \cup {-1}] /\ machine.packages[0] # -1
  BY MachineIs
<1> HIDE DEF n
<1>2. Ids \subseteq Nat /\ Ids \subseteq Numbers
  BY <1>1 DEF Ids
<1>3. IsFiniteSet(0..15) /\ Cardinality(0..15) = 16
  <2>1. 0 \in Int /\ 15 \in Int /\ ~(0 > 15) /\ 15 - 0 + 1 = 16
    OBVIOUS
  <2> QED BY <2>1, FS_Interval
<1>4. IsFiniteSet(Ids) /\ Cardinality(Ids) \in Nat
  <2>1. machine.packages \in Surjection(DOMAIN machine.packages, Numbers)
    BY <1>1 DEF Surjection
  <2>2. IsFiniteSet(DOMAIN machine.packages)
    <3>1. 0 \in Int /\ n - 1 \in Int
      BY <1>1
    <3> QED BY <1>1, <3>1, FS_Interval
  <2>3. IsFiniteSet(Numbers)
    <3> HIDE DEF Numbers
    <3> QED BY <2>1, <2>2, FS_Surjection
  <2> QED BY <1>2, <2>3, FS_Subset, FS_CardinalityType
<1>5. Seen \subseteq DOMAIN machine.packages /\ Seen \subseteq Nat
  BY <1>1 DEF Seen
<1>6. 0 \in Seen
  BY <1>1 DEF Seen
<1>7. \A c \in Seen : machine.packages[c] # -1
  BY <1>1 DEF Seen
<1>8. SeenIds \subseteq Ids
  BY <1>5, <1>7 DEF SeenIds, Ids
<1>9. machine.packages[0] \in SeenIds
  BY <1>6 DEF SeenIds
<1> DEFINE counted == SeenIds \cap (0..15)
<1>10. IsFiniteSet(counted) /\ Cardinality(counted) <= Cardinality(Ids) /\ Cardinality(counted) <= 16
       /\ Cardinality(counted) \in Nat
  <2>1. counted \subseteq Ids /\ counted \subseteq 0..15
    BY <1>8
  <2> HIDE DEF counted
  <2> QED BY <1>3, <1>4, <2>1, FS_Subset, FS_CardinalityType
<1>11. CountPackages = Cardinality(counted)
  BY DEF CountPackages, SeenIds, MAX_PACKAGES
<1> HIDE DEF counted
<1>12. CountPackages \in 0..16 /\ CountPackages <= Cardinality(Ids)
  BY <1>4, <1>10, <1>11
<1> QED BY <1>2, <1>4, <1>5, <1>6, <1>8, <1>9, <1>12

\* The core of a package is one of its cores.
LEMMA FirstCoreIs ==
  ASSUME machine \in Machines, NEW p \in Int
  PROVE  /\ FirstCore(p) \in -1..Cardinality(DOMAIN machine.packages)
         /\ FirstCore(p) \in Seen => machine.packages[FirstCore(p)] = p /\ p \in Ids
<1> DEFINE n == Cardinality(DOMAIN machine.packages)
<1>1. n \in Nat \ {0} /\ DOMAIN machine.packages = 0..(n - 1)
  BY MachineIs
<1>2. CoresOf(p) \subseteq 0..(n - 1) /\ CoresOf(p) \in SUBSET Nat /\ Seen \subseteq Nat
  BY <1>1, IdsAre DEF CoresOf
<1>3. CASE CoresOf(p) = {}
  BY <1>1, <1>2, <1>3 DEF FirstCore
<1>4. CASE CoresOf(p) # {}
  <2>1. \E c \in CoresOf(p) : \A k \in CoresOf(p) : c <= k
    BY <1>2, <1>4, LeastOf
  <2>2. FirstCore(p) \in CoresOf(p)
    BY <1>4, <2>1 DEF FirstCore
  <2>3. FirstCore(p) \in 0..(n - 1) /\ machine.packages[FirstCore(p)] = p /\ FirstCore(p) \in Seen
    BY <1>2, <2>2 DEF CoresOf
  <2>4. machine.packages[FirstCore(p)] \in SeenIds
    BY <2>3 DEF SeenIds
  <2> QED BY <1>1, <2>3, <2>4, IdsAre
<1> QED BY <1>3, <1>4

\* The owner of the n-th zone is there, and each has one.
LEMMA ZoneOwnerIs ==
  ASSUME machine \in Machines
  PROVE  /\ \A p \in 0..(Cardinality(Ids) - 1) : ZoneOwner(p) \in Ids
         /\ \A id \in Ids : \E p \in 0..(Cardinality(Ids) - 1) : ZoneOwner(p) = id
<1>1. Ids \in SUBSET Nat /\ IsFiniteSet(Ids)
  BY IdsAre
<1>2. /\ \A x \in Ids : Rank(Ids, x) \in 0..(Cardinality(Ids) - 1)
      /\ \A x, y \in Ids : Rank(Ids, x) = Rank(Ids, y) => x = y
      /\ \A n \in 0..(Cardinality(Ids) - 1) : \E x \in Ids : Rank(Ids, x) = n
  BY <1>1, RankIs
<1>3. ASSUME NEW p \in 0..(Cardinality(Ids) - 1)
      PROVE  ZoneOwner(p) \in Ids /\ Rank(Ids, ZoneOwner(p)) = p
  <2>1. \E id \in Ids : Cardinality({q \in Ids : q < id}) = p
    BY <1>2 DEF Rank
  <2> QED BY <2>1 DEF ZoneOwner, Rank
<1>4. ASSUME NEW id \in Ids
      PROVE  \E p \in 0..(Cardinality(Ids) - 1) : ZoneOwner(p) = id
  <2>1. Rank(Ids, id) \in 0..(Cardinality(Ids) - 1)
    BY <1>2
  <2>2. ZoneOwner(Rank(Ids, id)) = id
    BY <1>2, <1>3, <2>1
  <2> QED BY <2>1, <2>2
<1> QED BY <1>3, <1>4

-----------------------------------------------------------------------------
(* Counters that come round.                                               *)

LEMMA ModIs ==
  ASSUME NEW a \in Nat, NEW w \in Nat \ {0}
  PROVE  a % w \in 0..(w - 1) /\ a \div w \in Nat /\ a = w * (a \div w) + (a % w)
<1>1. a % w \in 0..(w - 1)
  OBVIOUS
<1>2. a = w * (a \div w) + (a % w)
  OBVIOUS
<1>3. a \div w \in Int
  OBVIOUS
<1>4. ASSUME NEW q \in Int, NEW r \in 0..(w - 1), a = w * q + r PROVE q >= 0
  <2>1. q <= -1 => w * q <= -w
    OBVIOUS
  <2> QED BY <1>4, <2>1
<1> QED BY <1>1, <1>2, <1>3, <1>4

\* What a counter w wide that began at f shows after n units.
Count(n, f, w) == (n + f) % w

\* Two such counts in the same round are what was used apart.
LEMMA SameRound ==
  ASSUME NEW from \in Nat, NEW to \in Nat, NEW f \in Nat, NEW w \in Nat \ {0},
         (from + f) \div w = (to + f) \div w,
         NEW x, x = Count(from, f, w), NEW y, y = Count(to, f, w)
  PROVE  y - x = to - from
<1> DEFINE q == (from + f) \div w
<1>1. /\ x \in 0..(w - 1) /\ q \in Nat /\ from + f = w * q + x
      /\ y \in 0..(w - 1) /\ to + f = w * q + y
  <2>1. from + f \in Nat /\ to + f \in Nat
    OBVIOUS
  <2> QED BY <2>1, ModIs DEF Count
<1> HIDE DEF q
<1>2. w * q \in Int
  BY <1>1
<1>3. \A a \in Int : from + f = a + x /\ to + f = a + y => y - x = to - from
  BY <1>1
<1> QED BY <1>1, <1>2, <1>3

\* Delta takes one round into account.
LEMMA LessThanARound ==
  ASSUME NEW from \in Nat, NEW to \in Nat, from <= to, NEW f \in Nat, NEW w \in Nat \ {0},
         to - from < w, NEW x, x = Count(from, f, w), NEW y, y = Count(to, f, w)
  PROVE  Delta(x, y, w) = to - from
<1> DEFINE p == (from + f) \div w
           q == (to + f) \div w
<1>1. /\ x \in 0..(w - 1) /\ p \in Nat /\ from + f = w * p + x
      /\ y \in 0..(w - 1) /\ q \in Nat /\ to + f = w * q + y
  <2>1. from + f \in Nat /\ to + f \in Nat
    OBVIOUS
  <2> QED BY <2>1, ModIs DEF Count
<1> HIDE DEF p, q
<1> DEFINE m == q - p
<1>2. m \in Int /\ w * m = w * q - w * p /\ w * p \in Int /\ w * q \in Int /\ w * m \in Int
  BY <1>1
<1>3. to - from = w * m + y - x
  <2>1. \A a, b, c \in Int :
          (c = b - a /\ from + f = a + x /\ to + f = b + y) => to - from = c + y - x
    <3>1. x \in Int /\ y \in Int
      BY <1>1
    <3> QED BY <3>1
  <2> HIDE DEF m
  <2> QED BY <1>1, <1>2, <2>1
<1> HIDE DEF m
<1>4. m \in {0, 1}
  <2>1. m >= 2 => w * m >= 2 * w
    BY <1>2
  <2>2. m <= -1 => w * m <= -w
    BY <1>2
  <2>3. \A a \in Int : to - from = a + y - x => a < 2 * w /\ a > -w
    BY <1>1
  <2> QED BY <1>2, <1>3, <2>1, <2>2, <2>3
<1>5. w * m = IF m = 0 THEN 0 ELSE w
  BY <1>4
<1>6. CASE m = 0
  <2>1. ~(y < x) /\ to - from = y - x
    BY <1>1, <1>3, <1>5, <1>6
  <2> QED BY <2>1 DEF Delta
<1>7. CASE m = 1
  <2>1. y < x /\ to - from = y + w - x
    BY <1>1, <1>3, <1>5, <1>7
  <2> QED BY <2>1 DEF Delta
<1> QED BY <1>4, <1>6, <1>7

-----------------------------------------------------------------------------
(* A reading.                                                              *)

SetRead(ds) ==
  CASE method = "sysfs" -> IF machine.readable THEN machine.zones ELSE {}
    [] method = "perf"  -> machine.events
    [] OTHER            -> ds

LEMMA ConstantsAre ==
  /\ Word \in Nat \ {0} /\ ClockWord \in Nat \ {0} /\ MaxEnergy \in Nat /\ MaxEnergy >= 2
  /\ First \in [Domains -> 0..(Word - 1)]
  BY RaplAssumption

LEMMA OwnerIs ==
  ASSUME Typed, Placed, NEW p \in Packages, method \in {"sysfs", "perf", "msr"},
         method # "sysfs" => core(p) \in Seen
  PROVE  /\ p \in Index /\ Owner(p) \in Ids /\ Source(p) = Owner(p) /\ Ids \subseteq Nat
         /\ method = "sysfs" => Owner(p) = ZoneOwner(p)
         /\ method # "sysfs" => Owner(p) = p /\ machine.packages[core(p)] = p
<1>1. total_packages \in 0..16 /\ p \in 0..(total_packages - 1) /\ machine \in Machines
  BY DEF Typed, TypedState, Packages
<1>2. p \in Index /\ p \in Int /\ total_packages # 0
  BY <1>1 DEF Index
<1>3. package_map[p] = FirstCore(p) /\ total_packages = CountPackages
  BY <1>2 DEF Placed, Detected
<1>4. Ids \subseteq Nat /\ CountPackages <= Cardinality(Ids) /\ Cardinality(Ids) \in Nat
  BY <1>1, IdsAre
<1>5. CASE method = "sysfs"
  <2>1. p \in 0..(Cardinality(Ids) - 1)
    BY <1>1, <1>3, <1>4
  <2> QED BY <1>1, <1>2, <1>4, <1>5, <2>1, ZoneOwnerIs DEF Owner, Source
<1>6. CASE method # "sysfs"
  <2>1. machine.packages[FirstCore(p)] = p /\ p \in Ids
    BY <1>1, <1>2, <1>3, <1>6, FirstCoreIs DEF core
  <2> QED BY <1>2, <1>3, <1>4, <1>6, <2>1 DEF Owner, Source, core
<1> QED BY <1>5, <1>6

LEMMA ReadingIs ==
  ASSUME Typed, Placed, Opened, NEW p \in Packages, NEW ds,
         method \in {"sysfs", "perf", "msr"}, method = "msr" => core(p) \in Seen,
         pc # "open"
  PROVE  /\ p \in Index /\ Reading(p, ds) \in Reads
         /\ consumed[Owner(p)] \in Moments /\ Source(p) = Owner(p)
         /\ Valid(Reading(p, ds), consumed[Owner(p)], p, SetRead(ds))
<1>1. method = "perf" => opened[p] # -1 /\ core(p) \in Seen
  BY DEF Opened
<1>2. /\ p \in Index /\ Owner(p) \in Ids /\ Source(p) = Owner(p) /\ Ids \subseteq Nat
      /\ method = "sysfs" => Owner(p) = ZoneOwner(p)
      /\ method # "sysfs" => Owner(p) = p /\ machine.packages[core(p)] = p
  BY <1>1, OwnerIs
<1>3. /\ consumed[Owner(p)] \in 0..MaxEnergy /\ opened[p] \in -1..MaxEnergy
      /\ machine.zones \subseteq Domains /\ machine.events \subseteq Domains
  <2>1. consumed \in [Ids \cup {Clock} -> 0..MaxEnergy] /\ opened \in [Index -> -1..MaxEnergy]
    BY DEF Typed
  <2>2. machine \in Machines
    BY DEF Typed, TypedState
  <2>3. machine.zones \subseteq Domains /\ machine.events \subseteq Domains
    BY <2>2, MachineIs
  <2> QED BY <1>2, <2>1, <2>3
<1>4. method = "perf" => opened[p] <= consumed[Owner(p)]
  BY <1>1, <1>2 DEF Opened
<1> DEFINE at == consumed[Owner(p)]
           r == Reading(p, ds)
<1>6. ASSUME NEW d \in Domains
      PROVE  /\ (at + First[d]) % Word \in 0..(Word - 1)
             /\ method = "perf" => at - opened[p] \in 0..(MaxEnergy + 1)
  <2>1. at + First[d] \in Nat /\ Word \in Nat \ {0}
    BY <1>3, ConstantsAre
  <2>2. (at + First[d]) % Word \in 0..(Word - 1)
    BY <2>1, ModIs
  <2>3. method = "perf" => at - opened[p] \in 0..(MaxEnergy + 1)
    BY <1>1, <1>3, <1>4, ConstantsAre
  <2> QED BY <2>2, <2>3
<1>7. r = [d \in Domains |-> IF d \in SetRead(ds) THEN Value(p, d, at) ELSE Unread]
  <2>1. method # "perf" => Wide(p) = Word
    BY DEF Wide
  <2>2. CASE method = "sysfs"
    <3>1. Reading(p, ds) = FromSysfs(p)
      BY <2>2 DEF Reading
    <3>2. \A d \in Domains : Value(p, d, at) = (consumed[ZoneOwner(p)] + First[d]) % Word
      BY <1>2, <2>1, <2>2 DEF Value
    <3>3. \A d : d \in SetRead(ds) <=> d \in machine.zones /\ machine.readable
      BY <2>2 DEF SetRead
    <3> QED BY <3>1, <3>2, <3>3 DEF FromSysfs
  <2>3. CASE method = "perf"
    BY <1>2, <2>3 DEF Reading, FromPerf, SetRead, Value
  <2>4. CASE method = "msr"
    BY <1>2, <2>1, <2>4 DEF Reading, FromMsr, SetRead, Value
  <2> QED BY <2>2, <2>3, <2>4
<1> HIDE DEF r
<1>8. ASSUME NEW d \in Domains PROVE Value(p, d, at) \in -1..(MaxEnergy + Word + ClockWord)
  <2>1. method # "perf" => Wide(p) = Word
    BY DEF Wide
  <2> QED BY <1>6, <2>1, ConstantsAre DEF Value
<1>9. r \in [Domains -> -1..(MaxEnergy + Word + ClockWord)]
  <2>1. Unread \in -1..(MaxEnergy + Word + ClockWord)
    BY ConstantsAre DEF Unread
  <2> QED BY <1>7, <1>8, <2>1
<1>10. r \in Reads
  BY <1>9 DEF Reads
<1>11. Valid(r, at, p, SetRead(ds))
  BY <1>1, <1>2, <1>3, <1>4, <1>7 DEF Valid
<1> QED BY <1>2, <1>3, <1>10, <1>11 DEF r, Moments

-----------------------------------------------------------------------------
(* The machine stays what it is, and its packages only use more.           *)

LEMMA StateIsTyped ==
  ASSUME TypedState, UNCHANGED <<options, cpu_model, total_packages>>,
         pc' \in Places, method' \in Methods, j' \in Index, result' \in {0, -1}, first_time' \in BOOLEAN,
         exit' \in {-1, 0, 2, 3, 127}, shown' \subseteq Index
  PROVE  TypedState'
<1>1. UNCHANGED <<program, machine, force_msr, force_perf>>
  BY DEF options
<1> QED BY <1>1, Zenon DEF TypedState

LEMMA TypedStateIs ==
  Typed => /\ TypedState /\ machine \in Machines /\ pc \in Places /\ method \in Methods /\ j \in Index
           /\ result \in {0, -1} /\ first_time \in BOOLEAN /\ exit \in {-1, 0, 2, 3, 127}
           /\ shown \subseteq Index /\ total_packages \in 0..16
  BY Zenon DEF Typed, TypedState

LEMMA MachineIsKept ==
  ASSUME UNCHANGED machine
  PROVE  /\ Ids' = Ids /\ Seen' = Seen /\ CountPackages' = CountPackages
         /\ \A p \in Index : FirstCore(p)' = FirstCore(p)
         /\ \A p \in Index : ZoneOwner(p)' = ZoneOwner(p)
<1>1. Ids' = Ids /\ Seen' = Seen
  BY DEF Ids, Seen
<1>2. CountPackages' = CountPackages
  BY <1>1 DEF CountPackages
<1>3. ASSUME NEW p \in Index PROVE FirstCore(p)' = FirstCore(p)
  <2>1. CoresOf(p)' = CoresOf(p)
    BY <1>1 DEF CoresOf
  <2> QED BY <2>1 DEF FirstCore
<1>4. ASSUME NEW p \in Index PROVE ZoneOwner(p)' = ZoneOwner(p)
  BY <1>1 DEF ZoneOwner
<1> QED BY <1>1, <1>2, <1>3, <1>4

LEMMA ReadsAre ==
  /\ Moments \subseteq Nat
  /\ Typed => \A p \in Index : last[p] \in Reads /\ energy[p] \in Reads
                               /\ taken[p][1] \in Moments /\ taken[p][2] \in Moments
  /\ Typed => \A i \in Ids \cup {Clock} : consumed[i] \in Moments /\ consumed[i] <= MaxEnergy
<1>1. Moments \subseteq Nat
  BY ConstantsAre DEF Moments
<1>2. ASSUME Typed PROVE \A p \in Index : last[p] \in Reads /\ energy[p] \in Reads
  <2>1. last \in [Index -> Reads] /\ energy \in [Index -> Reads]
    BY <1>2 DEF Typed
  <2> HIDE DEF Reads, Index
  <2> QED BY <2>1
<1>3. ASSUME Typed PROVE \A i \in Ids \cup {Clock} : consumed[i] \in Moments /\ consumed[i] <= MaxEnergy
  <2>1. consumed \in [Ids \cup {Clock} -> 0..MaxEnergy]
    BY <1>3 DEF Typed
  <2> QED BY <2>1, ConstantsAre DEF Moments
<1>4. ASSUME Typed PROVE \A p \in Index : taken[p][1] \in Moments /\ taken[p][2] \in Moments
  <2>1. taken \in Histories
    BY <1>4 DEF Typed
  <2> QED BY <2>1 DEF Histories
<1> QED BY <1>1, <1>2, <1>3, <1>4

\* The moment of a reading goes into the history of its package.
LEMMA TakesIs ==
  ASSUME Typed, NEW p \in Index, NEW used \in Moments, Takes(p, used)
  PROVE  /\ taken' \in Histories /\ taken'[p][1] = taken[p][2] /\ taken'[p][2] = used
         /\ \A q \in Index : q # p => taken'[q] = taken[q]
<1>1. taken \in Histories /\ taken[p][2] \in Moments
  BY ReadsAre DEF Typed
<1>2. taken' = [taken EXCEPT ![p] = <<taken[p][2], used>>]
  BY DEF Takes
<1>3. <<taken[p][2], used>> \in Moments \X Moments
  BY <1>1
<1>4. taken'[p] = <<taken[p][2], used>>
  BY <1>1, <1>2 DEF Histories
<1> QED BY <1>1, <1>2, <1>3, <1>4 DEF Histories

LEMMA ValidIsKept ==
  ASSUME Typed, consumed' \in [Ids \cup {Clock} -> 0..MaxEnergy],
         UNCHANGED <<program, machine, method>>,
         \A i \in Ids \cup {Clock} : consumed[i] <= consumed'[i],
         NEW p \in Index, opened'[p] = opened[p], NEW r \in Reads, NEW at \in Moments, NEW ds,
         Valid(r, at, p, ds)
  PROVE  Valid(r, at, p, ds)'
<1>1. Ids' = Ids /\ ZoneOwner(p)' = ZoneOwner(p)
  BY MachineIsKept
<1>2. Source(p)' = Source(p)
  BY <1>1 DEF Source, Owner
<1>3. \A d \in Domains : Value(p, d, at)' = Value(p, d, at)
  BY DEF Value, Wide
<1>4. Source(p) \in Ids \cup {Clock} /\ at <= consumed[Source(p)]
  BY DEF Valid
<1>5. at <= consumed'[Source(p)]
  <2>1. /\ consumed[Source(p)] \in Nat /\ at \in Nat
        /\ consumed[Source(p)] <= consumed'[Source(p)]
    BY <1>4, ReadsAre
  <2>2. consumed'[Source(p)] \in Nat
    <3>1. consumed'[Source(p)] \in 0..MaxEnergy
      BY <1>4
    <3> QED BY <3>1, ConstantsAre
  <2> QED BY <1>4, <2>1, <2>2
<1> QED BY <1>1, <1>2, <1>3, <1>4, <1>5 DEF Valid

LEMMA SetsAreKept ==
  ASSUME UNCHANGED <<program, machine, method, cpu_model>>, NEW p \in Index
  PROVE  LastSet(p)' = LastSet(p) /\ EnergySet(p)' = EnergySet(p)
  BY DEF LastSet, EnergySet

\* Readings that are there stay good.
LEMMA ReadingsAreKept ==
  ASSUME Typed, consumed' \in [Ids \cup {Clock} -> 0..MaxEnergy],
         UNCHANGED <<program, machine, method, opened, cpu_model>>,
         \A i \in Ids \cup {Clock} : consumed[i] <= consumed'[i],
         NEW p \in Index
  PROVE  /\ \A at \in Moments : last'[p] = last[p] /\ Valid(last[p], at, p, LastSet(p))
              => Valid(last[p], at, p, LastSet(p))'
         /\ \A at \in Moments : energy'[p] = energy[p] /\ Valid(energy[p], at, p, EnergySet(p))
              => Valid(energy[p], at, p, EnergySet(p))'
         /\ last'[p] = last[p] /\ LastAt(p)' = LastAt(p) /\ LastIs(p) => LastIs(p)'
         /\ energy'[p] = energy[p] /\ taken'[p] = taken[p] /\ EnergyIs(p) => EnergyIs(p)'
         /\ last'[p] = last[p] /\ energy'[p] = energy[p] /\ taken'[p] = taken[p] /\ Good(p) => Good(p)'
<1>1. LastSet(p)' = LastSet(p) /\ EnergySet(p)' = EnergySet(p)
  BY SetsAreKept
<1>2. last[p] \in Reads /\ energy[p] \in Reads /\ taken[p][1] \in Moments /\ taken[p][2] \in Moments
      /\ LastAt(p) \in Moments
  BY ReadsAre DEF LastAt
<1>3. ASSUME NEW at \in Moments, last'[p] = last[p], Valid(last[p], at, p, LastSet(p))
      PROVE  Valid(last[p], at, p, LastSet(p))'
  BY <1>1, <1>2, <1>3, ValidIsKept DEF Valid
<1>4. ASSUME NEW at \in Moments, energy'[p] = energy[p], Valid(energy[p], at, p, EnergySet(p))
      PROVE  Valid(energy[p], at, p, EnergySet(p))'
  BY <1>1, <1>2, <1>4, ValidIsKept DEF Valid
<1>5. ASSUME last'[p] = last[p], LastAt(p)' = LastAt(p), LastIs(p) PROVE LastIs(p)'
  <2>1. PICK at \in Moments : at = LastAt(p)
    BY <1>2
  <2>2. Valid(last[p], at, p, LastSet(p))
    BY <1>5, <2>1 DEF LastIs
  <2>3. Valid(last[p], at, p, LastSet(p))'
    BY <1>3, <1>5, <2>2
  <2> QED BY <1>5, <2>1, <2>3 DEF LastIs, Valid
<1>6. ASSUME energy'[p] = energy[p], taken'[p] = taken[p], EnergyIs(p) PROVE EnergyIs(p)'
  <2>1. PICK at \in Moments : at = taken[p][2]
    BY <1>2
  <2>2. Valid(energy[p], at, p, EnergySet(p))
    BY <1>6, <2>1 DEF EnergyIs
  <2>3. Valid(energy[p], at, p, EnergySet(p))'
    BY <1>4, <1>6, <2>2
  <2> QED BY <1>6, <2>1, <2>3 DEF EnergyIs, Valid
<1>7. ASSUME last'[p] = last[p], energy'[p] = energy[p], taken'[p] = taken[p], Good(p) PROVE Good(p)'
  <2>1. PICK at \in Moments : at = taken[p][1]
    BY <1>2
  <2>2. Valid(last[p], at, p, LastSet(p))
    BY <1>7, <2>1 DEF Good
  <2>3. Valid(last[p], at, p, LastSet(p))'
    BY <1>3, <1>7, <2>2
  <2>4. Valid(last[p], taken[p][1], p, LastSet(p))'
    BY <1>7, <2>1, <2>3 DEF Valid
  <2>5. EnergyIs(p)'
    BY <1>6, <1>7 DEF Good
  <2> QED BY <1>7, <2>4, <2>5 DEF Good
<1> QED BY <1>3, <1>4, <1>5, <1>6, <1>7

LEMMA SameReadings ==
  ASSUME Typed, UNCHANGED <<program, machine, method, opened, cpu_model, consumed>>
  PROVE  /\ \A p \in Index :
              /\ \A at \in Moments : last'[p] = last[p] /\ Valid(last[p], at, p, LastSet(p))
                   => Valid(last[p], at, p, LastSet(p))'
              /\ \A at \in Moments : energy'[p] = energy[p] /\ Valid(energy[p], at, p, EnergySet(p))
                   => Valid(energy[p], at, p, EnergySet(p))'
              /\ last'[p] = last[p] /\ LastAt(p)' = LastAt(p) /\ LastIs(p) => LastIs(p)'
              /\ energy'[p] = energy[p] /\ taken'[p] = taken[p] /\ EnergyIs(p) => EnergyIs(p)'
              /\ last'[p] = last[p] /\ energy'[p] = energy[p] /\ taken'[p] = taken[p] /\ Good(p) => Good(p)'
         /\ \A p \in Index, r \in Reads, at \in Moments : \A ds : Valid(r, at, p, ds) => Valid(r, at, p, ds)'
<1>1. consumed \in [Ids \cup {Clock} -> 0..MaxEnergy] /\ \A i \in Ids \cup {Clock} : consumed[i] <= consumed[i]
  <2>1. consumed \in [Ids \cup {Clock} -> 0..MaxEnergy]
    BY DEF Typed
  <2> QED BY <2>1, ConstantsAre
<1>2. consumed' \in [Ids \cup {Clock} -> 0..MaxEnergy] /\ \A i \in Ids \cup {Clock} : consumed[i] <= consumed'[i]
  BY <1>1
<1>3. ASSUME NEW p \in Index, NEW r \in Reads, NEW at \in Moments, NEW ds, Valid(r, at, p, ds)
      PROVE  Valid(r, at, p, ds)'
  BY <1>2, <1>3, ValidIsKept
<1>4. ASSUME NEW p \in Index
      PROVE  /\ \A at \in Moments : last'[p] = last[p] /\ Valid(last[p], at, p, LastSet(p))
                  => Valid(last[p], at, p, LastSet(p))'
             /\ \A at \in Moments : energy'[p] = energy[p] /\ Valid(energy[p], at, p, EnergySet(p))
                  => Valid(energy[p], at, p, EnergySet(p))'
             /\ last'[p] = last[p] /\ LastAt(p)' = LastAt(p) /\ LastIs(p) => LastIs(p)'
             /\ energy'[p] = energy[p] /\ taken'[p] = taken[p] /\ EnergyIs(p) => EnergyIs(p)'
             /\ last'[p] = last[p] /\ energy'[p] = energy[p] /\ taken'[p] = taken[p] /\ Good(p) => Good(p)'
  BY <1>2, ReadingsAreKept
<1> QED BY <1>3, <1>4

Invariant == Typed /\ Placed /\ ClockIsSlow /\ Opened /\ ReadSoFar /\ Reported /\ Swept

LEMMA DetectedIsKept ==
  ASSUME Detected, UNCHANGED <<machine, package_map, total_packages>>
  PROVE  Detected'
  BY MachineIsKept DEF Detected

\* Nothing is read yet.
LEMMA NothingRead ==
  ASSUME UNCHANGED program, shown' = {},
         pc' \in {"args", "names", "open", "stdin", "list", "before", "init", "start", "unable", "exit",
                  "done", "crashed", "empty"},
         pc' = "done" => program = "apm-read",
         pc' = "open" /\ program = "rapl-read" => j' = 0,
         pc' \in {"before", "start"} => j' = 0
  PROVE  ReadSoFar' /\ Reported' /\ Swept'
<1>1. ASSUME NEW p \in Index PROVE ~LastRead(p)' /\ ~EnergyRead(p)' /\ ~Twice(p)'
  BY DEF LastRead, EnergyRead, Twice
<1> QED BY <1>1 DEF ReadSoFar, Reported, Swept

-----------------------------------------------------------------------------
(* The steps before a reading.                                             *)

LEMMA InvariantInit == Init => Invariant
<1> SUFFICES ASSUME Init PROVE Invariant
  OBVIOUS
<1>1. NoReading \in Reads
  <2>1. -1 \in -1..(MaxEnergy + Word + ClockWord)
    BY ConstantsAre
  <2> QED BY <2>1 DEF NoReading, Reads, Unread
<1>2. consumed = [i \in Ids \cup {Clock} |-> 0] /\ consumed[Clock] = 0 /\ MaxEnergy \div 2 >= 0
  <2>1. MaxEnergy \div 2 >= 0
    BY ConstantsAre
  <2>2. consumed = [i \in Ids \cup {Clock} |-> 0] /\ Clock \in Ids \cup {Clock}
    BY DEF Init
  <2> QED BY <2>1, <2>2
<1>0. 0..(MAX_PACKAGES - 1) = Index
  BY DEF MAX_PACKAGES, Index
<1>3. Typed
  <2>1. /\ last \in [Index -> Reads] /\ energy \in [Index -> Reads] /\ taken \in Histories
        /\ consumed \in [Ids \cup {Clock} -> 0..MaxEnergy]
    <3>0. taken \in Histories
      <4>1. taken = [p \in Index |-> <<0, 0>>]
        BY <1>0 DEF Init
      <4>2. 0 \in Moments
        BY ConstantsAre DEF Moments
      <4> QED BY <4>1, <4>2 DEF Histories
    <3>1. last = [p \in Index |-> NoReading] /\ energy = last
      BY <1>0 DEF Init
    <3>2. last \in [Index -> Reads] /\ energy \in [Index -> Reads]
      BY <1>1, <3>1
    <3> QED BY <1>2, <3>0, <3>2, ConstantsAre
  <2>2. /\ package_map \in [Index -> -1..Cardinality(DOMAIN machine.packages)]
        /\ opened \in [Index -> -1..MaxEnergy]
    <3>1. machine \in Machines
      BY DEF Init
    <3>2. Cardinality(DOMAIN machine.packages) \in Nat
      BY <3>1, MachineIs
    <3>3. package_map = [p \in Index |-> -1] /\ opened = [p \in Index |-> -1]
      BY <1>0 DEF Init
    <3>4. -1 \in -1..Cardinality(DOMAIN machine.packages) /\ -1 \in -1..MaxEnergy
      BY <3>2, ConstantsAre
    <3> QED BY <3>3, <3>4
  <2>3. TypedState
    <3>1. 0 \in Index /\ 0 \in 0..16 /\ {} \subseteq Index
      BY DEF Index
    <3>2. pc \in Places /\ method \in Methods /\ cpu_model \in Models
      BY DEF Init, Places, Methods, Models
    <3> QED BY <3>1, <3>2 DEF Init, TypedState
  <2> QED BY <2>1, <2>2, <2>3 DEF Typed
<1>4. Placed /\ ClockIsSlow
  BY <1>2 DEF Init, Placed, Detected, Located, ClockIsSlow
<1>5. Opened
  BY <1>0 DEF Init, Opened
<1>6. ReadSoFar /\ Reported /\ Swept
  <2>1. ASSUME NEW p \in Index PROVE ~LastRead(p) /\ ~EnergyRead(p) /\ ~Twice(p)
    BY DEF Init, LastRead, EnergyRead, Twice
  <2> QED BY <2>1 DEF Init, ReadSoFar, Reported, Swept
<1> QED BY <1>3, <1>4, <1>5, <1>6 DEF Invariant

\* Nothing the packages use is opened or counted.
LEMMA OpenedIsKept ==
  ASSUME Opened, UNCHANGED <<machine, package_map, total_packages, opened, consumed>>,
         method' = "perf" => /\ method = "perf"
                             /\ pc # "open" \/ (pc' = "open" /\ j' = j)
  PROVE  Opened'
  BY MachineIsKept DEF Opened, Packages, core, Index

LEMMA MainIs ==
  ASSUME Invariant, main \/ main_plot \/ main_apm
  PROVE  Invariant'
<1>1. /\ pc = "args" /\ j = 0 /\ method = "" /\ first_time /\ shown = {}
      /\ UNCHANGED <<options, method, j, result, last, energy, shown, taken, opened, first_time, consumed>>
  BY DEF main, main_plot, main_apm, Main, Exit, Invariant, Placed, Located, Reported
<1>2. /\ program = "apm-read" => pc' \in {"init", "exit", "crashed"}
      /\ program \in {"rapl-read", "rapl-plot"} => pc' \in {"list", "open", "names", "exit", "crashed", "empty"}
      /\ program \in {"rapl-read", "rapl-plot", "apm-read"}
      /\ exit' \in {exit, 0, -1}
  BY DEF main, main_plot, main_apm, Main, Exit
<1>3. /\ total_packages' # 0 =>
           package_map' = [id \in Index |-> FirstCore(id)] /\ total_packages' = CountPackages
      /\ program # "apm-read" /\ pc' \notin {"exit", "crashed", "empty"}
           => total_packages' = CountPackages /\ CountPackages # 0
      /\ package_map' \in {package_map, [id \in Index |-> FirstCore(id)]}
      /\ total_packages' \in {total_packages, CountPackages, 0}
      /\ cpu_model' \in Models
  <2>1. DOMAIN package_map = Index /\ machine \in Machines /\ cpu_model \in Models
    <3>1. package_map \in [Index -> -1..Cardinality(DOMAIN machine.packages)]
      BY DEF Invariant, Typed
    <3> QED BY <3>1 DEF Invariant, Typed, TypedState
  <2>2. machine.model \in Models /\ "unknown" \in Models
    BY <2>1, MachineIs DEF Models
  <2>3. total_packages # 0 =>
          package_map = [id \in Index |-> FirstCore(id)] /\ total_packages = CountPackages
    BY DEF Invariant, Placed, Detected
  <2>4. CASE main_apm
    BY <2>1, <2>3, <2>4 DEF main_apm
  <2>5. CASE main
    <3>1. \/ /\ cpu_model' = machine.model /\ package_map' = [id \in Index |-> FirstCore(id)]
             /\ total_packages' = CountPackages
             /\ (pc' # "empty" => CountPackages # 0)
          \/ pc' \in {"exit", "crashed"} /\ UNCHANGED <<cpu_model, package_map, total_packages>>
      BY <2>1, <2>5 DEF main, Main, detect_cpu, detected, Exit
    <3> QED BY <2>1, <2>2, <2>3, <3>1
  <2>6. CASE main_plot
    <3>1. \/ /\ cpu_model' \in {machine.model, "unknown"}
             /\ package_map' = [id \in Index |-> FirstCore(id)] /\ total_packages' = CountPackages
             /\ (pc' # "empty" => CountPackages # 0)
          \/ pc' \in {"exit", "crashed"} /\ UNCHANGED <<cpu_model, package_map, total_packages>>
      BY <2>1, <2>6 DEF main_plot, Main, detect_cpu_plot, detected, Exit
    <3> QED BY <2>1, <2>2, <2>3, <3>1
  <2> QED BY <2>4, <2>5, <2>6
<1>4. /\ machine' = machine /\ machine \in Machines /\ CountPackages \in 0..16 /\ CountPackages' = CountPackages
      /\ Ids' = Ids /\ \A p \in Index : FirstCore(p)' = FirstCore(p)
  BY <1>1, IdsAre, MachineIsKept DEF Invariant, Typed, TypedState, options
<1>5. Typed'
  <2>1. [id \in Index |-> FirstCore(id)] \in [Index -> -1..Cardinality(DOMAIN machine.packages)]
    BY <1>4, FirstCoreIs DEF Index
  <2>2. package_map' \in [Index -> -1..Cardinality(DOMAIN machine'.packages)]
    BY <1>3, <1>4, <2>1 DEF Invariant, Typed
  <2>3. total_packages' \in 0..16
    <3>1. total_packages \in 0..16
      BY DEF Invariant, Typed, TypedState
    <3>2. CountPackages \in 0..16
      BY <1>4
    <3> QED BY <1>3, <3>1, <3>2
  <2>4. TypedState'
    <3>1. pc' \in Places /\ total_packages' \in 0..16 /\ cpu_model' \in Models
      BY <1>2, <1>3, <2>3 DEF Places
    <3>2. exit' \in {-1, 0, 2, 3, 127}
      BY <1>2, TypedStateIs DEF Invariant
    <3>3. UNCHANGED <<program, machine, force_msr, force_perf, method, j, result, shown, first_time>>
      BY <1>1 DEF options
    <3>4. TypedState
      BY DEF Invariant, Typed
    <3> QED BY <3>1, <3>2, <3>3, <3>4, Zenon DEF TypedState
  <2>5. UNCHANGED <<opened, last, energy, taken, consumed>>
    BY <1>1
  <2> QED BY <1>4, <2>2, <2>4, <2>5 DEF Invariant, Typed
<1>6. Placed'
  <2>1. total_packages' # 0 =>
          package_map' = [id \in Index |-> FirstCore(id)'] /\ total_packages' = CountPackages'
    BY <1>3, <1>4
  <2>2. program # "apm-read" /\ pc' \notin {"exit", "crashed", "empty"} => total_packages' \in 1..16
    BY <1>3, <1>4
  <2>3. /\ program' = program /\ j' = 0 /\ method' = "" /\ first_time'
        /\ pc' \in {"init", "exit", "list", "open", "names", "crashed", "empty"}
        /\ program = "apm-read" => pc' \in {"init", "exit", "crashed"}
        /\ program # "apm-read" => pc' # "init"
    BY <1>1, <1>2 DEF options
  <2>4. program # "apm-read" /\ pc' \notin {"exit", "crashed", "empty"} => j' < total_packages' /\ total_packages' # 0
    <3>1. j' = 0
      BY <1>1
    <3> QED BY <2>2, <3>1
  <2> QED BY <2>1, <2>3, <2>4 DEF Placed, Detected, Located
<1>7. ClockIsSlow'
  BY <1>1, <1>2 DEF Invariant, ClockIsSlow, options
<1>8. Opened'
  BY <1>1, <1>4 DEF Invariant, Opened
<1>9. ReadSoFar' /\ Reported' /\ Swept'
  BY <1>1, <1>2, NothingRead DEF options
<1> QED BY <1>5, <1>6, <1>7, <1>8, <1>9 DEF Invariant

LEMMA ChoiceIs ==
  ASSUME Invariant, Names \/ InputArrives \/ init_apm_pwr_reporting
  PROVE  Invariant'
<1>1. /\ shown = {} /\ first_time /\ j = 0 /\ method = ""
      /\ UNCHANGED <<options, j, detected, opened, result, first_time, exit, last, energy, shown, taken, consumed>>
      /\ \/ pc = "names" /\ program # "apm-read"
            /\ ((pc' = "list" /\ method' = method) \/ (pc' = "before" /\ method' = "sysfs"))
         \/ pc = "stdin" /\ pc' = "list" /\ program = "rapl-plot" /\ method' = method
         \/ pc = "init" /\ program = "apm-read"
            /\ ((pc' = "start" /\ method' = "apm") \/ (pc' = "done" /\ method' = method))
  <2>1. CASE Names
    BY <2>1 DEF Names, Invariant, Placed, Located, Reported, options
  <2>2. CASE InputArrives
    <3>1. program \in Programs
      BY DEF Invariant, Typed, TypedState
    <3>2. program \in {"rapl-read", "rapl-plot", "apm-read"}
      BY <3>1, RaplAssumption
    <3> QED BY <2>2, <3>2 DEF InputArrives, Invariant, Placed, Located, Reported, options
  <2>3. CASE init_apm_pwr_reporting
    BY <2>3 DEF init_apm_pwr_reporting, Invariant, Placed, Located, Reported, options
  <2> QED BY <2>1, <2>2, <2>3
<1>2. UNCHANGED <<program, machine, total_packages, package_map, cpu_model>>
  BY <1>1 DEF options, detected
<1>3. Typed'
  <2>1. TypedState'
    <3>1. pc' \in Places /\ method' \in Methods
      BY <1>1, TypedStateIs DEF Invariant, Places, Methods
    <3> QED BY <1>1, <1>2, <3>1, TypedStateIs, StateIsTyped DEF Invariant
  <2>2. Ids' = Ids /\ UNCHANGED <<machine, package_map, opened, last, energy, taken, consumed>>
    BY <1>1, <1>2, MachineIsKept
  <2> QED BY <2>1, <2>2 DEF Invariant, Typed
<1>4. Placed'
  BY <1>1, <1>2, DetectedIsKept DEF Invariant, Placed, Located
<1>5. ClockIsSlow'
  BY <1>1, <1>2 DEF Invariant, ClockIsSlow
<1>6. Opened'
  BY <1>1, <1>2, OpenedIsKept DEF Invariant
<1>7. ReadSoFar' /\ Reported' /\ Swept'
  BY <1>1, <1>2, NothingRead
<1> QED BY <1>3, <1>4, <1>5, <1>6, <1>7 DEF Invariant

\* The package a loop is at, and the next.
LEMMA AtPackage ==
  ASSUME Invariant, pc \in {"names", "open", "list", "before", "after", "stdin", "sleep"}
  PROVE  /\ total_packages \in 1..16 /\ j \in 0..(total_packages - 1) /\ j \in Packages /\ j \in Index
         /\ j \in Nat /\ machine \in Machines /\ package_map[j] = FirstCore(j)
         /\ \A p \in Packages : p \in Index
<1>1. total_packages \in 0..16 /\ j \in Index /\ machine \in Machines
  BY DEF Invariant, Typed, TypedState
<1>2. total_packages # 0 /\ j < total_packages
  <2>1. program # "apm-read"
    BY DEF Invariant, Placed, Located
  <2> QED BY <2>1 DEF Invariant, Placed, Located
<1>3. package_map = [id \in Index |-> FirstCore(id)]
  BY <1>2 DEF Invariant, Placed, Detected
<1> QED BY <1>1, <1>2, <1>3 DEF Index, Packages

LEMMA NextPackageIs ==
  ASSUME total_packages \in 1..16, j \in 0..(total_packages - 1), NEW label, NextPackage(label)
  PROVE  \/ j' = 0 /\ pc' = label /\ j = total_packages - 1
         \/ j' = j + 1 /\ pc' = pc /\ j' \in 1..(total_packages - 1) /\ j' \in Index
  BY DEF NextPackage, AtLast, Index

LEMMA OpensIs ==
  ASSUME Invariant, pc = "open", OpensEvents, method' = "perf", NEW label, NextPackage(label),
         label # "open", UNCHANGED <<options, detected, consumed>>
  PROVE  /\ core(j) \in Seen /\ j \in Ids /\ Owner(j) = j /\ consumed[j] \in Moments
         /\ consumed[j] \in 0..MaxEnergy /\ opened' \in [Index -> -1..MaxEnergy]
         /\ opened'[j] = consumed[j] /\ \A p \in Index : p # j => opened'[p] = opened[p]
         /\ Opened'
<1>1. /\ total_packages \in 1..16 /\ j \in 0..(total_packages - 1) /\ j \in Packages /\ j \in Index
      /\ j \in Nat /\ machine \in Machines /\ package_map[j] = FirstCore(j)
      /\ \A p \in Packages : p \in Index
  BY AtPackage
<1>2. core(j) \in Seen /\ opened' = [opened EXCEPT ![j] = consumed[machine.packages[core(j)]]]
  BY DEF OpensEvents
<1>3. machine.packages[core(j)] = j /\ j \in Ids
  BY <1>1, <1>2, FirstCoreIs DEF core
<1>4. consumed[j] \in 0..MaxEnergy /\ opened \in [Index -> -1..MaxEnergy]
  <2>1. consumed \in [Ids \cup {Clock} -> 0..MaxEnergy] /\ opened \in [Index -> -1..MaxEnergy]
    BY DEF Invariant, Typed
  <2> QED BY <1>3, <2>1
<1>5. /\ opened' \in [Index -> -1..MaxEnergy] /\ opened'[j] = consumed[j]
      /\ \A p \in Index : p # j => opened'[p] = opened[p]
  BY <1>1, <1>2, <1>3, <1>4
<1>6. Owner(j) = j
  BY DEF Owner, Invariant, Placed, Located
<1>7. UNCHANGED <<machine, package_map, total_packages, consumed, program>> /\ Packages' = Packages
      /\ Ids' = Ids /\ Seen' = Seen
  BY MachineIsKept DEF options, detected, Packages
<1>8. \A p \in Index : opened'[p] # -1 => p \in Ids' /\ opened'[p] <= consumed'[p]
  <2>1. \A p \in Index : opened[p] # -1 => p \in Ids /\ opened[p] <= consumed[p]
    BY DEF Invariant, Opened
  <2>2. consumed[j] <= consumed[j]
    BY <1>4
  <2> QED BY <1>3, <1>5, <1>7, <2>1, <2>2
<1>9. ASSUME NEW p \in Packages, pc' # "open" \/ p < j' PROVE opened'[p] # -1 /\ core(p)' \in Seen
  <2>1. p \in 0..(total_packages - 1) /\ p \in Index
    BY <1>1 DEF Packages
  <2>2. p < j \/ p = j
    BY <1>1, <1>9, <2>1, NextPackageIs
  <2>3. core(p)' = core(p)
    BY <1>7 DEF core
  <2>4. CASE p = j
    BY <1>2, <1>4, <1>5, <2>3, <2>4
  <2>5. CASE p < j
    <3>1. method = "perf"
      <4>1. j # 0
        BY <2>1, <2>5
      <4> QED BY <4>1 DEF Invariant, Placed, Located
    <3>2. opened[p] # -1 /\ core(p) \in Seen
      BY <2>5, <3>1 DEF Invariant, Opened
    <3>3. p # j
      BY <1>1, <2>1, <2>5
    <3> QED BY <1>5, <2>1, <2>3, <3>2, <3>3
  <2> QED BY <2>2, <2>4, <2>5
<1>10. Opened'
  BY <1>7, <1>8, <1>9 DEF Opened
<1> QED BY <1>2, <1>3, <1>4, <1>5, <1>6, <1>10 DEF Moments

LEMMA OpenEventsIs ==
  ASSUME Invariant, OpenEvents
  PROVE  Invariant'
<1>1. /\ program = "rapl-read" /\ pc = "open" /\ shown = {}
      /\ UNCHANGED <<options, detected, result, first_time, exit, energy, shown, consumed>>
      /\ UNCHANGED <<program, machine, total_packages, package_map, cpu_model, force_msr, force_perf>>
  BY DEF OpenEvents, Invariant, Reported, options, detected
<1>2. /\ total_packages \in 1..16 /\ j \in 0..(total_packages - 1) /\ j \in Index /\ j \in Nat
  BY <1>1, AtPackage
<1>3. Ids' = Ids
  BY <1>1, MachineIsKept
<1>4. CASE OpensEvents /\ method' = "perf" /\ NextPackage("sleep")
           /\ last' = [last EXCEPT ![j] = [d \in Domains |-> 0]] /\ Takes(j, consumed[j])
  <2>1. /\ core(j) \in Seen /\ j \in Ids /\ Owner(j) = j /\ consumed[j] \in Moments
        /\ consumed[j] \in 0..MaxEnergy /\ opened' \in [Index -> -1..MaxEnergy]
        /\ opened'[j] = consumed[j] /\ \A p \in Index : p # j => opened'[p] = opened[p]
        /\ Opened'
    BY <1>1, <1>4, OpensIs
  <2> DEFINE r == [d \in Domains |-> 0]
  <2>0. /\ taken' \in Histories /\ taken'[j][2] = consumed[j]
        /\ \A p \in Index : p # j => taken'[p] = taken[p]
    BY <1>2, <1>4, <2>1, TakesIs DEF Invariant
  <2>2. r \in Reads
    BY <2>1, ConstantsAre DEF Reads
  <2>3. last' \in [Index -> Reads] /\ last'[j] = r /\ \A p \in Index : p # j => last'[p] = last[p]
    <3>1. last \in [Index -> Reads] /\ last' = [last EXCEPT ![j] = r]
      BY <1>4, <2>1 DEF Invariant, Typed
    <3> HIDE DEF r, Reads, Index
    <3> QED BY <1>2, <2>2, <3>1
  <2>4. \/ j' = 0 /\ pc' = "sleep" /\ j = total_packages - 1
        \/ j' = j + 1 /\ pc' = "open" /\ j' \in 1..(total_packages - 1) /\ j' \in Index
    BY <1>1, <1>2, <1>4, NextPackageIs
  <2>5. Typed'
    <3>1. TypedState'
      <4>1. j' \in Index /\ pc' \in Places /\ method' \in Methods
        BY <1>4, <2>4 DEF Index, Places, Methods
      <4> QED BY <1>1, <4>1, TypedStateIs, StateIsTyped DEF Invariant
    <3> QED BY <1>1, <1>3, <2>0, <2>1, <2>3, <3>1 DEF Invariant, Typed
  <2>6. Placed'
    <3>1. Detected'
      BY <1>1, DetectedIsKept DEF Invariant, Placed
    <3>2. Located'
      <4>1. method' = "perf" /\ first_time'
        BY <1>1, <1>4 DEF Invariant, Placed, Located
      <4>2. program' = "rapl-read" /\ total_packages' \in 1..16
        BY <1>1, <1>2
      <4>3. \/ j' = 0 /\ pc' = "sleep"
            \/ pc' = "open" /\ j' # 0
        BY <2>4
      <4>4. j' < total_packages'
        BY <1>1, <1>2, <2>4
      <4> QED BY <4>1, <4>2, <4>3, <4>4 DEF Located
    <3> QED BY <3>1, <3>2 DEF Placed
  <2>7. ClockIsSlow'
    BY <1>1, <2>4 DEF Invariant, ClockIsSlow
  <2>8. ReadSoFar'
    <3>1. ASSUME NEW p \in Index PROVE ~EnergyRead(p)' /\ ~Twice(p)'
      BY <1>1, <2>4 DEF EnergyRead, Twice
    <3>2. ASSUME NEW p \in Index, LastRead(p)' PROVE LastIs(p)'
      <4>1. p < j \/ p = j
        BY <1>1, <1>2, <2>4, <3>2 DEF LastRead, Packages
      <4>2. LastSet(p)' = Domains /\ LastAt(p)' = taken'[p][2]
        BY <1>1, <1>4, <3>1 DEF LastSet, LastAt
      <4>3. CASE p = j
        <5>0. method' = "perf"
          BY <1>4
        <5>1. Source(p)' = p /\ p \in Ids'
          BY <1>3, <2>1, <4>3, <5>0 DEF Source, Owner
        <5>2. consumed[p] \in Nat /\ opened'[p] = consumed[p] /\ consumed'[p] = consumed[p]
          BY <1>1, <2>1, <4>3, ConstantsAre
        <5>3. taken'[p][2] = consumed[p] /\ \A d \in Domains : last'[p][d] = 0
          BY <2>0, <2>3, <4>3
        <5>4. \A d \in Domains : Value(p, d, taken[p][2])' = 0
          BY <5>0, <5>2, <5>3 DEF Value
        <5>5. Valid(last[p], taken[p][2], p, Domains)'
          BY <5>0, <5>1, <5>2, <5>3, <5>4 DEF Valid
        <5> QED BY <4>2, <5>5 DEF LastIs, Valid
      <4>4. CASE p < j
        <5>1. p \in 0..(j - 1) /\ j # 0 /\ p # j
          BY <1>2, <4>4 DEF Index
        <5>2. method = "perf"
          BY <1>1, <5>1 DEF Invariant, Placed, Located
        <5>3. LastRead(p) /\ ~Twice(p)
          BY <1>1, <5>1 DEF LastRead, Twice
        <5>4. Valid(last[p], taken[p][2], p, Domains)
          <6>1. LastIs(p) /\ LastSet(p) = Domains
            BY <1>1, <5>2, <5>3 DEF Invariant, ReadSoFar, LastSet
          <6> QED BY <5>3, <6>1 DEF LastIs, LastAt
        <5>5. last'[p] = last[p] /\ last[p] \in Reads /\ taken'[p] = taken[p] /\ taken[p][2] \in Moments
          BY <2>0, <2>3, <5>1, ReadsAre DEF Invariant
        <5>6. consumed' \in [Ids \cup {Clock} -> 0..MaxEnergy]
              /\ \A i \in Ids \cup {Clock} : consumed[i] <= consumed'[i]
          <6>1. consumed \in [Ids \cup {Clock} -> 0..MaxEnergy]
            BY DEF Invariant, Typed
          <6> QED BY <1>1, <6>1, ConstantsAre
        <5>7. \A x \in Reads, at \in Moments : Valid(x, at, p, Domains) => Valid(x, at, p, Domains)'
          BY <1>1, <1>4, <2>1, <5>1, <5>2, <5>6, ValidIsKept DEF Invariant
        <5>8. PICK x \in Reads, at \in Moments : x = last[p] /\ at = taken[p][2]
          BY <5>5
        <5>9. Valid(x, at, p, Domains)'
          BY <5>4, <5>7, <5>8
        <5> QED BY <4>2, <5>5, <5>8, <5>9 DEF LastIs, Valid
      <4> QED BY <4>1, <4>3, <4>4
    <3> QED BY <3>1, <3>2 DEF ReadSoFar
  <2>9. Reported' /\ Swept'
    BY <1>1, <2>4 DEF Reported, Swept
  <2> QED BY <2>1, <2>5, <2>6, <2>7, <2>8, <2>9 DEF Invariant
<1>5. CASE pc' = WithoutPerf /\ method' = "" /\ j' = 0 /\ UNCHANGED <<opened, last, taken>>
  <2>1. pc' = "list"
    BY <1>5 DEF WithoutPerf
  <2>2. Typed'
    <3>1. TypedState'
      <4>1. j' \in Index /\ pc' \in Places /\ method' \in Methods
        <5>1. 0 \in Index /\ "list" \in Places /\ "" \in Methods
          BY DEF Index, Places, Methods
        <5> QED BY <1>5, <2>1, <5>1
      <4> QED BY <1>1, <4>1, TypedStateIs, StateIsTyped DEF Invariant
    <3> QED BY <1>1, <1>3, <1>5, <3>1 DEF Invariant, Typed
  <2>3. Placed'
    <3>1. Detected'
      BY <1>1, DetectedIsKept DEF Invariant, Placed
    <3>2. Located'
      <4>1. j' = 0 /\ method' = "" /\ program' = "rapl-read" /\ total_packages' # 0 /\ j' < total_packages'
        <5>1. total_packages' \in 1..16
          BY <1>1, <1>2
        <5>2. j' = 0 /\ method' = ""
          BY <1>5
        <5>3. total_packages' # 0 /\ 0 < total_packages'
          BY <5>1
        <5> QED BY <1>1, <5>2, <5>3
      <4> QED BY <2>1, <4>1 DEF Located
    <3> QED BY <3>1, <3>2 DEF Placed
  <2>4. ClockIsSlow'
    BY <1>1, <2>1 DEF Invariant, ClockIsSlow
  <2>5. Opened'
    BY <1>1, <1>5, OpenedIsKept DEF Invariant
  <2>6. ReadSoFar' /\ Reported' /\ Swept'
    BY <1>1, <1>5, <2>1, NothingRead
  <2> QED BY <2>2, <2>3, <2>4, <2>5, <2>6 DEF Invariant
<1> QED BY <1>4, <1>5 DEF OpenEvents


\* A program that gives up keeps what it reported.
LEMMA ExitIs ==
  ASSUME Invariant, pc \notin {"args", "open", "start", "interval", "stop"}, pc' = "exit",
         exit' \in {-1, 0, 2, 3, 127},
         UNCHANGED <<options, detected, consumed, method, j, result, last, energy, shown, taken, opened, first_time>>
  PROVE  Invariant'
<1>1. UNCHANGED <<program, machine, total_packages, package_map, cpu_model, consumed, method, j, result,
                  last, energy, shown, taken, opened, first_time>>
  BY DEF options, detected
<1>2. Typed'
  <2>1. TypedState'
    <3>1. pc' \in Places
      BY DEF Places
    <3> QED BY <1>1, <3>1, TypedStateIs, StateIsTyped DEF Invariant
  <2> QED BY <1>1, <2>1, MachineIsKept DEF Invariant, Typed
<1>3. Placed'
  <2>1. Detected'
    BY <1>1, DetectedIsKept DEF Invariant, Placed
  <2>2. Located'
    BY <1>1 DEF Invariant, Placed, Located
  <2> QED BY <2>1, <2>2 DEF Placed
<1>4. ClockIsSlow'
  BY <1>1 DEF Invariant, ClockIsSlow
<1>5. Opened'
  BY <1>1, OpenedIsKept DEF Invariant
<1>6. ReadSoFar'
  BY DEF ReadSoFar, LastRead, EnergyRead, Twice
<1>7. Reported'
  BY <1>1, SameReadings DEF Invariant, Reported, Typed, TypedState
<1>8. Swept'
  BY <1>1, MachineIsKept DEF Invariant, Swept, core
<1> QED BY <1>2, <1>3, <1>4, <1>5, <1>6, <1>7, <1>8 DEF Invariant

LEMMA OpenEventsPlotIs ==
  ASSUME Invariant, OpenEventsPlot
  PROVE  Invariant'
<1>1. /\ program = "rapl-plot" /\ pc = "open" /\ shown = {} /\ first_time
      /\ UNCHANGED <<options, detected, result, first_time, exit, last, energy, shown, taken, consumed>>
      /\ UNCHANGED <<program, machine, total_packages, package_map, cpu_model, force_msr, force_perf>>
  BY DEF OpenEventsPlot, Invariant, Placed, Located, Reported, options, detected
<1>2. total_packages \in 1..16 /\ j \in 0..(total_packages - 1)
  BY <1>1, AtPackage
<1>3. Ids' = Ids
  BY <1>1, MachineIsKept
<1>4. \/ /\ OpensEvents /\ method' = "perf" /\ NextPackage("before")
      \/ pc' = "stdin" /\ method' = "" /\ j' = 0 /\ UNCHANGED opened
  BY DEF OpenEventsPlot
<1>5. /\ opened' \in [Index -> -1..MaxEnergy] /\ Opened'
      /\ \/ j' = 0 /\ pc' = "stdin" /\ method' = ""
         \/ j' = 0 /\ pc' = "before" /\ method' = "perf"
         \/ j' # 0 /\ pc' = "open" /\ method' = "perf"
      /\ j' \in Index /\ j' < total_packages
  <2>0. 0 \in Index /\ 0 < total_packages
    BY <1>2 DEF Index
  <2>1. CASE OpensEvents /\ method' = "perf" /\ NextPackage("before")
    <3>1. opened' \in [Index -> -1..MaxEnergy] /\ Opened'
      BY <1>1, <2>1, OpensIs
    <3>2. \/ j' = 0 /\ pc' = "before"
          \/ j' \in 1..(total_packages - 1) /\ pc' = "open" /\ j' \in Index
      BY <1>1, <1>2, <2>1, NextPackageIs
    <3>3. j' \in 1..(total_packages - 1) => j' # 0 /\ j' < total_packages
      BY <1>2
    <3> QED BY <2>0, <2>1, <3>1, <3>2, <3>3
  <2>2. CASE pc' = "stdin" /\ method' = "" /\ j' = 0 /\ UNCHANGED opened
    <3>1. Opened'
      BY <1>1, <2>2, OpenedIsKept DEF Invariant
    <3>2. opened' \in [Index -> -1..MaxEnergy]
      BY <2>2 DEF Invariant, Typed
    <3> QED BY <2>0, <2>2, <3>1, <3>2
  <2> QED BY <1>4, <2>1, <2>2
<1>6. Typed'
  <2>1. TypedState'
    <3>1. pc' \in Places /\ method' \in Methods
      BY <1>5 DEF Places, Methods
    <3> QED BY <1>1, <1>5, <3>1, TypedStateIs, StateIsTyped DEF Invariant
  <2> QED BY <1>1, <1>3, <1>5, <2>1 DEF Invariant, Typed
<1>7. Placed'
  <2>1. Detected'
    BY <1>1, DetectedIsKept DEF Invariant, Placed
  <2>2. Located'
    <3>1. total_packages' # 0 /\ j' < total_packages' /\ program' = "rapl-plot" /\ first_time'
      <4>1. total_packages' \in 1..16 /\ total_packages' = total_packages
        BY <1>1, <1>2
      <4>2. j' < total_packages'
        BY <1>5, <4>1
      <4>3. total_packages' # 0
        BY <4>1
      <4> QED BY <1>1, <4>2, <4>3
    <3> QED BY <1>5, <3>1 DEF Located
  <2> QED BY <2>1, <2>2 DEF Placed
<1>8. ClockIsSlow'
  BY <1>1, <1>5 DEF Invariant, ClockIsSlow
<1>9. ReadSoFar' /\ Reported' /\ Swept'
  BY <1>1, <1>5, NothingRead
<1> QED BY <1>5, <1>6, <1>7, <1>8, <1>9 DEF Invariant

LEMMA ListMsrIs ==
  ASSUME Invariant, ListMsr \/ ListMsrPlot
  PROVE  Invariant'
<1>1. /\ program \in {"rapl-read", "rapl-plot"} /\ pc = "list" /\ shown = {} /\ method \in {"", "msr"}
      /\ cpu_model = "unknown" => j = 0
      /\ UNCHANGED <<options, detected, consumed, last, energy, shown, taken, opened, first_time>>
      /\ UNCHANGED <<program, machine, total_packages, package_map, cpu_model, force_msr, force_perf>>
  BY DEF ListMsr, ListMsrPlot, Exit, Invariant, Placed, Located, Reported, options, detected
<1>2. total_packages \in 1..16 /\ j \in 0..(total_packages - 1) /\ j \in Index
  BY <1>1, AtPackage
<1>3. Ids' = Ids
  BY <1>1, MachineIsKept
<1>4. /\ \/ j' = j /\ pc' = "unable" /\ method' = method
         \/ cpu_model = "unknown" /\ j' = j /\ pc' = "before" /\ method' = "msr" /\ program = "rapl-plot"
         \/ cpu_model # "unknown" /\ NextPackage("before") /\ method' = "msr"
         \/ Exit(open_msr(j))
      /\ result' \in {result, -1} /\ exit' \in {exit, -1, open_msr(j)}
  BY DEF ListMsr, ListMsrPlot, Exit
<1>5. open_msr(j) \in {2, 3, 127}
  BY DEF open_msr
<1>6. CASE Exit(open_msr(j))
  <2>1. pc' = "exit" /\ exit' \in {-1, 0, 2, 3, 127} /\ UNCHANGED <<method, j, result, last, energy, shown, taken, opened, first_time>>
    BY <1>5, <1>6 DEF Exit
  <2> QED BY <1>1, <2>1, ExitIs
<1>7. CASE ~Exit(open_msr(j))
  <2>1. \/ j' = j /\ pc' = "unable" /\ method' = method
        \/ j' = 0 /\ pc' = "before" /\ method' = "msr" /\ (program = "rapl-read" => cpu_model # "unknown")
        \/ j' \in 1..(total_packages - 1) /\ pc' = "list" /\ method' = "msr" /\ cpu_model # "unknown"
    <3>1. CASE j' = j /\ pc' = "unable" /\ method' = method
      BY <3>1
    <3>2. CASE cpu_model = "unknown" /\ j' = j /\ pc' = "before" /\ method' = "msr" /\ program = "rapl-plot"
      BY <1>1, <3>2
    <3>3. CASE cpu_model # "unknown" /\ NextPackage("before") /\ method' = "msr"
      BY <1>1, <1>2, <3>3, NextPackageIs
    <3> QED BY <1>4, <1>7, <3>1, <3>2, <3>3
  <2>2. Typed'
    <3>1. TypedState'
      <4>1. pc' \in Places /\ method' \in Methods
        BY <1>1, <2>1 DEF Places, Methods
      <4>2. j' \in Index
        BY <1>2, <2>1 DEF Index
      <4>3. result' \in {0, -1} /\ exit' \in {-1, 0, 2, 3, 127}
        BY <1>4, <1>5, TypedStateIs DEF Invariant
      <4> QED BY <1>1, <4>1, <4>2, <4>3, TypedStateIs, StateIsTyped DEF Invariant
    <3> QED BY <1>1, <1>3, <3>1 DEF Invariant, Typed
  <2>3. Placed'
    <3>1. Detected'
      BY <1>1, DetectedIsKept DEF Invariant, Placed
    <3>2. Located'
      <4>1. total_packages' # 0 /\ j' < total_packages' /\ program' \in {"rapl-read", "rapl-plot"}
        <5>1. total_packages' \in 1..16 /\ total_packages' = total_packages
          BY <1>1, <1>2
        <5>2. j' = j \/ j' = 0 \/ j' \in 1..(total_packages - 1)
          BY <2>1
        <5>3. j' < total_packages
          BY <1>2, <5>2
        <5>4. j' < total_packages'
          BY <5>1, <5>3
        <5>5. total_packages' # 0
          BY <5>1
        <5> QED BY <1>1, <5>4, <5>5
      <4>2. /\ pc' \in {"unable", "before", "list"} /\ method' \in {"", "msr"}
            /\ pc' = "before" => method' = "msr"
            /\ pc' = "list" => cpu_model # "unknown"
            /\ program = "rapl-read" /\ pc' # "unable" => cpu_model # "unknown"
        BY <1>1, <2>1
      <4>3. method = "msr" /\ program = "rapl-read" => cpu_model # "unknown"
        BY DEF Invariant, Placed, Located
      <4>4. method' = "msr" /\ program = "rapl-read" => cpu_model # "unknown"
        BY <2>1, <4>3
      <4> QED BY <1>1, <4>1, <4>2, <4>4 DEF Located
    <3> QED BY <3>1, <3>2 DEF Placed
  <2>4. ClockIsSlow'
    <3>1. pc' \notin {"start", "interval", "stop"} /\ pc # "stop"
      BY <1>1, <2>1
    <3> QED BY <1>1, <3>1 DEF Invariant, ClockIsSlow
  <2>5. Opened'
    <3>1. method' # "perf"
      BY <1>1, <2>1
    <3> QED BY <1>1, <3>1, OpenedIsKept DEF Invariant
  <2>6. ReadSoFar' /\ Reported' /\ Swept'
    BY <1>1, <2>1, NothingRead
  <2> QED BY <2>2, <2>3, <2>4, <2>5, <2>6 DEF Invariant
<1> QED BY <1>6, <1>7

-----------------------------------------------------------------------------
(* The steps that read, in rapl-read and rapl-plot.                        *)

LEMMA LoopIs ==
  ASSUME Invariant, pc \in {"before", "sleep", "after"},
         UNCHANGED <<options, detected, method, opened, result, exit, consumed>>,
         j' \in 0..(total_packages - 1), pc' \in {"before", "sleep", "after", "done", "unable"},
         pc' = "before" => pc = "before", pc' = "sleep" => j' = 0,
         first_time' \in BOOLEAN, first_time' => first_time,
         last' \in [Index -> Reads], energy' \in [Index -> Reads], taken' \in Histories, shown' \subseteq Index
  PROVE  Typed' /\ Placed' /\ ClockIsSlow' /\ Opened'
<1>1. /\ UNCHANGED <<program, machine, total_packages, package_map, cpu_model>>
      /\ UNCHANGED <<method, opened, result, exit, consumed>>
  BY DEF options, detected
<1>2. total_packages \in 1..16
  BY AtPackage
<1>3. j' \in Index /\ j' < total_packages
  BY <1>2 DEF Index
<1>4. Typed'
  <2>1. TypedState'
    <3>1. pc' \in Places
      BY DEF Places
    <3> QED BY <1>1, <1>3, <3>1, TypedStateIs, StateIsTyped DEF Invariant
  <2> QED BY <1>1, <2>1, MachineIsKept DEF Invariant, Typed
<1>5. Placed'
  <2>1. Detected'
    BY <1>1, DetectedIsKept DEF Invariant, Placed
  <2>2. Located'
    <3>1. total_packages' # 0
      BY <1>1, <1>2
    <3>2. j' < total_packages'
      BY <1>1, <1>3
    <3>3. /\ program # "apm-read" /\ method \in {"sysfs", "perf", "msr"}
          /\ pc = "before" /\ program = "rapl-read" => method # "perf"
          /\ method = "msr" /\ program = "rapl-read" => cpu_model # "unknown"
      BY DEF Invariant, Placed, Located
    <3> QED BY <1>1, <3>1, <3>2, <3>3 DEF Located
  <2> QED BY <2>1, <2>2 DEF Placed
<1>6. ClockIsSlow'
  BY <1>1 DEF Invariant, ClockIsSlow
<1>7. Opened'
  BY <1>1, OpenedIsKept DEF Invariant
<1> QED BY <1>4, <1>5, <1>6, <1>7

\* Package j is read: the reading tells what its owner has used, now.
LEMMA LoopReadingIs ==
  ASSUME Invariant, pc \in {"before", "after"}, NEW ds, Readable(ds), Takes(j, consumed[Owner(j)]),
         UNCHANGED <<options, detected, opened, method, consumed>>
  PROVE  /\ Reading(j, ds) \in Reads /\ taken' \in Histories
         /\ taken'[j][1] = taken[j][2] /\ taken'[j][2] = consumed[Source(j)]
         /\ \A p \in Index : p # j => taken'[p] = taken[p]
         /\ \A p \in Index : p = j /\ last'[p] = Reading(j, ds) /\ LastSet(p) = SetRead(ds)
              => Valid(last[p], taken[p][2], p, LastSet(p))'
         /\ \A p \in Index : p = j /\ energy'[p] = Reading(j, ds) /\ EnergySet(p) = SetRead(ds) => EnergyIs(p)'
         /\ method # "sysfs" => core(j) \in Seen
         /\ \A p \in Index : /\ LastSet(p)' = LastSet(p) /\ EnergySet(p)' = EnergySet(p)
                             /\ core(p)' = core(p)
         /\ Seen' = Seen /\ j \in Index
<1>1. j \in Packages /\ j \in Index
  BY AtPackage
<1>2. method \in {"sysfs", "perf", "msr"}
  BY DEF Invariant, Placed, Located
<1>3. method # "sysfs" => core(j) \in Seen
  BY <1>1, <1>2 DEF Readable, MsrWorks, Invariant, Opened
<1>4. /\ Reading(j, ds) \in Reads /\ consumed[Owner(j)] \in Moments /\ Source(j) = Owner(j)
      /\ Valid(Reading(j, ds), consumed[Owner(j)], j, SetRead(ds))
  BY <1>1, <1>2, <1>3, ReadingIs DEF Invariant
<1>5. UNCHANGED <<program, machine, cpu_model, package_map>>
  BY DEF options, detected
<1>6. \A p \in Index : /\ LastSet(p)' = LastSet(p) /\ EnergySet(p)' = EnergySet(p)
                       /\ core(p)' = core(p)
  BY <1>5, SetsAreKept DEF core
<1>7. Seen' = Seen
  BY <1>5, MachineIsKept
<1>8. /\ taken' \in Histories /\ taken'[j][1] = taken[j][2] /\ taken'[j][2] = consumed[Owner(j)]
      /\ \A p \in Index : p # j => taken'[p] = taken[p]
  BY <1>1, <1>4, TakesIs DEF Invariant
<1>9. PICK at \in Moments, r \in Reads, e \in {SetRead(ds)} : at = consumed[Owner(j)] /\ r = Reading(j, ds)
  BY <1>4
<1>11. ASSUME NEW p \in Index, p = j, last'[p] = Reading(j, ds), LastSet(p) = SetRead(ds)
       PROVE  Valid(last[p], taken[p][2], p, LastSet(p))'
  <2>2. Valid(r, at, p, e)'
    <3>1. Valid(r, at, p, e)
      BY <1>4, <1>9, <1>11
    <3> QED BY <1>5, <3>1, SameReadings DEF Invariant
  <2>3. last'[p] = r /\ taken'[p][2] = at /\ LastSet(p)' = e
    BY <1>6, <1>8, <1>9, <1>11
  <2> QED BY <2>2, <2>3 DEF Valid
<1>12. ASSUME NEW p \in Index, p = j, energy'[p] = Reading(j, ds), EnergySet(p) = SetRead(ds)
       PROVE  EnergyIs(p)'
  <2>1. Valid(r, at, p, e)'
    <3>1. Valid(r, at, p, e)
      BY <1>4, <1>9, <1>12
    <3> QED BY <1>5, <3>1, SameReadings DEF Invariant
  <2>2. energy'[p] = r /\ taken'[p][2] = at /\ EnergySet(p)' = e
    BY <1>6, <1>8, <1>9, <1>12
  <2> QED BY <2>1, <2>2 DEF EnergyIs, Valid
<1> QED BY <1>1, <1>3, <1>4, <1>6, <1>7, <1>8, <1>11, <1>12

LEMMA BeforeIs ==
  ASSUME Invariant, Before
  PROVE  Invariant'
<1>1. /\ program = "rapl-read" /\ pc = "before" /\ shown = {} /\ method \in {"sysfs", "msr"}
      /\ UNCHANGED <<options, detected, method, result, energy, shown, opened, first_time, consumed>>
  BY DEF Before, Exit, Invariant, Placed, Located, Reported
<1>2. /\ total_packages \in 1..16 /\ j \in 0..(total_packages - 1) /\ j \in Index /\ j \in Nat
  BY <1>1, AtPackage
<1>3. CASE Readable(avail(cpu_model))
  <2> DEFINE r == Reading(j, avail(cpu_model))
  <2>1. /\ last' = [last EXCEPT ![j] = r] /\ NextPackage("sleep") /\ exit' = exit
        /\ Takes(j, consumed[Owner(j)])
    BY <1>3 DEF Before
  <2>2. /\ r \in Reads /\ taken' \in Histories /\ \A p \in Index : p # j => taken'[p] = taken[p]
        /\ \A p \in Index : p = j /\ last'[p] = r /\ LastSet(p) = SetRead(avail(cpu_model))
             => Valid(last[p], taken[p][2], p, LastSet(p))'
    BY <1>1, <1>3, <2>1, LoopReadingIs
  <2> HIDE DEF r
  <2>3. last' \in [Index -> Reads] /\ last'[j] = r /\ \A p \in Index : p # j => last'[p] = last[p]
    <3>1. last \in [Index -> Reads]
      BY DEF Invariant, Typed
    <3> HIDE DEF Reads, Index
    <3> QED BY <1>2, <2>1, <2>2, <3>1
  <2>4. \/ j' = 0 /\ pc' = "sleep" /\ j = total_packages - 1
        \/ j' = j + 1 /\ pc' = "before" /\ j' \in 1..(total_packages - 1)
    BY <1>1, <1>2, <2>1, NextPackageIs
  <2>5. Typed' /\ Placed' /\ ClockIsSlow' /\ Opened'
    <3>1. j' \in 0..(total_packages - 1)
      BY <1>2, <2>4
    <3>2. energy' \in [Index -> Reads] /\ shown' \subseteq Index /\ first_time' \in BOOLEAN
      BY <1>1, TypedStateIs DEF Invariant, Typed
    <3> QED BY <1>1, <2>1, <2>2, <2>3, <2>4, <3>1, <3>2, LoopIs
  <2>6. ReadSoFar'
    <3>1. program' = "rapl-read" /\ UNCHANGED <<program, machine, cpu_model>>
      BY <1>1 DEF options, detected
    <3>2. ASSUME NEW p \in Index PROVE ~EnergyRead(p)' /\ ~Twice(p)' /\ ~Twice(p)
      BY <1>1, <2>4, <3>1 DEF EnergyRead, Twice
    <3>3. ASSUME NEW p \in Index, LastRead(p)' PROVE LastIs(p)'
      <4>1. p < j \/ p = j
        <5>1. Packages' = 0..(total_packages - 1)
          BY <1>1 DEF Packages, detected
        <5>2. (pc' = "sleep" => p \in 0..(total_packages - 1)) /\ (pc' = "before" => p \in 0..(j' - 1))
          BY <3>1, <3>3, <5>1 DEF LastRead
        <5>3. CASE j' = 0 /\ pc' = "sleep" /\ j = total_packages - 1
          BY <1>2, <5>2, <5>3
        <5>4. CASE j' = j + 1 /\ pc' = "before"
          BY <1>2, <5>2, <5>4
        <5> QED BY <2>4, <5>3, <5>4
      <4>2. CASE p = j
        <5>1. LastSet(p) = SetRead(avail(cpu_model))
          BY <1>1 DEF LastSet, SetRead
        <5>2. Valid(last[p], taken[p][2], p, LastSet(p))'
          BY <2>2, <2>3, <4>2, <5>1
        <5> QED BY <3>2, <5>2 DEF LastIs, LastAt, Valid
      <4>3. CASE p < j
        <5>1. p \in 0..(j - 1) /\ p # j
          BY <1>2, <4>3 DEF Index
        <5>2. LastRead(p)
          BY <1>1, <5>1 DEF LastRead
        <5>3. LastIs(p)
          BY <5>2 DEF Invariant, ReadSoFar
        <5>4. LastAt(p)' = LastAt(p)
          BY <2>2, <3>2, <5>1 DEF LastAt
        <5> QED BY <1>1, <2>3, <3>1, <5>1, <5>3, <5>4, SameReadings DEF Invariant
      <4> QED BY <4>1, <4>2, <4>3
    <3> QED BY <3>2, <3>3 DEF ReadSoFar
  <2>7. Reported' /\ Swept'
    BY <1>1, <2>4 DEF Reported, Swept
  <2> QED BY <2>5, <2>6, <2>7 DEF Invariant
<1>4. CASE ~Readable(avail(cpu_model))
  <2>1. Exit(open_msr(j)) /\ open_msr(j) \in {2, 3, 127}
    BY <1>4 DEF Before, open_msr
  <2>2. pc' = "exit" /\ exit' \in {-1, 0, 2, 3, 127} /\ UNCHANGED <<method, j, result, last, energy, shown, taken, opened, first_time>>
    BY <2>1 DEF Exit
  <2> QED BY <1>1, <2>2, ExitIs
<1> QED BY <1>3, <1>4

LEMMA SleepSecondIs ==
  ASSUME Invariant, SleepSecond
  PROVE  Invariant'
<1>1. /\ program = "rapl-read" /\ pc = "sleep" /\ pc' = "after" /\ shown = {} /\ j = 0
      /\ UNCHANGED <<options, method, j, detected, opened, result, first_time, exit, last, energy, shown, taken, consumed>>
      /\ UNCHANGED <<program, machine, cpu_model, total_packages>>
  BY DEF SleepSecond, Invariant, Placed, Located, Reported, options, detected
<1>2. Typed' /\ Placed' /\ ClockIsSlow' /\ Opened'
  <2>1. j' \in 0..(total_packages - 1)
    <3>1. total_packages \in 1..16
      BY <1>1, AtPackage
    <3> QED BY <1>1, <3>1
  <2>2. last' \in [Index -> Reads] /\ energy' \in [Index -> Reads] /\ shown' \subseteq Index
        /\ first_time' \in BOOLEAN /\ taken' \in Histories
    BY <1>1, TypedStateIs DEF Invariant, Typed
  <2> QED BY <1>1, <2>1, <2>2, LoopIs
<1>3. ReadSoFar'
  <2>1. ASSUME NEW p \in Index PROVE ~EnergyRead(p)' /\ ~Twice(p)' /\ ~Twice(p)
    BY <1>1 DEF EnergyRead, Twice
  <2>2. ASSUME NEW p \in Index, LastRead(p)' PROVE LastIs(p)'
    <3>1. LastRead(p)
      BY <1>1, <2>2 DEF LastRead, Packages
    <3>2. LastAt(p)' = LastAt(p)
      BY <1>1, <2>1 DEF LastAt
    <3> QED BY <1>1, <3>1, <3>2, SameReadings DEF Invariant, ReadSoFar
  <2> QED BY <2>1, <2>2 DEF ReadSoFar
<1>4. Reported'
  BY <1>1 DEF Reported
<1>5. Swept'
  BY <1>1 DEF Swept, Invariant, Placed, Located
<1> QED BY <1>2, <1>3, <1>4, <1>5 DEF Invariant

LEMMA AfterIs ==
  ASSUME Invariant, After
  PROVE  Invariant'
<1>1. /\ program = "rapl-read" /\ pc = "after" /\ method \in {"sysfs", "perf", "msr"}
      /\ UNCHANGED <<options, detected, method, result, last, opened, first_time, consumed>>
      /\ UNCHANGED <<program, machine, cpu_model, package_map, total_packages>>
  BY DEF After, Exit, Invariant, Placed, Located, options, detected
<1>2. /\ total_packages \in 1..16 /\ j \in 0..(total_packages - 1) /\ j \in Index /\ j \in Nat
      /\ Packages = 0..(total_packages - 1) /\ \A p \in Packages : p \in Index
  BY <1>1, AtPackage DEF Packages
<1>3. CASE Readable(avail_after(cpu_model))
  <2> DEFINE r == Reading(j, avail_after(cpu_model))
  <2>1. /\ energy' = [energy EXCEPT ![j] = r] /\ NextPackage("done") /\ exit' = exit
        /\ shown' = IF method # "sysfs" THEN shown \cup {j} ELSE IF AtLast THEN Packages ELSE {}
        /\ Takes(j, consumed[Owner(j)])
    BY <1>3 DEF After
  <2>2. /\ r \in Reads /\ taken' \in Histories /\ \A p \in Index : p # j => taken'[p] = taken[p]
        /\ taken'[j][1] = taken[j][2] /\ taken'[j][2] = consumed[Source(j)]
        /\ \A p \in Index : p = j /\ energy'[p] = r /\ EnergySet(p) = SetRead(avail_after(cpu_model)) => EnergyIs(p)'
        /\ method # "sysfs" => core(j) \in Seen
        /\ \A p \in Index : core(p)' = core(p)
        /\ Seen' = Seen
    BY <1>1, <1>3, <2>1, LoopReadingIs
  <2> HIDE DEF r
  <2>3. energy' \in [Index -> Reads] /\ energy'[j] = r /\ \A p \in Index : p # j => energy'[p] = energy[p]
    <3>1. energy \in [Index -> Reads]
      BY DEF Invariant, Typed
    <3> HIDE DEF Reads, Index
    <3> QED BY <1>2, <2>1, <2>2, <3>1
  <2>4. \/ j' = 0 /\ pc' = "done" /\ j = total_packages - 1
        \/ j' = j + 1 /\ pc' = "after" /\ j' \in 1..(total_packages - 1)
    BY <1>1, <1>2, <2>1, NextPackageIs
  <2>5. AtLast <=> pc' = "done"
    BY <1>1, <2>1 DEF NextPackage
  <2>6. shown \subseteq 0..(j - 1) /\ shown = (IF method = "sysfs" THEN {} ELSE 0..(j - 1))
    BY <1>1 DEF Invariant, Reported, Swept
  <2>7. /\ j = total_packages - 1 => Packages = 0..j
        /\ 0..(j - 1) \cup {j} = 0..j
    BY <1>2
  <2>8. shown' = (IF method # "sysfs" \/ pc' = "done" THEN 0..j ELSE {})
    <3>1. CASE method # "sysfs"
      BY <2>1, <2>6, <2>7, <3>1
    <3>2. CASE method = "sysfs" /\ pc' = "done"
      <4>1. j = total_packages - 1
        BY <2>4, <3>2
      <4> QED BY <2>1, <2>5, <2>7, <3>2, <4>1
    <3>3. CASE method = "sysfs" /\ pc' # "done"
      BY <2>1, <2>5, <3>3
    <3> QED BY <3>1, <3>2, <3>3
  <2>9. \A p \in 0..j : p \in Index /\ p \in Packages
    BY <1>2 DEF Index
  <2>10. Typed' /\ Placed' /\ ClockIsSlow' /\ Opened'
    <3>1. j' \in 0..(total_packages - 1)
      BY <1>2, <2>4
    <3>2. last' \in [Index -> Reads] /\ first_time' \in BOOLEAN
      BY <1>1, TypedStateIs DEF Invariant, Typed
    <3>3. shown' \subseteq Index
      BY <2>8, <2>9
    <3> QED BY <1>1, <2>1, <2>2, <2>3, <2>4, <3>1, <3>2, <3>3, LoopIs
  <2>11. ASSUME NEW p \in Packages
         PROVE  /\ p \in Index /\ LastIs(p) /\ (p >= j => ~Twice(p))
                /\ LastAt(p) \in Moments /\ \A at \in Moments : at = LastAt(p) => Valid(last[p], at, p, LastSet(p))'
    <3>1. p \in Index /\ LastRead(p)
      BY <1>1, <1>2 DEF LastRead
    <3>2. LastIs(p) /\ LastAt(p) \in Moments
      BY <3>1, ReadsAre DEF Invariant, ReadSoFar, LastAt
    <3>3. p >= j => ~Twice(p)
      BY <1>1, <1>2 DEF Twice
    <3>4. ASSUME NEW at \in Moments, at = LastAt(p) PROVE Valid(last[p], at, p, LastSet(p))'
      <4>1. Valid(last[p], at, p, LastSet(p))
        BY <3>2, <3>4 DEF LastIs
      <4> QED BY <1>1, <3>1, <4>1, SameReadings DEF Invariant
    <3> QED BY <3>1, <3>2, <3>3, <3>4
  <2>12. ASSUME NEW p \in 0..j PROVE Good(p)'
    <3>1. CASE p = j
      <4>1. EnergySet(p) = SetRead(avail_after(cpu_model))
        BY <1>1 DEF EnergySet, LastSet, SetRead
      <4>2. EnergyIs(p)'
        BY <2>2, <2>3, <2>9, <3>1, <4>1
      <4>3. LastAt(p) = taken[p][2] /\ taken'[p][1] = taken[p][2]
        BY <1>2, <2>2, <2>9, <2>11, <3>1 DEF LastAt
      <4>4. PICK at \in Moments : at = LastAt(p)
        BY <2>9, <2>11
      <4>5. Valid(last[p], at, p, LastSet(p))'
        BY <2>9, <2>11, <4>4
      <4>6. Valid(last[p], taken[p][1], p, LastSet(p))'
        BY <4>3, <4>4, <4>5 DEF Valid
      <4>7. taken'[p][1] <= taken'[p][2]
        BY <2>2, <2>9, <2>11, <3>1, <4>3 DEF LastIs, Valid
      <4> QED BY <4>2, <4>6, <4>7 DEF Good
    <3>2. CASE p # j
      <4>1. p \in 0..(j - 1)
        BY <1>2, <3>2
      <4>2. EnergyRead(p) /\ LastRead(p) /\ Twice(p)
        BY <1>1, <2>9, <4>1 DEF EnergyRead, LastRead, Twice
      <4>3. Good(p)
        BY <2>9, <4>2 DEF Invariant, ReadSoFar, Good, LastIs, LastAt
      <4> QED BY <1>1, <2>2, <2>3, <2>9, <3>2, <4>3, SameReadings DEF Invariant
    <3> QED BY <3>1, <3>2
  <2>13. ReadSoFar'
    <3>0. ASSUME NEW p \in Index, p \in 0..j, pc' = "after" PROVE Twice(p)'
      <4>1. 0..j = 0..(j' - 1)
        BY <1>2, <2>4, <3>0
      <4> QED BY <1>1, <3>0, <4>1 DEF Twice
    <3>1. ASSUME NEW p \in Index, LastRead(p)' PROVE LastIs(p)'
      <4>1. p \in Packages /\ pc' = "after"
        BY <1>1, <2>4, <3>1 DEF LastRead, Packages
      <4>2. CASE p \in 0..j
        <5>1. LastAt(p)' = taken'[p][1]
          BY <3>0, <3>1, <4>1, <4>2 DEF LastAt
        <5> QED BY <2>12, <4>2, <5>1 DEF Good, LastIs, Valid
      <4>3. CASE p \notin 0..j
        <5>1. p > j
          BY <1>2, <4>1, <4>3
        <5>2. ~Twice(p)' /\ ~Twice(p) /\ taken'[p] = taken[p]
          <6>1. j' = j + 1 /\ program' = "rapl-read"
            BY <1>1, <2>4, <4>1
          <6>2. p # j /\ p \notin 0..(j - 1) /\ p \notin 0..(j' - 1)
            BY <1>2, <4>3, <5>1, <6>1
          <6>3. ~Twice(p)' /\ ~Twice(p)
            BY <1>1, <6>1, <6>2 DEF Twice
          <6> QED BY <2>2, <3>1, <6>2, <6>3
        <5>3. LastAt(p)' = LastAt(p)
          BY <5>2 DEF LastAt
        <5>4. LastIs(p)
          BY <2>11, <4>1
        <5> QED BY <1>1, <3>1, <5>3, <5>4, SameReadings DEF Invariant
      <4> QED BY <4>2, <4>3
    <3>2. ASSUME NEW p \in Index, EnergyRead(p)' \/ Twice(p)' PROVE Good(p)'
      <4>1. pc' = "after" /\ p \in 0..(j' - 1)
        BY <1>1, <2>4, <3>2 DEF EnergyRead, Twice
      <4>2. p \in 0..j
        BY <1>2, <2>4, <4>1
      <4> QED BY <2>12, <4>2
    <3> QED BY <3>1, <3>2 DEF ReadSoFar, Good
  <2>14. pc' = "after" => 0..(j' - 1) = 0..j
    BY <1>2, <2>4
  <2>15. Reported'
    <3>1. method' \notin {"", "apm"}
      BY <1>1
    <3> QED BY <2>4, <2>8, <2>12, <2>14, <3>1 DEF Reported
  <2>16. Swept'
    <3>1. pc' = "after" => shown' = IF method' = "sysfs" THEN {} ELSE 0..(j' - 1)
      BY <1>1, <2>4, <2>8, <2>14
    <3>2. pc' = "done" => shown' = Packages'
      <4>1. Packages' = Packages
        BY <1>1 DEF Packages
      <4> QED BY <2>4, <2>7, <2>8, <4>1
    <3>3. ASSUME method' \in {"perf", "msr"}, NEW p \in shown' PROVE core(p)' \in Seen'
      <4>1. p \in 0..j
        BY <2>8
      <4>2. p # j => p \in shown
        BY <1>1, <1>2, <2>6, <3>3, <4>1
      <4>3. core(p) \in Seen
        BY <1>1, <2>2, <3>3, <4>2 DEF Invariant, Swept
      <4> QED BY <2>2, <2>9, <4>1, <4>3
    <3> QED BY <1>1, <3>1, <3>2, <3>3 DEF Swept
  <2> QED BY <2>10, <2>13, <2>15, <2>16 DEF Invariant
<1>4. CASE ~Readable(avail_after(cpu_model))
  <2>1. Exit(open_msr(j)) /\ open_msr(j) \in {2, 3, 127}
    BY <1>4 DEF After, open_msr
  <2>2. pc' = "exit" /\ exit' \in {-1, 0, 2, 3, 127} /\ UNCHANGED <<method, j, result, last, energy, shown, taken, opened, first_time>>
    BY <2>1 DEF Exit
  <2> QED BY <1>1, <2>2, ExitIs
<1> QED BY <1>3, <1>4

\* rapl-plot takes a reading of the package it is at.
LEMMA ReadPlotIs ==
  ASSUME Invariant, program = "rapl-plot", pc \in {"before", "after"}, NEW label, ReadPlot(label),
         UNCHANGED <<options, detected, consumed>>, Readable(avail_plot(cpu_model))
  PROVE  /\ energy' \in [Index -> Reads] /\ \A p \in Index : p # j => energy'[p] = energy[p]
         /\ taken' \in Histories /\ \A p \in Index : p # j => taken'[p] = taken[p]
         /\ taken'[j][1] = taken[j][2] /\ taken'[j][2] = consumed[Source(j)]
         /\ \A p \in Index : p = j => EnergyIs(p)'
         /\ \A p \in Index : LastSet(p) = EnergySet(p) /\ LastSet(p)' = EnergySet(p)'
         /\ NextPackage(label) /\ UNCHANGED <<method, result, exit, opened>>
         /\ total_packages \in 1..16 /\ j \in 0..(total_packages - 1) /\ j \in Index /\ j \in Nat
         /\ Packages = 0..(total_packages - 1)
         /\ \/ j' = 0 /\ pc' = label /\ j = total_packages - 1
            \/ j' = j + 1 /\ pc' = pc /\ j' \in 1..(total_packages - 1)
<1> DEFINE r == Reading(j, avail_plot(cpu_model))
<1>1. /\ energy' = [energy EXCEPT ![j] = r] /\ NextPackage(label) /\ Takes(j, consumed[Owner(j)])
      /\ UNCHANGED <<method, result, exit, opened>>
  BY DEF ReadPlot
<1>2. /\ total_packages \in 1..16 /\ j \in 0..(total_packages - 1) /\ j \in Index /\ j \in Nat
      /\ Packages = 0..(total_packages - 1)
  BY AtPackage DEF Packages
<1>3. /\ r \in Reads /\ taken' \in Histories /\ \A p \in Index : p # j => taken'[p] = taken[p]
      /\ taken'[j][1] = taken[j][2] /\ taken'[j][2] = consumed[Source(j)]
      /\ \A p \in Index : p = j /\ energy'[p] = r /\ EnergySet(p) = SetRead(avail_plot(cpu_model)) => EnergyIs(p)'
      /\ \A p \in Index : LastSet(p)' = LastSet(p) /\ EnergySet(p)' = EnergySet(p)
  BY <1>1, LoopReadingIs
<1> HIDE DEF r
<1>4. energy' \in [Index -> Reads] /\ energy'[j] = r /\ \A p \in Index : p # j => energy'[p] = energy[p]
  <2>1. energy \in [Index -> Reads]
    BY DEF Invariant, Typed
  <2> HIDE DEF Reads, Index
  <2> QED BY <1>1, <1>2, <1>3, <2>1
<1>5. method \in {"sysfs", "perf", "msr"}
  BY DEF Invariant, Placed, Located
<1>6. ASSUME NEW p \in Index, p = j PROVE EnergyIs(p)'
  <2>1. EnergySet(p) = SetRead(avail_plot(cpu_model))
    BY <1>5 DEF EnergySet, LastSet, SetRead
  <2> QED BY <1>3, <1>4, <1>6, <2>1
<1>7. \A p \in Index : LastSet(p) = EnergySet(p)
  BY <1>5 DEF LastSet, EnergySet
<1>8. \/ j' = 0 /\ pc' = label /\ j = total_packages - 1
      \/ j' = j + 1 /\ pc' = pc /\ j' \in 1..(total_packages - 1)
  BY <1>1, <1>2, NextPackageIs
<1> QED BY <1>1, <1>2, <1>3, <1>4, <1>6, <1>7, <1>8

LEMMA BeforePlotIs ==
  ASSUME Invariant, BeforePlot
  PROVE  Invariant'
<1>1. /\ program = "rapl-plot" /\ pc = "before" /\ shown = {}
      /\ UNCHANGED <<options, detected, first_time, shown, consumed>>
      /\ UNCHANGED <<program, machine, cpu_model, package_map, total_packages>>
      /\ last' = IF pc' = "after" THEN energy' ELSE last
  BY DEF BeforePlot, Invariant, Reported, options, detected
<1> DEFINE label == IF result = 0 THEN "after" ELSE "unable"
<1>2. ReadPlot(label) /\ label \in {"after", "unable"}
  BY DEF BeforePlot
<1> HIDE DEF label
<1>3. CASE Readable(avail_plot(cpu_model))
  <2>1. /\ energy' \in [Index -> Reads] /\ \A p \in Index : p # j => energy'[p] = energy[p]
        /\ taken' \in Histories /\ \A p \in Index : p # j => taken'[p] = taken[p]
        /\ \A p \in Index : p = j => EnergyIs(p)'
        /\ \A p \in Index : LastSet(p)' = EnergySet(p)'
        /\ UNCHANGED <<method, result, exit, opened>>
        /\ total_packages \in 1..16 /\ j \in 0..(total_packages - 1) /\ j \in Index /\ j \in Nat
        /\ Packages = 0..(total_packages - 1)
        /\ \/ j' = 0 /\ pc' = label /\ j = total_packages - 1
           \/ j' = j + 1 /\ pc' = pc /\ j' \in 1..(total_packages - 1)
    BY <1>1, <1>2, <1>3, ReadPlotIs
  <2>2. \/ j' = 0 /\ pc' \in {"after", "unable"} /\ j = total_packages - 1
        \/ j' = j + 1 /\ pc' = "before" /\ j' \in 1..(total_packages - 1)
    BY <1>1, <1>2, <2>1
  <2>3. Typed' /\ Placed' /\ ClockIsSlow' /\ Opened'
    <3>1. j' \in 0..(total_packages - 1)
      BY <2>1, <2>2
    <3>2. last' \in [Index -> Reads] /\ first_time' \in BOOLEAN /\ shown' \subseteq Index
      BY <1>1, <2>1, TypedStateIs DEF Invariant, Typed
    <3> QED BY <1>1, <2>1, <2>2, <3>1, <3>2, LoopIs
  <2>4. ASSUME NEW p \in 0..j PROVE p \in Index /\ EnergyIs(p)'
    <3>1. p \in Index
      BY <2>1 DEF Index
    <3>2. CASE p = j
      BY <2>1, <3>1, <3>2
    <3>3. CASE p # j
      <4>1. p \in 0..(j - 1)
        BY <2>1, <3>3
      <4>2. EnergyRead(p)
        BY <1>1, <4>1 DEF EnergyRead
      <4>3. EnergyIs(p)
        BY <3>1, <4>2 DEF Invariant, ReadSoFar
      <4> QED BY <1>1, <2>1, <3>1, <3>3, <4>3, SameReadings DEF Invariant
    <3> QED BY <3>1, <3>2, <3>3
  <2>5. Packages' = Packages
    BY <1>1 DEF Packages
  <2>6. CASE pc' = "before"
    <3>1. 0..(j' - 1) = 0..j
      BY <2>1, <2>2, <2>6
    <3>2. ASSUME NEW p \in Index PROVE ~LastRead(p)' /\ ~Twice(p)' /\ (EnergyRead(p)' => p \in 0..(j' - 1))
      BY <1>1, <2>6 DEF LastRead, EnergyRead, Twice
    <3> QED BY <2>3, <2>4, <3>1, <3>2, <1>1, <2>6 DEF ReadSoFar, Invariant, Reported, Swept
  <2>7. CASE pc' = "unable"
    <3>1. ASSUME NEW p \in Index PROVE ~LastRead(p)' /\ ~EnergyRead(p)' /\ ~Twice(p)'
      BY <1>1, <2>7 DEF LastRead, EnergyRead, Twice
    <3> QED BY <2>3, <3>1, <1>1, <2>7 DEF ReadSoFar, Invariant, Reported, Swept
  <2>8. CASE pc' = "after"
    <3>1. Packages = 0..j
      BY <2>1, <2>2, <2>8
    <3>2. ASSUME NEW p \in Index PROVE (LastRead(p)' \/ EnergyRead(p)' => p \in 0..j) /\ ~Twice(p)'
      BY <1>1, <2>1, <2>2, <2>5, <2>8, <3>1 DEF LastRead, EnergyRead, Twice
    <3>3. last' = energy'
      BY <1>1, <2>8
    <3>4. ASSUME NEW p \in 0..j PROVE EnergyIs(p)' /\ LastIs(p)'
      <4>1. p \in Index /\ EnergyIs(p)'
        BY <2>4
      <4>2. LastAt(p)' = taken'[p][2]
        BY <3>2, <4>1 DEF LastAt
      <4> QED BY <2>1, <3>3, <4>1, <4>2 DEF EnergyIs, LastIs, Valid
    <3>5. ReadSoFar'
      BY <3>2, <3>4 DEF ReadSoFar
    <3> QED BY <2>3, <3>5, <1>1, <2>8 DEF Invariant, Reported, Swept
  <2> QED BY <2>2, <2>6, <2>7, <2>8
<1>4. CASE ~Readable(avail_plot(cpu_model))
  <2>1. Exit(open_msr(j)) /\ open_msr(j) \in {2, 3, 127}
    BY <1>2, <1>4 DEF ReadPlot, open_msr
  <2>2. /\ pc' = "exit" /\ exit' \in {-1, 0, 2, 3, 127}
        /\ UNCHANGED <<method, j, result, last, energy, shown, taken, opened, first_time>>
    BY <2>1 DEF Exit
  <2> QED BY <1>1, <2>2, ExitIs
<1> QED BY <1>3, <1>4

LEMMA AfterPlotIs ==
  ASSUME Invariant, AfterPlot
  PROVE  Invariant'
<1>1. /\ program = "rapl-plot" /\ pc = "after" /\ j \in Nat
      /\ UNCHANGED <<options, detected, last, consumed>>
      /\ UNCHANGED <<program, machine, cpu_model, package_map, total_packages>>
      /\ first_time' = (first_time /\ pc' # "sleep")
      /\ shown' = IF pc' = "sleep" /\ ~first_time THEN Packages ELSE {}
      /\ ReadPlot("sleep")
  BY AtPackage DEF AfterPlot, options, detected
<1>2. shown \subseteq 0..(j - 1)
  BY <1>1 DEF Invariant, Reported
<1>3. CASE Readable(avail_plot(cpu_model))
  <2>1. /\ energy' \in [Index -> Reads] /\ \A p \in Index : p # j => energy'[p] = energy[p]
        /\ taken' \in Histories /\ \A p \in Index : p # j => taken'[p] = taken[p]
        /\ taken'[j][1] = taken[j][2] /\ taken'[j][2] = consumed[Source(j)]
        /\ \A p \in Index : p = j => EnergyIs(p)'
        /\ UNCHANGED <<method, result, exit, opened>>
        /\ total_packages \in 1..16 /\ j \in 0..(total_packages - 1) /\ j \in Index /\ j \in Nat
        /\ Packages = 0..(total_packages - 1)
        /\ \/ j' = 0 /\ pc' = "sleep" /\ j = total_packages - 1
           \/ j' = j + 1 /\ pc' = pc /\ j' \in 1..(total_packages - 1)
    BY <1>1, <1>3, ReadPlotIs
  <2>2. \/ j' = 0 /\ pc' = "sleep"
        \/ j' \in 1..(total_packages - 1) /\ pc' = "after"
    BY <1>1, <2>1
  <2>11. /\ total_packages \in 1..16 /\ j \in 0..(total_packages - 1) /\ Packages = 0..(total_packages - 1)
         /\ \/ j' = 0 /\ pc' = "sleep" /\ j = total_packages - 1
            \/ j' = j + 1 /\ pc' = "after"
    <3>1. total_packages \in 1..16 /\ j \in 0..(total_packages - 1) /\ Packages = 0..(total_packages - 1)
      BY <2>1, Zenon
    <3> QED BY <1>1, <2>1, <3>1
  <2>3. \A p \in Packages : p \in Index
    BY <2>11 DEF Index
  <2>4. Typed' /\ Placed' /\ ClockIsSlow' /\ Opened'
    <3>1. j' \in 0..(total_packages - 1)
      BY <2>1, <2>2
    <3>2. last' \in [Index -> Reads] /\ first_time \in BOOLEAN
      BY <1>1, TypedStateIs DEF Invariant, Typed
    <3>3. first_time' \in BOOLEAN /\ (first_time' => first_time)
      BY <1>1, <3>2
    <3>4. shown' \subseteq Index
      BY <1>1, <2>3
    <3> QED BY <1>1, <2>1, <2>2, <3>1, <3>2, <3>3, <3>4, LoopIs
  <2>5. ASSUME NEW p \in Packages PROVE p \in Index /\ LastIs(p) /\ EnergyIs(p) /\ LastRead(p)
    <3>1. p \in Index /\ LastRead(p) /\ EnergyRead(p)
      BY <1>1, <2>3 DEF LastRead, EnergyRead
    <3> QED BY <3>1 DEF Invariant, ReadSoFar
  <2>6. Packages' = Packages
    BY <1>1 DEF Packages
  <2>9. ASSUME NEW p \in 0..j PROVE Good(p)'
    <3>0. p \in Packages /\ p \in Index
      BY <2>1, <2>3
    <3>1. CASE p # j
      <4>1. Twice(p)
        BY <1>1, <2>1, <3>1 DEF Twice
      <4>2. Good(p)
        BY <2>5, <3>0, <4>1 DEF Invariant, ReadSoFar, Good, LastIs, LastAt
      <4> QED BY <1>1, <2>1, <3>0, <3>1, <4>2, SameReadings DEF Invariant
    <3>2. CASE p = j
      <4>1. ~Twice(p)
        BY <1>1, <2>1, <3>2 DEF Twice
      <4>2. LastAt(p) = taken[p][2] /\ taken'[p][1] = taken[p][2]
        BY <2>1, <3>2, <4>1 DEF LastAt
      <4>3. PICK at \in Moments : at = taken[p][2]
        BY <3>0, ReadsAre DEF Invariant
      <4>4. Valid(last[p], at, p, LastSet(p)) /\ at <= consumed[Source(p)]
        BY <2>5, <3>0, <4>2, <4>3 DEF LastIs, Valid
      <4>5. Valid(last[p], at, p, LastSet(p))'
        BY <1>1, <2>1, <3>0, <4>4, SameReadings DEF Invariant
      <4>6. Valid(last[p], taken[p][1], p, LastSet(p))'
        BY <4>2, <4>3, <4>5 DEF Valid
      <4>7. taken'[p][1] <= taken'[p][2]
        BY <2>1, <3>2, <4>2, <4>3, <4>4
      <4>8. EnergyIs(p)'
        BY <2>1, <3>0, <3>2
      <4> QED BY <4>6, <4>7, <4>8 DEF Good
    <3> QED BY <3>1, <3>2
  <2>10. ASSUME NEW p \in Packages, p \notin 0..j PROVE LastIs(p)' /\ EnergyIs(p)' /\ ~Twice(p)'
    <3>1. p \in Index /\ p # j /\ p > j /\ pc' = "after" /\ j' = j + 1
      <4>1. p \in 0..(total_packages - 1) /\ p \in Index
        BY <2>3, <2>11
      <4> QED BY <2>10, <2>11, <4>1
    <3>2. ~Twice(p) /\ ~Twice(p)'
      BY <1>1, <2>1, <3>1 DEF Twice
    <3>3. taken'[p] = taken[p] /\ energy'[p] = energy[p] /\ last'[p] = last[p] /\ LastAt(p)' = LastAt(p)
      BY <1>1, <2>1, <3>1, <3>2 DEF LastAt
    <3> QED BY <1>1, <2>1, <2>5, <3>1, <3>2, <3>3, SameReadings DEF Invariant
  <2>7. ReadSoFar'
    <3>1. ASSUME NEW p \in Index PROVE LastRead(p)' \/ EnergyRead(p)' \/ Twice(p)' => p \in Packages
      <4>1. pc' = "after" /\ p \in 0..(j' - 1) => p \in Packages
        BY <2>1
      <4> QED BY <1>1, <2>2, <2>6, <4>1 DEF LastRead, EnergyRead, Twice
    <3>2. ASSUME NEW p \in Index, p \in 0..j PROVE LastIs(p)' /\ EnergyIs(p)' /\ taken'[p][1] <= taken'[p][2]
      <4>1. Twice(p)'
        BY <1>1, <2>1, <2>6, <3>2 DEF Twice
      <4>2. LastAt(p)' = taken'[p][1]
        BY <4>1 DEF LastAt
      <4> QED BY <2>9, <3>2, <4>2 DEF Good, LastIs, Valid
    <3> QED BY <2>10, <3>1, <3>2 DEF ReadSoFar
  <2>8. Reported' /\ Swept'
    <3>1. (pc' = "sleep" => shown' \subseteq Packages) /\ (pc' = "after" => shown' = {})
      BY <1>1
    <3>2. pc' = "sleep" => Packages = 0..j
      BY <2>11
    <3>3. method' \notin {"", "apm"}
      BY <1>1, <2>1 DEF Invariant, Placed, Located
    <3> QED BY <1>1, <2>2, <2>9, <3>1, <3>2, <3>3 DEF Reported, Swept
  <2> QED BY <2>4, <2>7, <2>8 DEF Invariant
<1>4. CASE ~Readable(avail_plot(cpu_model))
  <2>1. Exit(open_msr(j)) /\ open_msr(j) \in {2, 3, 127}
    BY <1>1, <1>4 DEF ReadPlot, open_msr
  <2>2. /\ pc' = "exit" /\ exit' \in {-1, 0, 2, 3, 127}
        /\ UNCHANGED <<method, j, result, last, energy, shown, taken, opened, first_time>>
    BY <2>1 DEF Exit
  <2> QED BY <1>1, <2>2, ExitIs
<1> QED BY <1>3, <1>4

LEMMA SleepPlotIs ==
  ASSUME Invariant, SleepPlot
  PROVE  Invariant'
<1>1. /\ program = "rapl-plot" /\ pc = "sleep" /\ pc' = "after" /\ j = 0 /\ last' = energy /\ shown' = {}
      /\ method \in {"sysfs", "perf", "msr"}
      /\ UNCHANGED <<options, method, j, detected, opened, result, first_time, exit, energy, taken, consumed>>
      /\ UNCHANGED <<program, machine, cpu_model, total_packages>>
  BY DEF SleepPlot, Invariant, Placed, Located, options, detected
<1>2. total_packages \in 1..16
  BY <1>1, AtPackage
<1>3. energy \in [Index -> Reads]
  BY DEF Invariant, Typed
<1>4. Typed' /\ Placed' /\ ClockIsSlow' /\ Opened'
  <2>1. j' \in 0..(total_packages - 1)
    BY <1>1, <1>2
  <2>2. last' \in [Index -> Reads] /\ energy' \in [Index -> Reads] /\ shown' \subseteq Index
        /\ first_time' \in BOOLEAN /\ taken' \in Histories
    BY <1>1, <1>3, TypedStateIs DEF Invariant, Typed
  <2> QED BY <1>1, <2>1, <2>2, LoopIs
<1>5. ReadSoFar'
  <2>0. ASSUME NEW p \in Index PROVE ~Twice(p)'
    BY <1>1 DEF Twice
  <2>1. ASSUME NEW p \in Index, LastRead(p)' \/ EnergyRead(p)' PROVE LastIs(p)' /\ EnergyIs(p)'
    <3>1. EnergyRead(p)
      BY <1>1, <2>1 DEF LastRead, EnergyRead, Packages
    <3>2. EnergyIs(p)'
      BY <1>1, <3>1, SameReadings DEF Invariant, ReadSoFar
    <3>3. LastSet(p)' = EnergySet(p)'
      BY <1>1 DEF LastSet, EnergySet
    <3>4. LastAt(p)' = taken'[p][2] /\ last'[p] = energy'[p]
      BY <1>1, <2>0 DEF LastAt
    <3>5. LastIs(p)'
      BY <3>2, <3>3, <3>4 DEF EnergyIs, LastIs, Valid
    <3> QED BY <3>2, <3>5
  <2> QED BY <2>0, <2>1 DEF ReadSoFar
<1>6. Reported'
  BY <1>1 DEF Reported
<1>7. Swept'
  BY <1>1 DEF Swept
<1> QED BY <1>4, <1>5, <1>6, <1>7 DEF Invariant

-----------------------------------------------------------------------------
(* The steps of apm-read.                                                  *)

LEMMA ApmIs ==
  ASSUME Invariant, pc \in {"start", "interval", "stop"}
  PROVE  /\ program = "apm-read" /\ method = "apm" /\ j \in {0, 1}
         /\ 0 \in Index /\ 1 \in Index /\ machine.packages[0] \in Ids /\ Clock \notin Ids
         /\ program \in Programs /\ machine \in Machines
<1>1. machine \in Machines /\ program \in Programs
  BY TypedStateIs DEF Invariant, Typed, TypedState
<1>2. program \in {"rapl-read", "rapl-plot", "apm-read"}
  BY <1>1, RaplAssumption
<1>3. machine.packages[0] \in Ids /\ Ids \subseteq Nat
  BY <1>1, IdsAre
<1>4. Clock \notin Ids
  BY <1>3 DEF Clock
<1>5. method = "apm" /\ program = "apm-read" /\ (pc # "interval" => j \in {0, 1})
      /\ (pc = "interval" => j = 0)
  BY <1>2 DEF Invariant, Placed, Located
<1> QED BY <1>1, <1>3, <1>4, <1>5 DEF Index

\* What apm-read reads: the accumulator of the first package, then the clock.
LEMMA ReadApmIs ==
  ASSUME Invariant, pc \in {"start", "stop"}, TakesApm,
         UNCHANGED <<options, detected, method, opened, consumed>>
  PROVE  /\ ReadApm \in Reads /\ taken' \in Histories
         /\ taken'[j][1] = taken[j][2] /\ taken'[j][2] = consumed[Source(j)]
         /\ \A p \in Index : p # j => taken'[p] = taken[p]
         /\ \A p \in Index : p = j /\ last'[p] = ReadApm => Valid(last[p], taken[p][2], p, LastSet(p))'
         /\ \A p \in Index : p = j /\ energy'[p] = ReadApm => EnergyIs(p)'
<1>1. method = "apm" /\ j \in {0, 1} /\ j \in Index /\ machine.packages[0] \in Ids
  BY ApmIs
<1>2. consumed \in [Ids \cup {Clock} -> 0..MaxEnergy]
  BY DEF Invariant, Typed
<1> DEFINE owner == IF j = 0 THEN machine.packages[0] ELSE Clock
           word == IF j = 0 THEN Word ELSE ClockWord
           there == (IF j = 0 THEN "acc" ELSE "ptsc") \in machine.registers
           v(d) == IF there /\ d = "pkg" THEN (consumed[owner] + First[d]) % word ELSE Unread
<1>3. ReadApm = [d \in Domains |-> v(d)] /\ Takes(j, consumed[owner])
  BY DEF ReadApm, TakesApm
<1>4. owner = Source(j) /\ owner \in Ids \cup {Clock} /\ word = Wide(j)
  BY <1>1 DEF Source, Wide
<1>5. consumed[owner] \in 0..MaxEnergy /\ consumed[owner] \in Nat /\ consumed[owner] \in Moments
  BY <1>2, <1>4, ConstantsAre DEF Moments
<1>6. word \in Nat \ {0} /\ word <= Word + ClockWord
  BY ConstantsAre
<1> HIDE DEF owner, word
<1>7. ASSUME NEW d \in Domains PROVE v(d) \in -1..(MaxEnergy + Word + ClockWord)
  <2>1. consumed[owner] + First[d] \in Nat
    BY <1>5, ConstantsAre
  <2>2. (consumed[owner] + First[d]) % word \in 0..(word - 1)
    BY <1>6, <2>1, ModIs
  <2>3. Unread \in -1..(MaxEnergy + Word + ClockWord)
    BY ConstantsAre DEF Unread
  <2>4. \A k \in 0..(word - 1) : k \in -1..(MaxEnergy + Word + ClockWord)
    BY <1>6, ConstantsAre
  <2> QED BY <2>2, <2>3, <2>4
<1>8. [d \in Domains |-> v(d)] \in [Domains -> -1..(MaxEnergy + Word + ClockWord)]
  BY <1>7
<1>9. ReadApm \in Reads
  BY <1>3, <1>8 DEF Reads
<1>10. there <=> LastSet(j) = {"pkg"}
  BY <1>1 DEF LastSet
<1>11. ~there => LastSet(j) = {}
  BY <1>1 DEF LastSet
<1>12. Valid(ReadApm, consumed[owner], j, LastSet(j))
  <2>1. \A d \in Domains : ReadApm[d] = IF d \in LastSet(j) THEN Value(j, d, consumed[owner]) ELSE Unread
    BY <1>1, <1>3, <1>4, <1>10, <1>11 DEF Value
  <2>2. consumed[owner] <= consumed[owner]
    BY <1>5
  <2> QED BY <1>1, <1>4, <2>1, <2>2 DEF Valid
<1>13. /\ taken' \in Histories /\ taken'[j][1] = taken[j][2] /\ taken'[j][2] = consumed[owner]
       /\ \A p \in Index : p # j => taken'[p] = taken[p]
  BY <1>1, <1>3, <1>5, TakesIs DEF Invariant
<1>14. ASSUME NEW p \in Index, p = j
       PROVE  /\ last'[p] = ReadApm => Valid(last[p], taken[p][2], p, LastSet(p))'
              /\ energy'[p] = ReadApm => EnergyIs(p)'
  <2>1. UNCHANGED <<program, machine, cpu_model>>
    BY DEF options, detected
  <2>2. PICK at \in Moments, r \in Reads, e \in {LastSet(p)} : at = consumed[owner] /\ r = ReadApm
    BY <1>5, <1>9
  <2>3. Valid(r, at, p, e)
    BY <1>12, <1>14, <2>2
  <2>4. Valid(r, at, p, e)'
    BY <2>1, <2>3, SameReadings DEF Invariant
  <2>5. LastSet(p)' = e /\ EnergySet(p)' = e
    BY <1>1, <2>1, <2>2, SetsAreKept DEF EnergySet
  <2>6. taken'[p][2] = at
    BY <1>13, <1>14, <2>2
  <2> QED BY <2>2, <2>4, <2>5, <2>6 DEF EnergyIs, Valid
<1> QED BY <1>4, <1>9, <1>13, <1>14

LEMMA ApmStepIs ==
  ASSUME Invariant, pc \in {"start", "interval", "stop"},
         UNCHANGED <<options, detected, method, opened, result, exit>>,
         pc' \in {"start", "interval", "stop", "done", "crashed"}, j' \in {0, 1}, pc' = "interval" => j' = 0,
         first_time' \in BOOLEAN, last' \in [Index -> Reads], energy' \in [Index -> Reads],
         taken' \in Histories, shown' \subseteq Index, consumed' \in [Ids \cup {Clock} -> 0..MaxEnergy],
         \A i \in Ids : consumed'[i] = consumed[i]
  PROVE  Typed' /\ Placed' /\ Opened'
<1>1. UNCHANGED <<program, machine, cpu_model, package_map, total_packages, opened, result, exit, method>>
  BY DEF options, detected
<1>2. program = "apm-read" /\ method = "apm" /\ 0 \in Index /\ 1 \in Index
  BY ApmIs
<1>3. Typed'
  <2>1. TypedState'
    <3>1. pc' \in Places
      BY DEF Places
    <3>2. j' \in Index
      BY <1>2
    <3> QED BY <1>1, <3>1, <3>2, TypedStateIs, StateIsTyped DEF Invariant
  <2> QED BY <1>1, <2>1, MachineIsKept DEF Invariant, Typed
<1>4. Placed'
  <2>1. Detected'
    BY <1>1, DetectedIsKept DEF Invariant, Placed
  <2>2. Located'
    BY <1>1, <1>2 DEF Located
  <2> QED BY <2>1, <2>2 DEF Placed
<1>5. Opened'
  BY <1>1, <1>2, MachineIsKept DEF Invariant, Opened
<1> QED BY <1>3, <1>4, <1>5

LEMMA StartIs ==
  ASSUME Invariant, start_apm_pwr_reporting
  PROVE  Invariant'
<1>1. /\ pc = "start" /\ shown' = {} /\ last' = [last EXCEPT ![j] = ReadApm] /\ TakesApm
      /\ \/ j = 0 /\ j' = 1 /\ pc' = "start"
         \/ j # 0 /\ j' = 0 /\ pc' = "interval"
      /\ UNCHANGED <<options, method, detected, opened, result, first_time, exit, energy, consumed>>
      /\ UNCHANGED <<program, machine, cpu_model, total_packages>>
  BY DEF start_apm_pwr_reporting, options, detected
<1>2. program = "apm-read" /\ method = "apm" /\ j \in {0, 1} /\ 0 \in Index /\ 1 \in Index
  BY <1>1, ApmIs
<1>3. /\ ReadApm \in Reads /\ taken' \in Histories /\ \A p \in Index : p # j => taken'[p] = taken[p]
      /\ \A p \in Index : p = j /\ last'[p] = ReadApm => Valid(last[p], taken[p][2], p, LastSet(p))'
  BY <1>1, ReadApmIs
<1>4. last' \in [Index -> Reads] /\ last'[j] = ReadApm /\ \A p \in Index : p # j => last'[p] = last[p]
  <2>1. last \in [Index -> Reads]
    BY DEF Invariant, Typed
  <2> HIDE DEF Reads, Index
  <2> QED BY <1>1, <1>2, <1>3, <2>1
<1>5. Typed' /\ Placed' /\ Opened'
  <2>1. /\ energy' \in [Index -> Reads] /\ shown' \subseteq Index /\ first_time' \in BOOLEAN
        /\ consumed' \in [Ids \cup {Clock} -> 0..MaxEnergy] /\ \A i \in Ids : consumed'[i] = consumed[i]
    BY <1>1, TypedStateIs DEF Invariant, Typed
  <2>2. j' \in {0, 1} /\ (pc' = "interval" => j' = 0) /\ pc' \in {"start", "interval"}
    BY <1>1
  <2> QED BY <1>1, <1>3, <1>4, <2>1, <2>2, ApmStepIs
<1>6. ClockIsSlow'
  BY <1>1 DEF Invariant, ClockIsSlow
<1>7. ReadSoFar'
  <2>1. ASSUME NEW p \in Index PROVE ~EnergyRead(p)' /\ ~Twice(p)' /\ ~Twice(p)
    BY <1>1, <1>2 DEF EnergyRead, Twice
  <2>2. ASSUME NEW p \in Index, LastRead(p)' PROVE LastIs(p)'
    <3>1. p = j \/ (p = 0 /\ j # 0)
      <4>1. CASE j = 0 /\ j' = 1 /\ pc' = "start"
        BY <1>1, <1>2, <2>2, <4>1 DEF LastRead, Index
      <4>2. CASE j # 0 /\ j' = 0 /\ pc' = "interval"
        BY <1>1, <1>2, <2>2, <4>2 DEF LastRead
      <4> QED BY <1>1, <4>1, <4>2
    <3>2. CASE p = j
      <4>1. Valid(last[p], taken[p][2], p, LastSet(p))'
        BY <1>3, <1>4, <3>2
      <4> QED BY <2>1, <4>1 DEF LastIs, LastAt, Valid
    <3>3. CASE p = 0 /\ j # 0
      <4>1. LastRead(p)
        BY <1>1, <1>2, <3>3 DEF LastRead
      <4>2. LastAt(p)' = LastAt(p)
        BY <1>3, <2>1, <3>3 DEF LastAt
      <4> QED BY <1>1, <1>4, <3>3, <4>1, <4>2, SameReadings DEF Invariant, ReadSoFar
    <3> QED BY <3>1, <3>2, <3>3
  <2> QED BY <2>1, <2>2 DEF ReadSoFar
<1>8. Reported'
  BY <1>1 DEF Reported
<1>9. Swept'
  BY <1>1, <1>2 DEF Swept
<1> QED BY <1>5, <1>6, <1>7, <1>8, <1>9 DEF Invariant

\* What the machine uses between two readings leaves them as they are.
LEMMA UseIs ==
  ASSUME Invariant, UNCHANGED <<options, method, j, detected, opened, last, energy, shown, taken>>,
         consumed' \in [Ids \cup {Clock} -> 0..MaxEnergy],
         \A i \in Ids \cup {Clock} : consumed[i] <= consumed'[i],
         pc' = pc \/ (pc = "interval" /\ pc' = "stop")
  PROVE  ReadSoFar' /\ Reported' /\ Swept'
<1>1. UNCHANGED <<program, machine, cpu_model, package_map, total_packages, method, opened, last, energy, shown, taken>>
  BY DEF options, detected
<1>2. ASSUME NEW p \in Index
      PROVE  /\ LastAt(p)' = LastAt(p) /\ LastIs(p) => LastIs(p)'
             /\ EnergyIs(p) => EnergyIs(p)'
             /\ Good(p) => Good(p)'
  BY <1>1, ReadingsAreKept DEF Invariant
<1>3. ASSUME NEW p \in Index
      PROVE (LastRead(p)' => LastRead(p)) /\ (EnergyRead(p)' => EnergyRead(p)) /\ (Twice(p)' <=> Twice(p))
  <2>1. Packages' = Packages
    BY <1>1 DEF Packages
  <2>2. pc = "interval" => program = "apm-read" /\ j = 0
    BY ApmIs DEF Invariant, Placed, Located
  <2>3. CASE pc' = pc
    BY <1>1, <2>1, <2>3 DEF LastRead, EnergyRead, Twice
  <2>4. CASE pc = "interval" /\ pc' = "stop"
    BY <1>1, <2>2, <2>4 DEF LastRead, EnergyRead, Twice
  <2> QED BY <2>3, <2>4
<1>4. ReadSoFar'
  <2>1. \A p \in Index : LastAt(p)' = LastAt(p)
    BY <1>1, <1>3 DEF LastAt
  <2> QED BY <1>1, <1>2, <1>3, <2>1 DEF Invariant, ReadSoFar
<1>5. Reported'
  <2>1. \A p \in shown : p \in Index
    BY TypedStateIs DEF Invariant
  <2> QED BY <1>1, <1>2, <2>1 DEF Invariant, Reported
<1>6. Swept'
  <2>1. Packages' = Packages /\ Seen' = Seen /\ \A p \in shown : core(p)' = core(p)
    BY <1>1, MachineIsKept DEF Packages, core
  <2>2. pc = "interval" => program = "apm-read"
    BY ApmIs
  <2> QED BY <1>1, <2>1, <2>2 DEF Invariant, Swept
<1> QED BY <1>4, <1>5, <1>6

LEMMA IntervalIs ==
  ASSUME Invariant, Interval
  PROVE  Invariant'
<1>1. /\ pc = "interval" /\ pc' = "stop"
      /\ UNCHANGED <<options, method, j, detected, opened, result, first_time, exit, last, energy, shown, taken>>
  BY DEF Interval
<1>2. PICK n \in {1, MaxEnergy \div 2} : consumed' = [consumed EXCEPT ![Clock] = @ + n]
  BY DEF Interval
<1>3. consumed \in [Ids \cup {Clock} -> 0..MaxEnergy] /\ Clock \in Ids \cup {Clock} /\ Clock \notin Ids
  BY <1>1, ApmIs DEF Invariant, Typed
<1>4. n \in Nat /\ n <= MaxEnergy \div 2 /\ 2 * (MaxEnergy \div 2) <= MaxEnergy /\ MaxEnergy \div 2 \in Nat
  <2>1. MaxEnergy \in Nat /\ MaxEnergy >= 2
    BY ConstantsAre
  <2> QED BY <2>1
<1>5. consumed[Clock] \in Nat /\ consumed[Clock] <= MaxEnergy \div 2 /\ (first_time => consumed[Clock] = 0)
  BY <1>1, <1>3, ConstantsAre DEF Invariant, ClockIsSlow
<1>6. consumed[Clock] + n \in 0..MaxEnergy /\ consumed[Clock] <= consumed[Clock] + n
      /\ (first_time => consumed[Clock] + n <= MaxEnergy \div 2)
  BY <1>4, <1>5, ConstantsAre
<1>7. /\ consumed' \in [Ids \cup {Clock} -> 0..MaxEnergy] /\ consumed'[Clock] = consumed[Clock] + n
      /\ \A i \in Ids : consumed'[i] = consumed[i]
  BY <1>2, <1>3, <1>6
<1>8. \A i \in Ids \cup {Clock} : consumed[i] <= consumed'[i]
  BY <1>3, <1>6, <1>7, ConstantsAre
<1>9. Typed' /\ Placed' /\ Opened'
  <2>1. last' \in [Index -> Reads] /\ energy' \in [Index -> Reads] /\ shown' \subseteq Index
        /\ first_time' \in BOOLEAN /\ taken' \in Histories
    BY <1>1, TypedStateIs DEF Invariant, Typed
  <2>2. j' \in {0, 1}
    BY <1>1, ApmIs
  <2> QED BY <1>1, <1>7, <2>1, <2>2, ApmStepIs
<1>10. ClockIsSlow'
  BY <1>1, <1>6, <1>7 DEF ClockIsSlow
<1>11. ReadSoFar' /\ Reported' /\ Swept'
  BY <1>1, <1>7, <1>8, UseIs
<1> QED BY <1>9, <1>10, <1>11 DEF Invariant

LEMMA StopIs ==
  ASSUME Invariant, stop_apm_pwr_reporting
  PROVE  Invariant'
<1>1. /\ pc = "stop" /\ shown = {} /\ energy' = [energy EXCEPT ![j] = ReadApm] /\ TakesApm
      /\ \/ j = 0 /\ j' = 1 /\ pc' = "stop" /\ UNCHANGED <<shown, first_time>>
         \/ j # 0 /\ j' = 0 /\ first_time' = FALSE /\ pc' = "crashed" /\ UNCHANGED shown
         \/ j # 0 /\ j' = 0 /\ first_time' = FALSE /\ pc' = (IF first_time THEN "start" ELSE "done")
            /\ shown' = {0, 1} /\ Delta(last[1]["pkg"], energy'[1]["pkg"], ClockWord) # 0
      /\ UNCHANGED <<options, method, detected, opened, result, exit, last, consumed>>
      /\ UNCHANGED <<program, machine, cpu_model, total_packages>>
  <2>1. pc = "stop" /\ shown = {}
    BY DEF stop_apm_pwr_reporting, Invariant, Reported
  <2> QED BY <2>1 DEF stop_apm_pwr_reporting, options, detected
<1>2. program = "apm-read" /\ method = "apm" /\ j \in {0, 1} /\ 0 \in Index /\ 1 \in Index
  BY <1>1, ApmIs
<1>3. /\ ReadApm \in Reads /\ taken' \in Histories /\ \A p \in Index : p # j => taken'[p] = taken[p]
      /\ taken'[j][1] = taken[j][2] /\ taken'[j][2] = consumed[Source(j)]
      /\ \A p \in Index : p = j /\ energy'[p] = ReadApm => EnergyIs(p)'
  BY <1>1, ReadApmIs
<1>4. energy' \in [Index -> Reads] /\ energy'[j] = ReadApm /\ \A p \in Index : p # j => energy'[p] = energy[p]
  <2>1. energy \in [Index -> Reads]
    BY DEF Invariant, Typed
  <2> HIDE DEF Reads, Index
  <2> QED BY <1>1, <1>2, <1>3, <2>1
<1>5. Typed' /\ Placed' /\ Opened'
  <2>1. /\ last' \in [Index -> Reads]
        /\ consumed' \in [Ids \cup {Clock} -> 0..MaxEnergy] /\ \A i \in Ids : consumed'[i] = consumed[i]
    BY <1>1 DEF Invariant, Typed
  <2>2. first_time \in BOOLEAN
    BY TypedStateIs DEF Invariant
  <2>3. j' \in {0, 1} /\ pc' \in {"start", "stop", "done", "crashed"}
    BY <1>1
  <2>4. first_time' \in BOOLEAN
    BY <1>1, <2>2
  <2>5. shown' \subseteq Index
    BY <1>1, <1>2
  <2> QED BY <1>1, <1>3, <1>4, <2>1, <2>3, <2>4, <2>5, ApmStepIs
<1>6. ClockIsSlow'
  <2>1. consumed[Clock] \in Nat /\ MaxEnergy \div 2 \in Nat
    <3>1. consumed \in [Ids \cup {Clock} -> 0..MaxEnergy] /\ Clock \in Ids \cup {Clock}
      BY DEF Invariant, Typed
    <3> QED BY <3>1, ConstantsAre
  <2> QED BY <1>1, <2>1 DEF Invariant, ClockIsSlow
<1>7. ASSUME NEW p \in {0, 1} PROVE p \in Index /\ LastIs(p) /\ (p >= j => ~Twice(p))
  <2>1. p \in Index /\ LastRead(p)
    BY <1>1, <1>2 DEF LastRead
  <2>2. p >= j => ~Twice(p)
    BY <1>1, <1>2 DEF Twice
  <2> QED BY <2>1, <2>2 DEF Invariant, ReadSoFar
<1>9. ASSUME NEW p \in {0, 1}, p = j PROVE Good(p)'
  <2>1. EnergyIs(p)'
    BY <1>3, <1>4, <1>7, <1>9
  <2>2. ~Twice(p) /\ p \in Index
    <3>1. p >= j
      BY <1>9
    <3> QED BY <1>7, <3>1
  <2>3. LastAt(p) = taken[p][2] /\ taken'[p][1] = taken[p][2]
    BY <1>3, <1>9, <2>2 DEF LastAt
  <2>4. PICK at \in Moments : at = taken[p][2]
    BY <2>2, ReadsAre DEF Invariant
  <2>5. Valid(last[p], at, p, LastSet(p)) /\ at <= consumed[Source(p)]
    BY <1>7, <2>3, <2>4 DEF LastIs, Valid
  <2>6. Valid(last[p], at, p, LastSet(p))'
    BY <1>1, <2>2, <2>5, SameReadings DEF Invariant
  <2>7. Valid(last[p], taken[p][1], p, LastSet(p))'
    BY <2>3, <2>4, <2>6 DEF Valid
  <2>8. taken'[p][1] <= taken'[p][2]
    BY <1>3, <1>9, <2>3, <2>4, <2>5
  <2> QED BY <2>1, <2>7, <2>8 DEF Good
<1>10. ASSUME j # 0 PROVE Good(0)'
  <2>1. EnergyRead(0) /\ LastRead(0) /\ Twice(0)
    BY <1>1, <1>2, <1>10 DEF EnergyRead, LastRead, Twice
  <2>2. Good(0)
    BY <1>2, <2>1 DEF Invariant, ReadSoFar, Good, LastIs, LastAt
  <2>3. energy'[0] = energy[0] /\ taken'[0] = taken[0]
    BY <1>2, <1>3, <1>4, <1>10
  <2> QED BY <1>1, <1>2, <2>2, <2>3, SameReadings DEF Invariant
<1>11. ReadSoFar'
  <2>1. ASSUME NEW p \in Index, LastRead(p)' PROVE LastIs(p)'
    <3>1. p \in {0, 1} /\ pc' = "stop" /\ j = 0 /\ j' = 1
      BY <1>1, <1>2, <2>1 DEF LastRead
    <3>2. CASE p = 0
      <4>1. LastAt(p)' = taken'[p][1]
        BY <1>1, <1>2, <3>1, <3>2 DEF LastAt, Twice
      <4>2. Good(p)'
        BY <1>9, <3>1, <3>2
      <4> QED BY <4>1, <4>2 DEF Good, LastIs, Valid
    <3>3. CASE p = 1
      <4>1. ~Twice(p)' /\ ~Twice(p)
        BY <1>1, <1>2, <3>1, <3>3 DEF Twice
      <4>2. LastAt(p)' = LastAt(p)
        BY <1>3, <2>1, <3>1, <3>3, <4>1 DEF LastAt
      <4>3. LastIs(p) /\ last'[p] = last[p]
        BY <1>1, <1>7, <3>3
      <4> QED BY <1>1, <2>1, <4>2, <4>3, SameReadings DEF Invariant
    <3> QED BY <3>1, <3>2, <3>3
  <2>2. ASSUME NEW p \in Index, EnergyRead(p)' \/ Twice(p)' PROVE Good(p)'
    <3>1. p = 0 /\ j = 0
      BY <1>1, <1>2, <2>2 DEF EnergyRead, Twice, Index
    <3> QED BY <1>9, <3>1
  <2> QED BY <2>1, <2>2 DEF ReadSoFar, Good
<1>12. Reported'
  <2>1. \A p \in shown' : Good(p)'
    <3>1. CASE shown' = {}
      BY <3>1
    <3>2. CASE shown' = {0, 1} /\ j # 0
      <4>1. j = 1
        BY <1>2, <3>2
      <4>2. Good(0)'
        BY <1>10, <3>2
      <4>3. Good(1)'
        BY <1>9, <4>1
      <4> QED BY <3>2, <4>2, <4>3
    <3> QED BY <1>1, <3>1, <3>2
  <2>2. pc' = "stop" => shown' = {}
    BY <1>1
  <2>3. pc' \in {"stop", "crashed", "start", "done"} /\ method' = "apm"
    BY <1>1, <1>2
  <2>4. shown' # {} => "ptsc" \in machine'.registers
    <3>1. SUFFICES ASSUME shown' # {}, "ptsc" \notin machine.registers PROVE FALSE
      BY <1>1
    <3>2. j = 1 /\ Delta(last[1]["pkg"], energy'[1]["pkg"], ClockWord) # 0
      BY <1>1, <1>2, <3>1
    <3>3. Valid(last[1], LastAt(1), 1, {}) /\ "pkg" \in Domains
      BY <1>2, <1>7, <3>1 DEF LastIs, LastSet, Domains
    <3>4. last[1]["pkg"] = Unread
      BY <3>3 DEF Valid
    <3>5. energy'[1]["pkg"] = Unread
      <4>1. ReadApm["pkg"] = Unread
        BY <3>1, <3>2, <3>3 DEF ReadApm
      <4> QED BY <1>4, <3>2, <4>1
    <3>6. Delta(Unread, Unread, ClockWord) = 0
      BY DEF Delta, Unread
    <3> QED BY <3>2, <3>4, <3>5, <3>6
  <2> QED BY <2>1, <2>2, <2>3, <2>4 DEF Reported
<1>13. Swept'
  BY <1>1, <1>2 DEF Swept
<1> QED BY <1>5, <1>6, <1>11, <1>12, <1>13 DEF Invariant

-----------------------------------------------------------------------------
(* The machine, and every step.                                            *)

LEMMA ConsumeIs ==
  ASSUME Invariant, Consume
  PROVE  Invariant'
<1>1. UNCHANGED <<options, pc, method, j, detected, opened, result, first_time, exit, last, energy, shown, taken>>
  BY DEF Consume
<1>2. UNCHANGED <<program, machine, cpu_model, package_map, total_packages, force_msr, force_perf>>
  BY <1>1 DEF options, detected
<1>3. PICK i \in Ids : consumed[i] < MaxEnergy /\ consumed' = [consumed EXCEPT ![i] = @ + 1]
  BY DEF Consume
<1>4. consumed \in [Ids \cup {Clock} -> 0..MaxEnergy] /\ machine \in Machines
  BY TypedStateIs DEF Invariant, Typed
<1>5. Clock \notin Ids
  BY <1>4, IdsAre DEF Clock
<1>6. consumed[i] + 1 \in 0..MaxEnergy /\ consumed[i] <= consumed[i] + 1
  BY <1>3, <1>4, ConstantsAre
<1>7. /\ consumed' \in [Ids \cup {Clock} -> 0..MaxEnergy] /\ consumed'[Clock] = consumed[Clock]
      /\ \A k \in Ids \cup {Clock} : consumed[k] <= consumed'[k]
  <2>1. consumed' \in [Ids \cup {Clock} -> 0..MaxEnergy] /\ consumed'[i] = consumed[i] + 1
        /\ \A k \in Ids \cup {Clock} : k # i => consumed'[k] = consumed[k]
    BY <1>3, <1>4, <1>6
  <2>2. ASSUME NEW k \in Ids \cup {Clock} PROVE consumed[k] <= consumed'[k]
    <3>1. consumed[k] <= consumed[k]
      BY <1>4, ConstantsAre
    <3> QED BY <1>6, <2>1, <3>1
  <2>3. consumed'[Clock] = consumed[Clock]
    BY <1>3, <1>5, <2>1
  <2> QED BY <2>1, <2>2, <2>3
<1>8. Typed'
  <2>1. TypedState'
    BY <1>1, <1>2, TypedStateIs, StateIsTyped DEF Invariant
  <2> QED BY <1>1, <1>2, <1>7, <2>1, MachineIsKept DEF Invariant, Typed
<1>9. Placed'
  <2>1. Detected'
    BY <1>2, DetectedIsKept DEF Invariant, Placed
  <2>2. Located'
    BY <1>1, <1>2 DEF Invariant, Placed, Located
  <2> QED BY <2>1, <2>2 DEF Placed
<1>10. ClockIsSlow'
  BY <1>1, <1>7 DEF Invariant, ClockIsSlow
<1>11. Opened'
  <2>1. Ids' = Ids /\ Seen' = Seen /\ Packages' = Packages /\ \A p \in Packages : core(p)' = core(p)
    BY <1>2, MachineIsKept DEF Packages, core
  <2>2. ASSUME NEW p \in Index, opened'[p] # -1 PROVE p \in Ids' /\ opened'[p] <= consumed'[p]
    <3>1. opened[p] # -1 /\ p \in Ids /\ opened[p] <= consumed[p] /\ opened'[p] = opened[p]
      BY <1>1, <2>2 DEF Invariant, Opened
    <3>2. opened[p] \in -1..MaxEnergy /\ consumed[p] \in 0..MaxEnergy /\ consumed'[p] \in 0..MaxEnergy
          /\ consumed[p] <= consumed'[p]
      <4>1. opened \in [Index -> -1..MaxEnergy]
        BY DEF Invariant, Typed
      <4> QED BY <1>4, <1>7, <3>1, <4>1
    <3> QED BY <2>1, <3>1, <3>2, ConstantsAre
  <2> QED BY <1>1, <2>1, <2>2 DEF Invariant, Opened
<1>12. ReadSoFar' /\ Reported' /\ Swept'
  BY <1>1, <1>7, UseIs
<1> QED BY <1>8, <1>9, <1>10, <1>11, <1>12 DEF Invariant

LEMMA NothingIs ==
  ASSUME Invariant, UNCHANGED vars
  PROVE  Invariant'
<1>1. UNCHANGED <<options, pc, method, j, detected, opened, result, first_time, exit, last, energy, shown, taken, consumed>>
  BY DEF vars
<1>2. UNCHANGED <<program, machine, cpu_model, package_map, total_packages, force_msr, force_perf>>
  BY <1>1 DEF options, detected
<1>3. Typed'
  <2>1. TypedState'
    BY <1>1, <1>2, TypedStateIs, StateIsTyped DEF Invariant
  <2> QED BY <1>1, <1>2, <2>1, MachineIsKept DEF Invariant, Typed
<1>4. Placed'
  <2>1. Detected'
    BY <1>2, DetectedIsKept DEF Invariant, Placed
  <2>2. Located'
    BY <1>1, <1>2 DEF Invariant, Placed, Located
  <2> QED BY <2>1, <2>2 DEF Placed
<1>5. ClockIsSlow'
  BY <1>1 DEF Invariant, ClockIsSlow
<1>6. Opened'
  BY <1>1, <1>2, OpenedIsKept DEF Invariant
<1>7. ReadSoFar' /\ Reported' /\ Swept'
  <2>1. consumed' \in [Ids \cup {Clock} -> 0..MaxEnergy]
        /\ \A i \in Ids \cup {Clock} : consumed[i] <= consumed'[i]
    BY <1>1, ReadsAre DEF Invariant, Typed
  <2> QED BY <1>1, <2>1, UseIs
<1> QED BY <1>3, <1>4, <1>5, <1>6, <1>7 DEF Invariant

LEMMA InvariantNext == Invariant /\ [Next]_vars => Invariant'
<1> SUFFICES ASSUME Invariant, [Next]_vars PROVE Invariant'
  OBVIOUS
<1>1. CASE Program
  BY <1>1, MainIs, ChoiceIs, OpenEventsIs, OpenEventsPlotIs, ListMsrIs, BeforeIs, SleepSecondIs, AfterIs,
     BeforePlotIs, AfterPlotIs, SleepPlotIs, StartIs, IntervalIs, StopIs DEF Program
<1>2. CASE InputArrives
  BY <1>2, ChoiceIs
<1>3. CASE Consume
  BY <1>3, ConsumeIs
<1>4. CASE UNCHANGED vars
  BY <1>4, NothingIs
<1> QED BY <1>1, <1>2, <1>3, <1>4 DEF Next, Done

LEMMA SpecInvariant == Spec => []Invariant
  BY InvariantInit, InvariantNext, PTL DEF Spec

-----------------------------------------------------------------------------
(* The theorems.                                                           *)

LEMMA TypeIs == Invariant => TypeOK
<1> SUFFICES ASSUME Invariant PROVE TypeOK
  OBVIOUS
<1>1. MAX_PACKAGES = 16 /\ 0..(MAX_PACKAGES - 1) = Index
  BY DEF MAX_PACKAGES, Index
<1>2. TypedState
  BY TypedStateIs DEF Invariant
<1>3. /\ package_map \in [Index -> -1..Cardinality(DOMAIN machine.packages)]
      /\ opened \in [Index -> -1..MaxEnergy] /\ consumed \in [Ids \cup {Clock} -> 0..MaxEnergy]
  BY DEF Invariant, Typed
<1>4. ASSUME NEW p \in Index
      PROVE  /\ \A d \in Domains : {last[p][d], energy[p][d]} \subseteq -1..(MaxEnergy + Word + ClockWord)
             /\ taken[p] \in (0..MaxEnergy) \X (0..MaxEnergy)
  <2>1. last[p] \in Reads /\ energy[p] \in Reads
    BY ReadsAre DEF Invariant
  <2>2. taken \in Histories
    BY DEF Invariant, Typed
  <2>3. \A d \in Domains : {last[p][d], energy[p][d]} \subseteq -1..(MaxEnergy + Word + ClockWord)
    BY <2>1 DEF Reads
  <2> QED BY <2>2, <2>3 DEF Histories, Moments
<1>5. /\ program \in Programs /\ machine \in Machines
      /\ force_msr \in BOOLEAN /\ force_perf \in BOOLEAN
      /\ pc \in {"args", "names", "open", "stdin", "list", "before", "sleep", "after",
                 "init", "start", "interval", "stop", "done", "unable", "exit", "crashed", "empty"}
      /\ method \in {"", "sysfs", "perf", "msr", "apm"} /\ j \in Index
      /\ cpu_model \in Models /\ total_packages \in 0..16
      /\ result \in {0, -1} /\ first_time \in BOOLEAN /\ exit \in {-1, 0, 2, 3, 127}
      /\ shown \subseteq Index
  BY <1>2, Zenon DEF TypedState, Places, Methods
<1> HIDE DEF Index
<1> QED BY <1>1, <1>3, <1>4, <1>5, Zenon DEF TypeOK

\* In every state all variables have their types, whatever the identities of the packages: the
\* loops stay within the sixteen packages of package_map, and a reading is unread or within its
\* counter (rapl-read.c:301-338, 862-884).  The identity that is looked up in package_map
\* without a check (rapl-read.c:323-325) may be behind it; the program crashes there or passes
\* over it, and no index comes of it.
THEOREM RaplTypeCorrect == Spec => []TypeOK
  BY SpecInvariant, TypeIs, PTL

\* A domain that is printed was read twice, if it is not guessed.
LEMMA ReadTwice ==
  ASSUME Invariant, NEW p \in shown, NEW d \in PrintedDomains, ~Guessed(p, d)
  PROVE  d \in LastSet(p) /\ d \in EnergySet(p) /\ d \in Domains
<1>1. /\ program \in {"rapl-read", "rapl-plot", "apm-read"} /\ machine \in Machines
      /\ machine.zones \subseteq Domains /\ machine.events \subseteq Domains
  <2>1. program \in Programs /\ machine \in Machines
    BY DEF Invariant, Typed, TypedState
  <2> QED BY <2>1, MachineIs, RaplAssumption
<1>2. /\ method \in Methods \ {""} /\ p \in Index /\ (method = "apm" => "ptsc" \in machine.registers)
      /\ (method = "apm" <=> program = "apm-read") /\ cpu_model \in Models
  BY TypedStateIs DEF Invariant, Reported, Placed, Located, TypedState
<1>3. CASE method = "apm"
  <2>1. d = "pkg" /\ (p = 0 => "acc" \in machine.registers)
    <3>1. PrintedDomains = {"pkg"}
      BY <1>2, <1>3 DEF PrintedDomains
    <3> QED BY <1>3, <3>1 DEF Guessed
  <2> QED BY <1>2, <1>3, <2>1 DEF LastSet, EnergySet, Domains
<1>4. CASE program = "rapl-plot"
  <2>1. /\ method \in {"sysfs", "perf", "msr"} /\ d \in Domains
        /\ d \in CASE method = "sysfs" -> machine.zones [] method = "perf" -> machine.events
                    [] OTHER -> avail_plot(cpu_model)
        /\ method = "sysfs" => machine.readable
    <3>1. method \in {"sysfs", "perf", "msr"}
      BY <1>2, <1>4 DEF Methods
    <3>2. PrintedDomains = Domains
      BY <1>4, <3>1 DEF PrintedDomains, available
    <3> QED BY <1>4, <3>1, <3>2 DEF Guessed
  <2>2. CASE method = "sysfs"
    BY <2>1, <2>2 DEF LastSet, EnergySet
  <2>3. CASE method = "perf"
    BY <1>4, <2>1, <2>3 DEF LastSet, EnergySet
  <2>4. CASE method = "msr"
    BY <1>4, <2>1, <2>4 DEF LastSet, EnergySet
  <2> QED BY <2>1, <2>2, <2>3, <2>4
<1>5. CASE program = "rapl-read"
  <2>1. CASE method = "sysfs"
    BY <1>1, <1>5, <2>1 DEF PrintedDomains, Guessed, LastSet, EnergySet
  <2>2. CASE method = "perf"
    BY <1>1, <1>5, <2>2 DEF PrintedDomains, LastSet, EnergySet
  <2>3. CASE method = "msr"
    <3>1. cpu_model # "unknown" /\ d \in avail_after(cpu_model) /\ ~(cpu_model = "knights" /\ d = "cores")
      BY <1>5, <2>3 DEF Invariant, Placed, Located, PrintedDomains, Guessed
    <3>2. "cores" \in Domains /\ avail(cpu_model) \subseteq Domains
          /\ (cpu_model # "knights" => "cores" \in avail(cpu_model))
      BY <1>2, <3>1 DEF avail, Models, Domains
    <3>3. d \in avail(cpu_model)
      BY <3>1, <3>2 DEF avail_after
    <3> QED BY <1>5, <2>3, <3>1, <3>2, <3>3 DEF LastSet, EnergySet
  <2> QED BY <1>2, <1>5, <2>1, <2>2, <2>3 DEF Methods
<1> QED BY <1>1, <1>2, <1>3, <1>4, <1>5

LEMMA AccurateIs == Invariant => Accurate
<1> SUFFICES ASSUME Invariant PROVE Accurate
  OBVIOUS
<1> SUFFICES ASSUME NEW p \in shown, NEW d \in PrintedDomains, ~Guessed(p, d), ~CameRound(p, d)
             PROVE  Unread \notin {last[p][d], energy[p][d]} /\ Printed(p, d) = Used(p)
  BY DEF Accurate
<1> DEFINE from == taken[p][1]
           to == taken[p][2]
           x == last[p][d]
           y == energy[p][d]
<1>1. p \in Index /\ Good(p)
  BY TypedStateIs DEF Invariant, Reported
<1>2. from \in Nat /\ to \in Nat /\ from <= to
  BY <1>1, ReadsAre DEF Invariant, Good
<1>3. d \in LastSet(p) /\ d \in EnergySet(p) /\ d \in Domains
  BY ReadTwice
<1>4. x = Value(p, d, from) /\ y = Value(p, d, to)
  BY <1>1, <1>3 DEF Good, EnergyIs, Valid
<1>6. Wide(p) \in Nat \ {0} /\ (method # "apm" => Wide(p) = Word) /\ First[d] \in Nat
  BY <1>3, ConstantsAre DEF Wide
<1> DEFINE w == Wide(p)
           f == First[d]
<1>7. Used(p) = to - from
  BY DEF Used
<1>8. Printed(p, d) = IF method # "apm" THEN y - x ELSE Delta(x, y, w)
  BY DEF Printed
<1>9. CASE method = "perf"
  <2>1. opened[p] \in Int /\ opened[p] <= from
    <3>1. opened \in [Index -> -1..MaxEnergy]
      BY DEF Invariant, Typed
    <3> QED BY <1>1, <1>9, <3>1, ConstantsAre DEF Good, Valid
  <2>2. x = from - opened[p] /\ y = to - opened[p]
    BY <1>4, <1>9 DEF Value
  <2>3. x >= 0 /\ y >= 0 /\ y - x = to - from
    BY <1>2, <2>1, <2>2
  <2>4. x # -1 /\ y # -1
    BY <1>2, <2>1, <2>2, <2>3
  <2> QED BY <1>7, <1>8, <1>9, <2>3, <2>4 DEF Unread
<1>10. CASE method # "perf"
  <2>1. x = (from + f) % w /\ y = (to + f) % w
    BY <1>4, <1>10 DEF Value
  <2>0. w \in Nat \ {0} /\ f \in Nat
    BY <1>6
  <2>2. x \in 0..(w - 1) /\ y \in 0..(w - 1)
    <3>1. from + f \in Nat /\ to + f \in Nat
      BY <1>2, <1>6
    <3> HIDE DEF from, to, w, f, x, y
    <3> QED BY <2>0, <2>1, <3>1, ModIs
  <2>3. Unread \notin {x, y}
    BY <2>2 DEF Unread
  <2>4. x = Count(from, f, w) /\ y = Count(to, f, w)
    BY <2>1 DEF Count
  <2>5. CASE method = "apm"
    <3>1. to - from < w
      BY <1>2, <1>6, <1>7, <2>5 DEF CameRound
    <3>2. Delta(x, y, w) = to - from
      <4> HIDE DEF from, to, w, f, x, y
      <4> QED BY <1>2, <2>0, <2>4, <3>1, LessThanARound
    <3> QED BY <1>7, <1>8, <2>3, <2>5, <3>2
  <2>6. CASE method # "apm"
    <3>1. (from + f) \div w = (to + f) \div w
      BY <1>6, <1>10, <2>6 DEF CameRound
    <3>2. y - x = to - from
      <4> HIDE DEF from, to, w, f, x, y
      <4> QED BY <1>2, <2>0, <2>4, <3>1, SameRound
    <3> QED BY <1>7, <1>8, <2>3, <2>6, <3>2
  <2> QED BY <2>5, <2>6
<1> QED BY <1>9, <1>10

\* On any machine, with counters of any width, every difference that is printed is what the
\* package used between the last two times it was read, if its counter did not come round in
\* between, but for the domains that are printed without having been read: the programs
\* pair the readings right, over any number of packages and of rounds (rapl-read.c:577-619,
\* 757-781, 862-884; rapl-plot.c:845-893; apm-read.c:190-210).
THEOREM DifferencesAreAccurate == Spec => []Accurate
  BY SpecInvariant, AccurateIs, PTL

LEMMA ShownIs == Invariant => EveryPackageIsShown
<1> SUFFICES ASSUME Invariant, program = "rapl-read", pc = "done", ~Overruns,
                    -1 \notin {machine.packages[c] : c \in DOMAIN machine.packages}
             PROVE  {Owner(p) : p \in shown} = Ids
  BY DEF EveryPackageIsShown
<1>1. machine \in Machines /\ total_packages \in 0..16
  BY TypedStateIs DEF Invariant
<1>2. shown = Packages /\ method \in {"sysfs", "perf", "msr"}
      /\ (method # "sysfs" => \A p \in shown : core(p) \in Seen)
  BY DEF Invariant, Swept
<1>3. total_packages = CountPackages /\ package_map = [id \in Index |-> FirstCore(id)]
      /\ total_packages # 0
  BY DEF Invariant, Placed, Detected, Located
<1>4. /\ Seen = DOMAIN machine.packages
      /\ \A c \in Seen : machine.packages[c] \in Nat \cup {-1}
  <2>1. LET n == Cardinality(DOMAIN machine.packages)
        IN  /\ n \in Nat \ {0} /\ DOMAIN machine.packages = 0..(n - 1)
            /\ machine.packages \in [0..(n - 1) -> Nat \cup {-1}]
    BY <1>1, MachineIs
  <2>2. \A c \in DOMAIN machine.packages : \A k \in 0..c : k \in DOMAIN machine.packages
    BY <2>1
  <2> QED BY <2>1, <2>2 DEF Seen
<1>5. CountPackages = Cardinality(Ids)
  <2>1. {machine.packages[c] : c \in Seen} = Ids
    BY <1>4 DEF Ids
  <2>2. Ids \subseteq 0..15
    <3>1. \A c \in Seen : machine.packages[c] \in 0..15 \cup {-1}
      BY <1>4 DEF Overruns, MAX_PACKAGES
    <3> QED BY <1>4, <3>1 DEF Ids
  <2>3. Ids \cap (0..15) = Ids
    BY <2>2
  <2> QED BY <2>1, <2>3 DEF CountPackages, MAX_PACKAGES
<1>6. Packages = 0..(Cardinality(Ids) - 1) /\ IsFiniteSet(Ids) /\ Cardinality(Ids) \in 1..16
  BY <1>1, <1>3, <1>5, IdsAre DEF Packages
<1>7. CASE method = "sysfs"
  <2>1. \A p \in Packages : Owner(p) = ZoneOwner(p)
    BY <1>7 DEF Owner
  <2> QED BY <1>1, <1>2, <1>6, <2>1, ZoneOwnerIs
<1>8. CASE method # "sysfs"
  <2>1. \A p \in Packages : Owner(p) = p
    BY <1>8 DEF Owner
  <2>2. ASSUME NEW p \in Packages PROVE p \in Ids
    <3>1. p \in Index /\ p \in Int
      BY <1>6, <2>2 DEF Index
    <3>2. FirstCore(p) \in Seen
      BY <1>2, <1>3, <1>8, <3>1 DEF core
    <3> QED BY <1>1, <3>1, <3>2, FirstCoreIs
  <2>3. IsFiniteSet(Packages) /\ Cardinality(Packages) = Cardinality(Ids)
    <3>1. 0 \in Int /\ Cardinality(Ids) - 1 \in Int /\ ~(0 > Cardinality(Ids) - 1)
          /\ Cardinality(Ids) - 1 - 0 + 1 = Cardinality(Ids)
      BY <1>6
    <3> QED BY <1>6, <3>1, FS_Interval
  <2>4. Packages = Ids
    BY <1>6, <2>2, <2>3, FS_Subset
  <2> QED BY <1>2, <2>1, <2>4
<1> QED BY <1>7, <1>8

\* rapl-read that ends well has shown every package, however they are read, if no core is off
\* line, no identity is behind package_map and the zones may be read (rapl-read.c:301-338).
THEOREM PackagesAreShown == Spec => []EveryPackageIsShown
  BY SpecInvariant, ShownIs, PTL

=============================================================================
