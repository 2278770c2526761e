-------------------------------- MODULE Rapl --------------------------------
(***************************************************************************)
(* rapl-read.c and rapl-plot.c: the energy the packages of a machine used    *)
(* between two readings of their counters, read through sysfs, perf events  *)
(* or the MSRs, package by package while the machine goes on consuming.     *)
(* rapl-read reports one interval; rapl-plot one after another, for ever.   *)
(* apm-read.c reads the accumulated power of an AMD core and its clock, in   *)
(* two intervals.                                                           *)
(***************************************************************************)
EXTENDS Integers, FiniteSets

CONSTANTS
  Programs,   \* a subset of {"rapl-read", "rapl-plot", "apm-read"}
  Machines,   \* the machines they run on
  Word,       \* a counter comes round here (2^32 units; max_energy_range_uj; JMax)
  ClockWord,  \* and the clock of AMD (2^24, or 2^tsc_size)
  First,      \* what the counter of each domain held at first
  MaxEnergy   \* bound: units a package consumes

\* rapl_domain_names.
Domains == {"cores", "gpu", "pkg", "ram", "psys"}
Models == {"bridge", "bridge-ep", "haswell", "haswell-ep", "skylake", "knights", "amd", "unknown"}
MAX_PACKAGES == 16

\* A machine: the identity of the package of each core, any number (-1: the core is off line
\* and has no topology), its model, the zones of powercap (none: not there) and whether this user may read them, the
\* events of the power PMU (none: no such PMU) and whether the user may open them, what
\* becomes of opening an MSR device, the domains with a register (with them the accumulator
\* and clock of AMD), and whether cpuid tells of these.
Apm == {"acc", "ptsc"}
IsMachine(m) ==
  /\ m.packages \in [0..(Cardinality(DOMAIN m.packages) - 1) -> Nat \cup {-1}]
  /\ IsFiniteSet(DOMAIN m.packages) /\ 0 \in DOMAIN m.packages
  /\ m.packages[0] # -1
  /\ m.model \in Models
  /\ m.zones \in SUBSET (Domains \ {"psys"}) /\ m.readable \in BOOLEAN
  /\ m.events \in SUBSET Domains /\ m.allowed \in BOOLEAN
  /\ m.msr \in {"ok", "ENXIO", "EIO", "EACCES"}
  /\ m.registers \in SUBSET (Domains \cup Apm) /\ m.apm \in BOOLEAN

ASSUME RaplAssumption ==
  /\ Programs \subseteq {"rapl-read", "rapl-plot", "apm-read"}
  /\ \A m \in Machines : IsMachine(m)
  /\ Word \in Nat \ {0} /\ ClockWord \in Nat \ {0} /\ MaxEnergy \in Nat /\ MaxEnergy >= 2
  /\ First \in [Domains -> 0..(Word - 1)]

VARIABLES
  program, machine, force_msr, force_perf,
  pc, method, j,                \* where it is, how it reads, the package it is at
  cpu_model, package_map, total_packages,
  opened,                       \* energy at the opening of a package's events; -1: not open
  result, first_time, exit,     \* of main, and the status it exits with
  last, energy, shown,          \* readings, and the packages whose difference is printed
  taken,                        \* history: what a package had used when it was read last but
                                \* one, and when it was read last
  consumed                      \* the hardware: what each package has used; its clock

options == <<program, machine, force_msr, force_perf>>
detected == <<cpu_model, package_map, total_packages>>
vars == <<options, pc, method, j, detected, opened, result, first_time, exit,
          last, energy, shown, taken, consumed>>

\* A variable nothing was read into: zero in rapl-plot, whatever was on the stack in rapl-read
\* and in rapl_sysfs of both.
Unread == -1
NoReading == [d \in Domains |-> Unread]

Ids == {machine.packages[c] : c \in DOMAIN machine.packages} \ {-1}
Clock == -1

\* detect_cpu: rapl-plot knows no AMD.
detect_cpu == machine.model
detect_cpu_plot == IF machine.model = "amd" THEN "unknown" ELSE machine.model

\* detect_packages stops at the first core without a topology.
Seen == {c \in DOMAIN machine.packages : \A k \in 0..c : machine.packages[k] # -1}
CoresOf(p) == {c \in Seen : machine.packages[c] = p}
FirstCore(p) ==
  IF CoresOf(p) = {} THEN -1 ELSE CHOOSE c \in CoresOf(p) : \A k \in CoresOf(p) : c <= k
\* Mutant: the highest identity is taken for the number of packages.
HighestPackage ==
  LET found == {machine.packages[c] : c \in Seen} \cap (0..(MAX_PACKAGES - 1))
  IN  IF found = {} THEN 0 ELSE CHOOSE p \in found : \A q \in found : q <= p
CountPackages == Cardinality({machine.packages[c] : c \in Seen} \cap (0..(MAX_PACKAGES - 1)))
\* The identity is the index, unchecked: one behind package_map finds a zero there, or nothing
\* the program may read.
Overruns == \E c \in Seen : machine.packages[c] >= MAX_PACKAGES

\* The domains rapl_msr of rapl-read takes a first reading of.
avail(model) ==
  CASE model \in {"bridge-ep", "haswell-ep"} -> {"pkg", "cores", "ram"}
    [] model = "knights" -> {"pkg", "ram"}
    [] model = "bridge" -> {"pkg", "cores", "gpu"}
    [] model = "haswell" -> {"pkg", "cores", "gpu", "ram"}
    [] model = "skylake" -> Domains
    [] model = "amd" -> {"pkg", "cores"}
    [] model = "unknown" -> {}

\* The second reading takes the cores on every model.
avail_after(model) == avail(model) \cup {"cores"}

\* The domains rapl_msr of rapl-plot reads, also on a model it does not know.
avail_plot(model) ==
  {"pkg", "cores"}
    \cup (IF model \in {"bridge", "haswell", "skylake"} THEN {"gpu"} ELSE {})
    \cup (IF model \in {"bridge-ep", "haswell-ep", "haswell", "skylake"} THEN {"ram"} ELSE {})
    \cup (IF model = "skylake" THEN {"psys"} ELSE {})

\* What rapl-plot prints, however it reads: two of the processors have less in it.
available == Domains

\* Domains whose policy or status registers are listed.
listed == {"pkg"} \cup (avail(cpu_model) \cap {"gpu"})
            \cup (IF cpu_model = "bridge-ep" THEN {"cores"} ELSE {})
listed_plot == {"pkg"} \cup (IF cpu_model \in {"bridge", "haswell"} THEN {"gpu"} ELSE {})
                 \cup (IF cpu_model = "bridge-ep" THEN {"cores"} ELSE {})

core(p) == package_map[p]
\* open_msr and read_msr of the registers of rs succeed; if not, the program exits.
MsrWorks(p, rs) == core(p) \in Seen /\ machine.msr = "ok" /\ rs \subseteq machine.registers
\* Mutant: the error number is the status.
ExitErrno(p) == IF machine.msr = "ENXIO" THEN 6 ELSE IF machine.msr = "EIO" THEN 5 ELSE 13
open_msr(p) ==
  IF core(p) \in Seen
  THEN CASE machine.msr = "ENXIO" -> 2 [] machine.msr = "EIO" -> 3 [] OTHER -> 127
  ELSE 127

\* The kernel numbers the zones in the order of the packages.
ZoneOwner(p) == CHOOSE id \in Ids : Cardinality({q \in Ids : q < id}) = p
Owner(p) == IF method = "sysfs" THEN ZoneOwner(p) ELSE p

\* What the methods read of package p.  A zone that may not be read leaves what was there,
\* and that is printed.
FromSysfs(p) ==
  [d \in Domains |-> IF d \in machine.zones /\ machine.readable
                     THEN (consumed[ZoneOwner(p)] + First[d]) % Word ELSE Unread]
FromPerf(p) ==
  [d \in Domains |-> IF d \in machine.events
                     THEN consumed[machine.packages[core(p)]] - opened[p] ELSE Unread]
FromMsr(p, ds) ==
  [d \in Domains |-> IF d \in ds
                     THEN (consumed[machine.packages[core(p)]] + First[d]) % Word ELSE Unread]
Reading(p, ds) ==
  CASE method = "sysfs" -> FromSysfs(p)
    [] method = "perf"  -> FromPerf(p)
    [] method = "msr"   -> FromMsr(p, ds)

\* History: package p is read while its owner has used so much.
Takes(p, used) == taken' = [taken EXCEPT ![p] = <<@[2], used>>]
-----------------------------------------------------------------------------
Packages == 0..(total_packages - 1)
AtLast == j + 1 >= total_packages
Ended == pc \in {"done", "unable", "exit", "crashed", "empty"}

Init ==
  /\ program \in Programs /\ machine \in Machines
  /\ force_msr \in BOOLEAN /\ force_perf \in BOOLEAN
  /\ pc = "args" /\ method = "" /\ j = 0
  /\ cpu_model = "unknown" /\ package_map = [p \in 0..(MAX_PACKAGES - 1) |-> -1]
  /\ total_packages = 0
  /\ opened = [p \in 0..(MAX_PACKAGES - 1) |-> -1]
  /\ result = 0 /\ first_time = TRUE /\ exit = 0
  /\ last = [p \in 0..(MAX_PACKAGES - 1) |-> NoReading] /\ energy = last /\ shown = {}
  /\ taken = [p \in 0..(MAX_PACKAGES - 1) |-> <<0, 0>>]
  /\ consumed = [p \in Ids \cup {Clock} |-> 0]

Exit(status) ==
  /\ pc' = "exit" /\ exit' = status
  /\ UNCHANGED <<method, j, result, last, energy, shown, taken, opened, first_time>>

\* On to the next package, or to the label after the loop over them.
NextPackage(label) ==
  /\ j' = IF AtLast THEN 0 ELSE j + 1
  /\ pc' = IF AtLast THEN label ELSE pc

\* main up to the choice of the method; -h and an unknown option exit.  Where no identity is
\* below 16 there is no package to read, and none is shown.
Main(p, model) ==
  /\ program = p /\ pc = "args"
  /\ \/ /\ cpu_model' = model
        /\ package_map' = [id \in DOMAIN package_map |-> FirstCore(id)]
        /\ total_packages' = CountPackages
        /\ pc' = IF CountPackages = 0 THEN "empty"
                 ELSE IF force_msr THEN "list" ELSE IF force_perf THEN "open" ELSE "names"
        /\ UNCHANGED <<method, j, result, last, energy, shown, taken, opened, first_time, exit>>
     \/ /\ Overruns /\ pc' = "crashed"
        /\ UNCHANGED <<detected, method, j, result, last, energy, shown, taken, opened, first_time, exit>>
     \/ \E status \in {0, -1} : Exit(status) /\ UNCHANGED detected
  /\ UNCHANGED <<options, consumed>>

main == Main("rapl-read", detect_cpu)
main_plot == Main("rapl-plot", detect_cpu_plot)

\* rapl_sysfs finds the zones; without them main goes on with the MSRs.
Names ==
  /\ pc = "names"
  /\ IF machine.zones = {} THEN pc' = "list" /\ UNCHANGED method
     ELSE pc' = "before" /\ method' = "sysfs"
  /\ UNCHANGED <<options, j, detected, opened, result, first_time, exit, last, energy, shown, taken, consumed>>

\* Mutant: the program reads its events also when it could not open them.
ReadsAllTheSame == "stdin"
\* main of rapl-read tries the MSRs when perf failed.
WithoutPerf == "list"

OpensEvents ==
  /\ machine.events # {} /\ machine.allowed /\ core(j) \in Seen
  /\ opened' = [opened EXCEPT ![j] = consumed[machine.packages[core(j)]]]

\* rapl_perf of rapl-read opens the events of a package; config is not initialised for an
\* event that is not there, and opening what it holds may fail.
OpenEvents ==
  /\ program = "rapl-read" /\ pc = "open"
  /\ \/ /\ OpensEvents /\ method' = "perf"
        /\ last' = [last EXCEPT ![j] = [d \in Domains |-> 0]] /\ Takes(j, consumed[j])
        /\ NextPackage("sleep")
     \/ /\ ~(machine.events = Domains /\ machine.allowed /\ core(j) \in Seen)
        /\ pc' = WithoutPerf /\ method' = "" /\ j' = 0 /\ UNCHANGED <<opened, last, taken>>
  /\ UNCHANGED <<options, detected, result, first_time, exit, energy, shown, consumed>>

\* rapl_perf_detect of rapl-plot; when it fails main calls rapl_perf all the same, where a
\* descriptor not opened is zero.
OpenEventsPlot ==
  /\ program = "rapl-plot" /\ pc = "open"
  /\ IF machine.events # {} /\ machine.allowed /\ core(j) \in Seen
     THEN OpensEvents /\ method' = "perf" /\ NextPackage("before")
     ELSE pc' = "stdin" /\ method' = "" /\ j' = 0 /\ UNCHANGED opened
  /\ UNCHANGED <<options, detected, result, first_time, exit, last, energy, shown, taken, consumed>>

\* The read of descriptor zero returns (external: nobody need type anything).
InputArrives ==
  /\ pc = "stdin" /\ pc' = "list"
  /\ UNCHANGED <<options, method, j, detected, opened, result, first_time, exit, last, energy, shown, taken, consumed>>

\* The first loop of rapl_msr.
ListMsr ==
  /\ program = "rapl-read" /\ pc = "list"
  /\ IF cpu_model = "unknown"
     THEN /\ pc' = "unable" /\ exit' = -1
          /\ UNCHANGED <<method, j, result, last, energy, shown, taken, opened, first_time>>
     ELSE IF MsrWorks(j, listed)
     THEN /\ method' = "msr" /\ NextPackage("before")
          /\ UNCHANGED <<result, exit, last, energy, shown, taken, opened, first_time>>
     ELSE Exit(open_msr(j))
  /\ UNCHANGED <<options, detected, consumed>>

\* rapl_detect_msr; main calls rapl_msr whatever it returns.
ListMsrPlot ==
  /\ program = "rapl-plot" /\ pc = "list"
  /\ IF cpu_model = "unknown"
     THEN /\ pc' = "before" /\ method' = "msr" /\ result' = -1
          /\ UNCHANGED <<j, exit, last, energy, shown, taken, opened, first_time>>
     ELSE IF MsrWorks(j, listed_plot)
     THEN /\ method' = "msr" /\ NextPackage("before")
          /\ UNCHANGED <<result, exit, last, energy, shown, taken, opened, first_time>>
     ELSE Exit(open_msr(j))
  /\ UNCHANGED <<options, detected, consumed>>

Readable(ds) == method = "msr" => MsrWorks(j, ds)

\* rapl-read: the readings before and after the sleep; sysfs prints when all are taken.
Before ==
  /\ program = "rapl-read" /\ pc = "before"
  /\ IF Readable(avail(cpu_model))
     THEN /\ last' = [last EXCEPT ![j] = Reading(j, avail(cpu_model))] /\ Takes(j, consumed[Owner(j)])
          /\ NextPackage("sleep")
          /\ UNCHANGED <<method, result, exit, energy, shown, opened, first_time>>
     ELSE Exit(open_msr(j))
  /\ UNCHANGED <<options, detected, consumed>>

SleepSecond ==
  /\ program = "rapl-read" /\ pc = "sleep" /\ pc' = "after"
  /\ UNCHANGED <<options, method, j, detected, opened, result, first_time, exit, last, energy, shown, taken, consumed>>

After ==
  /\ program = "rapl-read" /\ pc = "after"
  /\ IF Readable(avail_after(cpu_model))
     THEN /\ energy' = [energy EXCEPT ![j] = Reading(j, avail_after(cpu_model))] /\ Takes(j, consumed[Owner(j)])
          /\ shown' = IF method # "sysfs" THEN shown \cup {j} ELSE IF AtLast THEN Packages ELSE {}
          /\ NextPackage("done")
          /\ UNCHANGED <<method, result, exit, last, opened, first_time>>
     ELSE Exit(open_msr(j))
  /\ UNCHANGED <<options, detected, consumed>>

\* rapl-plot: one round of readings, in main and then in its loop.
ReadPlot(label) ==
  IF Readable(avail_plot(cpu_model))
  THEN /\ energy' = [energy EXCEPT ![j] = Reading(j, avail_plot(cpu_model))] /\ Takes(j, consumed[Owner(j)])
       /\ NextPackage(label)
       /\ UNCHANGED <<method, result, exit, opened>>
  ELSE Exit(open_msr(j))

BeforePlot ==
  /\ program = "rapl-plot" /\ pc = "before"
  /\ ReadPlot(IF result = 0 THEN "after" ELSE "unable")
  /\ last' = IF pc' = "after" THEN energy' ELSE last
  /\ UNCHANGED <<options, detected, first_time, shown, consumed>>

AfterPlot ==
  /\ program = "rapl-plot" /\ pc = "after"
  /\ ReadPlot("sleep")
  /\ first_time' = (first_time /\ pc' # "sleep")
  /\ shown' = IF pc' = "sleep" /\ ~first_time THEN Packages ELSE {}
  /\ UNCHANGED <<options, detected, last, consumed>>

\* Mutant: what was read last is not kept for the next line.
KeepFirst ==
  /\ program = "rapl-plot" /\ pc = "sleep" /\ pc' = "after"
  /\ shown' = {}
  /\ UNCHANGED <<options, method, j, detected, opened, result, first_time, exit, last, energy, taken, consumed>>
SleepPlot ==
  /\ program = "rapl-plot" /\ pc = "sleep" /\ pc' = "after"
  /\ last' = energy /\ shown' = {}
  /\ UNCHANGED <<options, method, j, detected, opened, result, first_time, exit, energy, taken, consumed>>

-----------------------------------------------------------------------------
\* main of apm-read goes on with an AMD processor; then init_apm_pwr_reporting, whose
\* result main does not look at.
main_apm ==
  /\ program = "apm-read" /\ pc = "args"
  /\ \/ pc' = IF machine.model = "amd" THEN "init" ELSE "exit"
     \/ machine.model = "amd" /\ Overruns /\ pc' = "crashed"
  /\ package_map' = IF pc' = "init" THEN [id \in DOMAIN package_map |-> FirstCore(id)] ELSE package_map
  /\ total_packages' = IF pc' = "init" THEN CountPackages ELSE 0
  /\ UNCHANGED <<options, method, j, cpu_model, opened, result, first_time, exit, last, energy, shown, taken, consumed>>

init_apm_pwr_reporting ==
  /\ pc = "init"
  /\ IF machine.apm /\ machine.msr = "ok" THEN pc' = "start" /\ method' = "apm"
     ELSE pc' = "done" /\ UNCHANGED method
  /\ UNCHANGED <<options, j, detected, opened, result, first_time, exit, last, energy, shown, taken, consumed>>

\* Of core 0 first the accumulator and then the clock; one that cannot be read reads -1.
ReadApm ==
  LET owner == IF j = 0 THEN machine.packages[0] ELSE Clock
      word  == IF j = 0 THEN Word ELSE ClockWord
      there == (IF j = 0 THEN "acc" ELSE "ptsc") \in machine.registers
  IN  [d \in Domains |-> IF there /\ d = "pkg" THEN (consumed[owner] + First[d]) % word ELSE Unread]
TakesApm == Takes(j, consumed[IF j = 0 THEN machine.packages[0] ELSE Clock])

start_apm_pwr_reporting ==
  /\ pc = "start" /\ shown' = {}
  /\ last' = [last EXCEPT ![j] = ReadApm] /\ TakesApm
  /\ IF j = 0 THEN j' = 1 /\ pc' = pc ELSE j' = 0 /\ pc' = "interval"
  /\ UNCHANGED <<options, method, detected, opened, result, first_time, exit, energy, consumed>>

\* It sleeps or computes, and the clock goes on.
Interval ==
  /\ pc = "interval" /\ pc' = "stop"
  /\ \E n \in {1, MaxEnergy \div 2} : consumed' = [consumed EXCEPT ![Clock] = @ + n]
  /\ UNCHANGED <<options, method, j, detected, opened, result, first_time, exit, last, energy, shown, taken>>

\* Jdelta and Tdelta: a counter that is less has come round once, each at its own width.
Delta(x, y, word) == IF y < x THEN y + word - x ELSE y - x

\* The average divides by the clock's difference, zero when it cannot be read.
stop_apm_pwr_reporting ==
  /\ pc = "stop"
  /\ energy' = [energy EXCEPT ![j] = ReadApm] /\ TakesApm
  /\ IF j = 0 THEN j' = 1 /\ UNCHANGED <<pc, shown, first_time>>
     ELSE /\ j' = 0 /\ first_time' = FALSE
          /\ IF Delta(last[1]["pkg"], energy'[1]["pkg"], ClockWord) = 0
             THEN pc' = "crashed" /\ UNCHANGED shown
             ELSE pc' = (IF first_time THEN "start" ELSE "done") /\ shown' = {0, 1}
  /\ UNCHANGED <<options, method, detected, opened, result, exit, last, consumed>>
-----------------------------------------------------------------------------
\* The machine works on (external).
Consume ==
  /\ ~Ended
  /\ \E p \in Ids : /\ consumed[p] < MaxEnergy
                    /\ consumed' = [consumed EXCEPT ![p] = @ + 1]
  /\ UNCHANGED <<options, pc, method, j, detected, opened, result, first_time, exit, last, energy, shown, taken>>

Program ==
  \/ main \/ main_plot \/ Names \/ OpenEvents \/ OpenEventsPlot \/ ListMsr \/ ListMsrPlot
  \/ Before \/ SleepSecond \/ After \/ BeforePlot \/ AfterPlot \/ SleepPlot
  \/ main_apm \/ init_apm_pwr_reporting \/ start_apm_pwr_reporting \/ Interval \/ stop_apm_pwr_reporting

Done == Ended /\ UNCHANGED vars

Next == Program \/ InputArrives \/ Consume \/ Done

Spec == Init /\ [][Next]_vars
\* The program runs; nobody has to type anything or use any energy.
FairSpec == Spec /\ WF_vars(Program)
-----------------------------------------------------------------------------
TypeOK ==
  /\ program \in Programs /\ machine \in Machines
  /\ force_msr \in BOOLEAN /\ force_perf \in BOOLEAN
  /\ pc \in {"args", "names", "open", "stdin", "list", "before", "sleep", "after",
             "init", "start", "interval", "stop", "done", "unable", "exit", "crashed", "empty"}
  /\ method \in {"", "sysfs", "perf", "msr", "apm"} /\ j \in 0..(MAX_PACKAGES - 1)
  /\ cpu_model \in Models /\ total_packages \in 0..MAX_PACKAGES
  /\ package_map \in [0..(MAX_PACKAGES - 1) -> -1..Cardinality(DOMAIN machine.packages)]
  /\ opened \in [0..(MAX_PACKAGES - 1) -> -1..MaxEnergy]
  /\ result \in {0, -1} /\ first_time \in BOOLEAN /\ exit \in {-1, 0, 2, 3, 127}
  /\ \A p \in 0..(MAX_PACKAGES - 1) :
       /\ \A d \in Domains : {last[p][d], energy[p][d]} \subseteq -1..(MaxEnergy + Word + ClockWord)
       /\ taken[p] \in (0..MaxEnergy) \X (0..MaxEnergy)
  /\ shown \subseteq 0..(MAX_PACKAGES - 1)
  /\ consumed \in [Ids \cup {Clock} -> 0..MaxEnergy]

\* The width of counter p: of AMD's two the second is the clock.
Wide(p) == IF method = "apm" /\ p = 1 THEN ClockWord ELSE Word

\* The domains whose difference is printed, and what is printed.
PrintedDomains ==
  IF program = "rapl-plot" THEN available
  ELSE CASE method = "apm"   -> {"pkg"}
         [] method = "sysfs" -> machine.zones
         [] method = "perf"  -> machine.events
         [] OTHER            -> avail_after(cpu_model)
Printed(p, d) ==
  IF method # "apm" THEN energy[p][d] - last[p][d]
  ELSE Delta(last[p][d], energy[p][d], Wide(p))

\* What the package used between the moments it was read last but one and last.
Used(p) == taken[p][2] - taken[p][1]

\* A counter of sysfs or an MSR came round in between, one of AMD more than once.
CameRound(p, d) ==
  CASE method = "perf" -> FALSE
    [] method = "apm"  -> Used(p) >= Wide(p)
    [] OTHER           -> (taken[p][1] + First[d]) \div Word # (taken[p][2] + First[d]) \div Word

\* The domains whose readings are printed though there is none: zones the user may not read
\* (rapl-read.c:846-849), the cores of the Knights, first read after the sleep
\* (rapl-read.c:591), what rapl-plot prints of every machine (rapl-plot.c:871-880), and an
\* accumulator that is not there.
Guessed(p, d) ==
  \/ method = "sysfs" /\ ~machine.readable
  \/ method = "msr" /\ program = "rapl-read" /\ cpu_model = "knights" /\ d = "cores"
  \/ program = "rapl-plot" /\ d \notin CASE method = "sysfs" -> machine.zones
                                       [] method = "perf" -> machine.events
                                       [] OTHER -> avail_plot(cpu_model)
  \/ method = "apm" /\ p = 0 /\ "acc" \notin machine.registers

\* Every difference that is printed is what the package used between the last two times it was
\* read, for each counter that did not come round in between, but for the domains that are
\* guessed (rapl-read.c:577-619, 757-781, 862-884; rapl-plot.c:845-893; apm-read.c:190-210).
Accurate ==
  \A p \in shown, d \in PrintedDomains :
    ~Guessed(p, d) /\ ~CameRound(p, d) =>
      Unread \notin {last[p][d], energy[p][d]} /\ Printed(p, d) = Used(p)

\* rapl-read ends well only when it has reported every package of the machine, whatever
\* their identities below 16, if no core is off line and the zones may be read
\* (rapl-read.c:301-338).
EveryPackageIsShown ==
  program = "rapl-read" /\ pc = "done" /\ (method = "sysfs" => machine.readable)
  /\ -1 \notin {machine.packages[c] : c \in DOMAIN machine.packages} /\ ~Overruns
    => {Owner(p) : p \in shown} = Ids

\* rapl-read and apm-read always end: no way of reading waits for another
\* (rapl-read.c:891-964; apm-read.c:449-503).
Ends == program # "rapl-plot" ~> Ended
=============================================================================
