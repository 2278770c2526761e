----------------------------- MODULE Registers -----------------------------
(***************************************************************************)
(* The programs that change some bits of a register others use too: the      *)
(* prefetchers' MSR of each core (intel-prefetch-disable.c and the two of    *)
(* core2-prefetch), the function select of the serial port's pins            *)
(* (rpirtscts.c), the control lines of a port (toggle_rts.c, toggle_dtr.c,   *)
(* pulse_rts.c).  Two of them run at once; each reads, changes its bits and  *)
(* writes, without a lock, while the kernel writes its own and cores come    *)
(* and go.                                                                   *)
(***************************************************************************)
EXTENDS Integers, FiniteSets

CONSTANTS
  Pairs,        \* pairs of jobs run at once
  CoreSets,     \* sets of cores there may be
  LastCore,     \* intel-prefetch-disable tries cores up to here (1024)
  MAX_CPUS,     \* the tools of core2-prefetch the first so many (32)
  MaxKernel     \* bound: writes by the kernel

Msr(c) == <<"msr", c>>
Gpio(n) == <<"gpio", n>>     \* GFPSEL1, GFPSEL3; 0 is memory that is no GPIO
Lines == <<"lines", 0>>

\* What is run: nhm and core2 are intel-prefetch-disable on these processors, tool is
\* (dis|en)able_core2_prefetch; core is -1 for all; on is to disable prefetch, enable flow
\* control; rev is the board revision of the command line of the kernel.
Prefetch == {"nhm", "core2", "tool"}
Toggles == {"toggle_rts", "toggle_dtr", "pulse_rts"}
Revisions == {"26", "40", "pi2", "module", "untold"}
Jobs == [program : Prefetch \cup Toggles \cup {"rpirtscts", "none"},
         core : -1..LastCore, on : BOOLEAN, rev : Revisions]

ASSUME RegistersAssumption ==
  /\ LastCore \in Nat /\ MAX_CPUS \in 1..LastCore /\ MaxKernel \in Nat
  /\ Pairs \subseteq Jobs \X Jobs
  /\ CoreSets \subseteq SUBSET (0..(LastCore - 1))

Procs == {1, 2}
Registers == {Msr(c) : c \in 0..LastCore} \cup {Gpio(n) : n \in {0, 1, 3}} \cup {Lines}

VARIABLES
  job,           \* what each process runs
  pc, k, tmp,    \* its statement, the visit it is at, the value it read
  exit,          \* the status it ended with
  saved,         \* the terminal settings a toggle found
  termios,       \* the settings of the port
  cores, late,   \* cores on line; history: those each process was past when they came on line
  reg,           \* registers: the bits of one program ("own") and the others
  wrote,         \* history: the registers each process wrote
  meant,         \* history: the bits as whoever owns them wrote them last
  stale, raced,  \* history: processes whose register was written since they read it, and
                 \* registers written by such a process
  crossed,       \* history: a toggle ran while another had the port, or was killed, or could
                 \* not set the port back
  kernel         \* writes left to the kernel

history == <<wrote, meant, stale, raced>>
vars == <<job, pc, k, tmp, exit, saved, termios, cores, late, reg, history, crossed, kernel>>

\* The board rpi_version and rpi_gpio_header_type take it for; what is untold is a Pi 3B.
Header(rev) == IF rev = "26" THEN 26 ELSE 40
Base(rev) == IF rev \in {"pi2", "untold"} THEN "pi2" ELSE "pi"
GpioRegister(rev, base) ==
  IF Base(rev) # base THEN Gpio(0) ELSE IF Header(rev) = 40 THEN Gpio(1) ELSE Gpio(3)

\* The k-th register of a job, and the last.
Register(j, n) ==
  CASE j.program \in Prefetch -> Msr(IF j.core = -1 THEN n ELSE j.core)
    [] j.program = "rpirtscts" -> GpioRegister(j.rev, IF j.rev = "pi2" THEN "pi2" ELSE "pi")
    [] OTHER -> Lines
Last(j) ==
  CASE j.program \in {"nhm", "core2"} -> IF j.core = -1 THEN LastCore ELSE 0
    [] j.program = "tool" -> MAX_CPUS - 1
    [] j.program = "rpirtscts" -> 0
    [] OTHER -> 1

\* The bits of a job are its own; those of toggle_dtr are the others' of toggle_rts.
Field(j) == IF j.program = "toggle_dtr" THEN "other" ELSE "own"
Bits(j, n) == IF j.program \in Toggles THEN n ELSE IF j.on THEN 1 ELSE 0

\* Mutant: the whole register is written.
WholeRegister(j, n, old) == [own |-> Bits(j, n), other |-> 0]
\* nhm writes the whole register, the others what they read with their bits changed.
NewValue(j, n, old) ==
  IF j.program = "nhm" THEN [own |-> Bits(j, n), other |-> 0]
  ELSE [old EXCEPT ![Field(j)] = Bits(j, n)]
-----------------------------------------------------------------------------
Here(p) == Register(job[p], k[p])
Is(p, label, programs) == pc[p] = label /\ job[p].program \in programs
Goto(p, label) == pc' = [pc EXCEPT ![p] = label]
Exit(p, status) == Goto(p, "exit") /\ exit' = [exit EXCEPT ![p] = status]
Online(p) == Here(p) \in {Msr(c) : c \in cores}

Init ==
  /\ \E pair \in Pairs : job = [p \in Procs |-> pair[p]]
  /\ pc = [p \in Procs |-> IF job[p].program = "none" THEN "exit" ELSE "start"]
  /\ k = [p \in Procs |-> 0] /\ tmp = [p \in Procs |-> [own |-> 0, other |-> 0]]
  /\ exit = [p \in Procs |-> -1] /\ saved = [p \in Procs |-> "old"] /\ termios = "old"
  /\ cores \in CoreSets /\ late = [p \in Procs |-> {}]
  /\ \E v \in 0..1 : reg = [r \in Registers |-> [own |-> v, other |-> 1]]
  /\ wrote = [p \in Procs |-> {}] /\ meant = reg /\ stale = {} /\ raced = {}
  /\ crossed = FALSE /\ kernel = MaxKernel

\* main of the prefetch programs; a bad option or processor ends intel-prefetch-disable.
StartPrefetch(p) ==
  /\ Is(p, "start", Prefetch)
  /\ \/ Goto(p, "open") /\ UNCHANGED exit
     \/ job[p].program \in {"nhm", "core2"} /\ Exit(p, -1)
  /\ UNCHANGED <<job, k, tmp, saved, termios, cores, late, reg, history, crossed, kernel>>

\* On to the next register, or the end of main.
NextVisit(p) ==
  /\ k' = [k EXCEPT ![p] = IF @ = Last(job[p]) THEN @ ELSE @ + 1]
  /\ IF k[p] = Last(job[p]) THEN Exit(p, 0) ELSE Goto(p, "open") /\ UNCHANGED exit

\* Mutant: a core that is not there is passed over.
OpenOrPass(p) ==
  /\ Is(p, "open", {"nhm", "core2"})
  /\ IF Online(p) THEN Goto(p, "read") /\ UNCHANGED <<k, exit>> ELSE NextVisit(p)
  /\ UNCHANGED <<job, tmp, saved, termios, cores, late, reg, history, crossed, kernel>>
\* open_msr: a core that is not there ends the program, with the others as they were.
OpenMsr(p) ==
  /\ Is(p, "open", {"nhm", "core2"})
  /\ \/ Online(p) /\ Goto(p, "read") /\ UNCHANGED exit
     \/ ~Online(p) /\ Exit(p, 2)
     \/ Exit(p, 3) \/ Exit(p, 127)
  /\ UNCHANGED <<job, k, tmp, saved, termios, cores, late, reg, history, crossed, kernel>>

\* The tools of core2-prefetch go on.
OpenCore2(p) ==
  /\ Is(p, "open", {"tool"})
  /\ \/ Online(p) /\ Goto(p, "read") /\ UNCHANGED <<k, exit>>
     \/ ~Online(p) /\ NextVisit(p)
     \/ (Exit(p, 3) \/ Exit(p, 127)) /\ UNCHANGED k
  /\ UNCHANGED <<job, tmp, saved, termios, cores, late, reg, history, crossed, kernel>>

\* The statuses a program ends with whose read or write is refused.
Refused(p) == IF job[p].program = "tool" THEN {4, 127} ELSE {127}

\* The register is read; a core may have gone off line since it was opened.
Reads(p) ==
  /\ tmp' = [tmp EXCEPT ![p] = reg[Here(p)]] /\ Goto(p, "write")
  /\ stale' = stale \ {p} /\ UNCHANGED <<wrote, meant, raced>>

ReadMsr(p) ==
  /\ Is(p, "read", Prefetch)
  /\ \/ Online(p) /\ Reads(p) /\ UNCHANGED exit
     \/ (\E status \in Refused(p) : Exit(p, status)) /\ UNCHANGED <<tmp, history>>
  /\ UNCHANGED <<job, k, saved, termios, cores, late, reg, crossed, kernel>>

Writes(p) ==
  /\ reg' = [reg EXCEPT ![Here(p)] = NewValue(job[p], k[p], tmp[p])]
  /\ wrote' = [wrote EXCEPT ![p] = @ \cup {Here(p)}]
  /\ meant' = [meant EXCEPT ![Here(p)][Field(job[p])] = Bits(job[p], k[p])]
  /\ raced' = IF p \in stale THEN raced \cup {Here(p)} ELSE raced
  /\ stale' = stale \cup {q \in Procs : Here(q) = Here(p) /\ pc[q] = "write" /\ q # p}

\* intel-prefetch-disable writes and reads again to verify; the tools open the core again
\* to write, which like the write may be refused.
WriteMsr(p) ==
  /\ Is(p, "write", Prefetch)
  /\ \/ Online(p) /\ Writes(p)
        /\ IF job[p].program = "tool" THEN NextVisit(p) ELSE Goto(p, "verify") /\ UNCHANGED <<k, exit>>
     \/ /\ \E status \in Refused(p)
                         \cup (IF job[p].program # "tool" THEN {} ELSE IF Online(p) THEN {3} ELSE {2, 3}) :
             Exit(p, status)
        /\ UNCHANGED <<k, reg, history>>
  /\ UNCHANGED <<job, tmp, saved, termios, cores, late, crossed, kernel>>

Verify(p) ==
  /\ pc[p] = "verify"
  /\ \/ Online(p) /\ NextVisit(p)
     \/ Exit(p, 127) /\ UNCHANGED k
  /\ UNCHANGED <<job, tmp, saved, termios, cores, late, reg, history, crossed, kernel>>

-----------------------------------------------------------------------------
\* main of rpirtscts up to the register: a compute module, no memory to map or a bad word end it.
StartPins(p) ==
  /\ Is(p, "start", {"rpirtscts"})
  /\ \/ job[p].rev # "module" /\ Goto(p, "read") /\ UNCHANGED exit
     \/ Exit(p, 1)
     \/ job[p].rev # "module" /\ Exit(p, 0)
  /\ UNCHANGED <<job, k, tmp, saved, termios, cores, late, reg, history, crossed, kernel>>

\* set_rts_cts reads the register (once more after it is printed when disabling)...
ReadPins(p) ==
  /\ Is(p, "read", {"rpirtscts"}) /\ Reads(p)
  /\ UNCHANGED <<job, k, exit, saved, termios, cores, late, reg, crossed, kernel>>

\* ... and writes it with the two pins set to ALT3 or cleared to inputs.
WritePins(p) ==
  /\ Is(p, "write", {"rpirtscts"}) /\ Writes(p) /\ NextVisit(p)
  /\ UNCHANGED <<job, tmp, saved, termios, cores, late, crossed, kernel>>

-----------------------------------------------------------------------------
Holds(p) == job[p].program \in Toggles /\ pc[p] \in {"open", "write", "sleep", "restore"}

\* main of the toggles: open the port, keep its settings, set flow control.
StartLines(p) ==
  /\ Is(p, "start", Toggles)
  /\ \/ /\ Goto(p, "open") /\ saved' = [saved EXCEPT ![p] = termios] /\ termios' = "hardware"
        /\ crossed' = (crossed \/ \E q \in Procs : Holds(q)) /\ UNCHANGED exit
     \/ Exit(p, -1) /\ UNCHANGED <<saved, termios, crossed>>
  /\ UNCHANGED <<job, k, tmp, cores, late, reg, history, kernel>>

\* set_RTS and set_DTR: get the lines, change one, set them all.  Either call may fail and
\* nobody looks at the result.
GetLines(p) ==
  /\ Is(p, "open", Toggles)
  /\ \/ Reads(p)
     \/ Goto(p, "sleep") /\ UNCHANGED <<tmp, history>>
  /\ UNCHANGED <<job, k, exit, saved, termios, cores, late, reg, crossed, kernel>>

SetLines(p) ==
  /\ Is(p, "write", Toggles) /\ Goto(p, "sleep")
  /\ Writes(p) \/ UNCHANGED <<reg, history>>
  /\ UNCHANGED <<job, k, tmp, exit, saved, termios, cores, late, crossed, kernel>>

\* Mutant: a toggle goes on like pulse_rts.
TogglesForEver(p) ==
  /\ Is(p, "sleep", {"toggle_rts", "toggle_dtr"}) /\ Goto(p, "open")
  /\ k' = [k EXCEPT ![p] = 1 - @]
  /\ UNCHANGED <<job, tmp, exit, saved, termios, cores, late, reg, history, crossed, kernel>>
\* Mutant: the settings are not restored.
NoRestore(p) ==
  /\ Is(p, "sleep", {"toggle_rts", "toggle_dtr"})
  /\ NextVisit(p)
  /\ UNCHANGED <<job, tmp, saved, termios, cores, late, reg, history, crossed, kernel>>
\* The toggles clear the line, wait, set it, and restore the settings, and do not look whether
\* that was done.
SleepToggle(p) ==
  /\ Is(p, "sleep", {"toggle_rts", "toggle_dtr"})
  /\ NextVisit(p)
  /\ \/ k[p] = 0 /\ UNCHANGED <<termios, crossed>>
     \/ k[p] = 1 /\ termios' = saved[p] /\ UNCHANGED crossed
     \/ k[p] = 1 /\ crossed' = TRUE /\ UNCHANGED termios
  /\ UNCHANGED <<job, tmp, saved, cores, late, reg, history, kernel>>

\* Mutant: the lines set are counted and not alternated.
PulseCounts(p) ==
  /\ Is(p, "sleep", {"pulse_rts"}) /\ Goto(p, "open")
  /\ k' = [k EXCEPT ![p] = @ + 1]
  /\ UNCHANGED <<job, tmp, exit, saved, termios, cores, late, reg, history, crossed, kernel>>
\* pulse_rts clears and sets it for ever: what comes after its loop is never reached.
SleepPulse(p) ==
  /\ Is(p, "sleep", {"pulse_rts"}) /\ Goto(p, "open")
  /\ k' = [k EXCEPT ![p] = 1 - @]
  /\ UNCHANGED <<job, tmp, exit, saved, termios, cores, late, reg, history, crossed, kernel>>

-----------------------------------------------------------------------------
\* External: ^C, a core that goes off line or comes back, the kernel changing its bits in
\* one write.
Kill(p) ==
  /\ pc[p] # "exit" /\ pc[p] # "killed" /\ Goto(p, "killed")
  /\ crossed' = (crossed \/ Holds(p))
  /\ UNCHANGED <<job, k, tmp, exit, saved, termios, cores, late, reg, history, kernel>>

CoreOff ==
  /\ Cardinality(cores) > 1 /\ \E p \in Procs : job[p].program \in Prefetch  \* others ignore it
  /\ \E c \in cores \ {0} : cores' = cores \ {c}
  /\ UNCHANGED <<job, pc, k, tmp, exit, saved, termios, late, reg, history, crossed, kernel>>

CoreOn ==
  /\ \E p \in Procs : job[p].program \in Prefetch
  /\ \E c \in (0..(LastCore - 1)) \ cores :
       /\ cores' = cores \cup {c}
       /\ late' = [p \in Procs |->
                     IF c < k[p] \/ exit[p] = 0 THEN late[p] \cup {c} ELSE late[p]]
  /\ UNCHANGED <<job, pc, k, tmp, exit, saved, termios, reg, history, crossed, kernel>>

KernelWrites ==
  /\ kernel > 0 /\ kernel' = kernel - 1
  /\ \E r \in {Here(p) : p \in Procs} \ {Lines} : \E v \in 0..1 :
       /\ reg' = [reg EXCEPT ![r].other = v] /\ meant' = [meant EXCEPT ![r].other = v]
       /\ stale' = stale \cup {q \in Procs : Here(q) = r /\ pc[q] = "write"}
  /\ UNCHANGED <<job, pc, k, tmp, exit, saved, termios, cores, late, wrote, raced, crossed>>

Step(p) ==
  \/ StartPrefetch(p) \/ OpenMsr(p) \/ OpenCore2(p) \/ ReadMsr(p) \/ WriteMsr(p) \/ Verify(p)
  \/ StartPins(p) \/ ReadPins(p) \/ WritePins(p)
  \/ StartLines(p) \/ GetLines(p) \/ SetLines(p) \/ SleepToggle(p) \/ SleepPulse(p)

Ended(p) == pc[p] \in {"exit", "killed"}
Done == (\A p \in Procs : Ended(p)) /\ UNCHANGED vars

Next == (\E p \in Procs : Step(p) \/ Kill(p)) \/ CoreOff \/ CoreOn \/ KernelWrites \/ Done

Spec == Init /\ [][Next]_vars
\* Both processes run.
FairSpec == Spec /\ \A p \in Procs : WF_vars(Step(p))
-----------------------------------------------------------------------------
Bit == 0..1
Labels == {"start", "open", "read", "write", "verify", "sleep", "exit", "killed"}

TypeOK ==
  /\ job \in [Procs -> Jobs] /\ pc \in [Procs -> Labels]
  /\ k \in [Procs -> 0..LastCore] /\ tmp \in [Procs -> [own : Bit, other : Bit]]
  /\ exit \in [Procs -> {-1, 0, 1, 2, 3, 4, 127}]
  /\ saved \in [Procs -> {"old", "hardware"}] /\ termios \in {"old", "hardware"}
  /\ cores \subseteq 0..LastCore /\ late \in [Procs -> SUBSET (0..LastCore)]
  /\ reg \in [Registers -> [own : Bit, other : Bit]] /\ meant \in [Registers -> [own : Bit, other : Bit]]
  /\ wrote \in [Procs -> SUBSET Registers] /\ stale \subseteq Procs /\ raced \subseteq Registers
  /\ crossed \in BOOLEAN /\ kernel \in 0..MaxKernel

\* No update is lost: every bit is as its owner wrote it last, unless a program wrote the
\* register after somebody else had since it read it, or it is nhm, which writes the whole
\* register (rpirtscts.c:218-226; intel-prefetch-disable.c:359-373; toggle_rts.c:31-62).
NoUpdateLost ==
  \A r \in Registers :
    r \notin raced /\ (\A p \in Procs : r \in wrote[p] => job[p].program # "nhm") => reg[r] = meant[r]

\* Asked for all cores, intel-prefetch-disable changes them from the first to the one it
\* stops at, and never ends well; a tool of core2-prefetch that ends well has changed
\* every core that is on line of those it knows, but those that came on line when it
\* was past them (intel-prefetch-disable.c:227-265;
\* disable_core2_prefetch.c:20-105).
CoresReached ==
  \A p \in Procs : job[p].program \in Prefetch /\ job[p].core = -1 =>
    IF job[p].program = "tool"
    THEN exit[p] = 0 => {Msr(c) : c \in {d \in cores \ late[p] : d < MAX_CPUS}} \subseteq wrote[p]
    ELSE exit[p] # 0 /\ \A c \in 0..(k[p] - 1) : Msr(c) \in wrote[p]

\* When the toggles have ended the port has the settings it had, if they ran one after
\* the other, nobody killed one and none was refused (toggle_rts.c:96-133).
SettingsRestored == ~crossed /\ (\A p \in Procs : ~Holds(p)) => termios = "old"

\* Every program but pulse_rts ends.
Ends == \A p \in Procs : job[p].program # "pulse_rts" => <>Ended(p)
=============================================================================
