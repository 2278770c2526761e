----------------------------- MODULE PmuOverflow -----------------------------
(***************************************************************************)
(* The Raspberry Pi performance counter module (rasp-pi-pmu.c): hardware   *)
(* counters of one word each, with no overflow interrupt, are read by a    *)
(* timer four times a second and added up in 64-bit totals; the last read, *)
(* when the module is removed, is done in process context with the timer   *)
(* still armed. The code treats its three counters alike and apart: this   *)
(* module follows one of them.                                             *)
(***************************************************************************)
EXTENDS Integers

CONSTANTS
    Word,           \* 2^32: the values the counter takes
    MaxEvents,      \* bound: the events that happen
    TimerInExit     \* TRUE: the timer may expire while rmmod runs the exit

ASSUME WordAssumption == Word \in Nat \ {0, 1}
ASSUME MaxEventsAssumption == MaxEvents \in Nat
ASSUME TimerAssumption == TimerInExit \in BOOLEAN

VARIABLES
    pc,             \* "init", "running", the steps of the exit, "unloaded"
    counting,       \* the control register: the counter counts
    counter,        \* the hardware counter
    armed,          \* overflow_timer is pending
    cycles,         \* the value read last
    old_cycles,     \* the value read before it
    total_cycles,
    overflows,
    reg,            \* the exit's copy of cycles in a register
    sum,            \* the exit's new total, before it is stored
    report,         \* the total printed when the module is removed, or -1
    events,         \* history: the events since the counters were started
    begun           \* history: the events when rmmod began

exitVars == <<reg, sum, report>>
totalVars == <<cycles, old_cycles, total_cycles, overflows>>
hardVars == <<counting, counter, events>>
vars == <<pc, armed, exitVars, totalVars, hardVars, begun>>

\* The steps of rasp_pi_pmu_exit.
Exit == {"read", "add", "store", "keep", "print", "disable", "delete"}

-----------------------------------------------------------------------------
\* The counter holds anything before it is reset.
Init ==
    /\ pc = "init"
    /\ counting \in BOOLEAN
    /\ counter \in 0 .. Word - 1
    /\ armed = FALSE
    /\ cycles = 0
    /\ old_cycles = 0
    /\ total_cycles = 0
    /\ overflows = 0
    /\ reg = 0
    /\ sum = 0
    /\ report = -1
    /\ events = 0
    /\ begun = 0

\* Mutant: the control word lacks its bit 2, which resets the counter.
StartUnreset ==
    /\ pc = "init"
    /\ cycles' = counter
    /\ total_cycles' = 0
    /\ armed' = TRUE
    /\ counting' = TRUE
    /\ pc' = "running"
    /\ UNCHANGED <<counter, events, old_cycles, overflows, exitVars, begun>>

\* rasp_pi_pmu_init: reads, arms the timer, then resets and starts the counters.
\* (The timer's 250 ms are not over before the next instruction.)
Start ==
    /\ pc = "init"
    /\ cycles' = counter
    /\ total_cycles' = 0
    /\ armed' = TRUE
    /\ counting' = TRUE
    /\ counter' = 0
    /\ events' = 0
    /\ pc' = "running"
    /\ UNCHANGED <<old_cycles, overflows, exitVars, begun>>

\* An event is counted. A counter cannot come round within 250 ms: at most
\* Word - 1 events happen between two updates.
Event ==
    /\ counting /\ pc # "init"
    /\ events < MaxEvents
    /\ events - total_cycles < Word - 1 \/ pc \notin {"running", "read"}
    /\ counter' = (counter + 1) % Word
    /\ events' = events + 1
    /\ UNCHANGED <<pc, counting, armed, exitVars, totalVars, begun>>

-----------------------------------------------------------------------------
(* update_counters                                                         *)

\* Mutants: the operands of the second branch the wrong way round; the distance to
\* the top of the word without the step to zero.
AdvanceBackwards(value, old) ==
    IF value < old THEN (Word - 1 - old) + value + 1 ELSE old - value
AdvanceShort(value, old) ==
    IF value < old THEN (Word - 1 - old) + value ELSE value - old

\* What update_counters adds for a value read after an old one: both branches
\* are unsigned arithmetic of one word.
Advance(value, old) ==
    IF value < old THEN (Word - 1 - old) + value + 1 ELSE value - old

\* Mutant: the timer is not armed again.
TimerOnce ==
    /\ armed
    /\ pc = "running" \/ (TimerInExit /\ pc \in Exit)
    /\ armed' = FALSE
    /\ cycles' = counter
    /\ overflows' = overflows + (IF counter < old_cycles THEN 1 ELSE 0)
    /\ total_cycles' = total_cycles + Advance(counter, old_cycles)
    /\ old_cycles' = counter
    /\ UNCHANGED <<pc, exitVars, hardVars, begun>>

\* avoid_overflow, the timer: re-armed, then a whole update. It is an interrupt
\* of the only processor, so no step of the exit comes between its own.
Timer ==
    /\ armed
    /\ pc = "running" \/ (TimerInExit /\ pc \in Exit)
    /\ cycles' = counter
    /\ overflows' = overflows + (IF counter < old_cycles THEN 1 ELSE 0)
    /\ total_cycles' = total_cycles + Advance(counter, old_cycles)
    /\ old_cycles' = counter
    /\ UNCHANGED <<pc, armed, exitVars, hardVars, begun>>

-----------------------------------------------------------------------------
(* rasp_pi_pmu_exit, in process context: an update with steps the timer may *)
(* come between, the report, and only then the end of the timer.            *)

Remove ==
    /\ pc = "running"
    /\ pc' = "read"
    /\ begun' = events
    /\ UNCHANGED <<armed, exitVars, totalVars, hardVars>>

ExitReads ==
    /\ pc = "read"
    /\ cycles' = counter
    /\ reg' = counter
    /\ pc' = "add"
    /\ UNCHANGED <<armed, sum, report, old_cycles, total_cycles, overflows, hardVars, begun>>

\* cycles is a plain static: the compiler may keep the value in a register or
\* load it again, after the timer has changed it.
ExitAdds ==
    /\ pc = "add"
    /\ \E value \in {reg, cycles} :
          /\ sum' = total_cycles + Advance(value, old_cycles)
          /\ overflows' = overflows + (IF value < old_cycles THEN 1 ELSE 0)
    /\ pc' = "store"
    /\ UNCHANGED <<armed, reg, report, cycles, old_cycles, total_cycles, hardVars, begun>>

ExitStores ==
    /\ pc = "store"
    /\ total_cycles' = sum
    /\ pc' = "keep"
    /\ UNCHANGED <<armed, exitVars, cycles, old_cycles, overflows, hardVars, begun>>

ExitKeeps ==
    /\ pc = "keep"
    /\ old_cycles' \in {reg, cycles}
    /\ pc' = "print"
    /\ UNCHANGED <<armed, exitVars, cycles, total_cycles, overflows, hardVars, begun>>

ExitPrints ==
    /\ pc = "print"
    /\ report' = total_cycles
    /\ pc' = "disable"
    /\ UNCHANGED <<armed, reg, sum, totalVars, hardVars, begun>>

ExitDisables ==
    /\ pc = "disable"
    /\ counting' = FALSE
    /\ pc' = "delete"
    /\ UNCHANGED <<armed, counter, events, exitVars, totalVars, begun>>

\* Mutant: the timer is left pending.
ExitForgetsTimer ==
    /\ pc = "delete"
    /\ pc' = "unloaded"
    /\ UNCHANGED <<armed, exitVars, totalVars, hardVars, begun>>

ExitDeletesTimer ==
    /\ pc = "delete"
    /\ armed' = FALSE
    /\ pc' = "unloaded"
    /\ UNCHANGED <<exitVars, totalVars, hardVars, begun>>

Unload ==
    \/ ExitReads \/ ExitAdds \/ ExitStores \/ ExitKeeps \/ ExitPrints
    \/ ExitDisables \/ ExitDeletesTimer

Unloaded == pc = "unloaded" /\ UNCHANGED vars

Next == Start \/ Event \/ Timer \/ Remove \/ Unload \/ Unloaded

SafetySpec == Init /\ [][Next]_vars

\* The kernel runs the timer and goes on with an exit it has begun; nobody has
\* to remove the module.
Spec == SafetySpec /\ WF_vars(Timer) /\ WF_vars(Unload) /\ WF_vars(Start)

-----------------------------------------------------------------------------
(* Properties.                                                             *)

\* Every variable keeps its type.
TypeOK ==
    /\ pc \in {"init", "running", "unloaded"} \union Exit
    /\ counting \in BOOLEAN
    /\ counter \in 0 .. Word - 1
    /\ armed \in BOOLEAN
    /\ cycles \in 0 .. Word - 1
    /\ old_cycles \in 0 .. Word - 1
    /\ total_cycles \in Nat
    /\ overflows \in Nat
    /\ reg \in 0 .. Word - 1
    /\ sum \in Nat
    /\ report \in Nat \union {-1}
    /\ events \in Nat
    /\ begun \in Nat

\* The total is the count the counter had at the last update, however often the
\* counter came round, and the number of times it did.
TotalIsExact ==
    pc = "running" =>
        /\ total_cycles = events - ((counter - old_cycles) % Word)
        /\ overflows = total_cycles \div Word

\* What the module reports is the number of events at some moment of the rmmod
\* (rasp-pi-pmu/README:23: "in the system log (visible to dmesg) you will see
\* your event counts").
ReportIsTheCount == report >= 0 => begun <= report /\ report <= events

\* A module that is gone has no timer pending: it would run freed code.
NoTimerOutlivesModule == pc = "unloaded" => ~armed /\ ~counting

\* While the module counts, every event is in the total in the end.
CatchesUp ==
    \A n \in 1 .. MaxEvents :
        events = n ~> (total_cycles >= n \/ pc # "running")
=============================================================================
