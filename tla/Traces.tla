------------------------------- MODULE Traces -------------------------------
(***************************************************************************)
(* What is done with a capture of daqflex: debounce_serial, which repairs    *)
(* the serial port's line, alone or in a pipe, and the dumps behind it;      *)
(* dump_watts_ddr3 and dump_watts_ddr4 find the traces between two pulses of *)
(* that line and add up their energy.  A capture may be whole, cut where     *)
(* daqflex was killed or had not written more yet, or have no header.        *)
(***************************************************************************)
EXTENDS Integers, Sequences, FiniteSets

CONSTANTS
  Tools,      \* tools run, a subset of {"binary", "watts", "ddr3", "ddr4"}
  Rates,      \* samples a second there may be
  MaxLines,   \* bound: lines of a capture
  MaxLag,     \* bound: lines waiting in the pipe
  Levels      \* the levels the n-th line may have

\* The serial line: 2 and -2 are past 4.0 and -4.0, 1 and -1 between them and 0.
Level == -2..2

ASSUME TracesAssumption ==
  /\ Tools \subseteq {"binary", "watts", "ddr3", "ddr4"}
  /\ Rates \subseteq Nat /\ MaxLines \in Nat /\ MaxLag \in Nat \ {0}
  /\ Levels \in [1..MaxLines -> SUBSET Level]

VARIABLES
  filter, tool,                    \* whether debounce_serial is in front, and of what
  header, rate,                    \* whether what is read has a header, and its rate
  p, q,                            \* where debounce_serial and the tool are
  last, prev,                      \* of debounce_serial
  state, time_in_state, ticks,     \* of the tool
  trace, trace_ticks, total_time,
  trace_joules, total_joules,      \* how many times they hold the energy of each line
  raw, out,                        \* history: lines of the capture; and of the pipe
  starts, ends                     \* history: lines at which traces start and end

debounce == <<p, last, prev, out>>
traces == <<state, time_in_state, trace, trace_ticks, total_time, trace_joules, total_joules,
            starts, ends>>
vars == <<filter, tool, header, rate, debounce, q, ticks, traces, raw>>

threshold == IF rate \div 500 < 1 THEN 1 ELSE rate \div 500

NoEnergy == [n \in 1..(MaxLines + 1) |-> 0]

Init ==
  /\ filter \in BOOLEAN /\ tool \in Tools
  /\ header \in BOOLEAN /\ rate \in Rates
  /\ filter => tool # "ddr4"       \* its eight channels do not fit in debounce_serial's four
  /\ p = IF filter THEN "header" ELSE "off"
  /\ last = <<-2, -2>> /\ prev = 0
  /\ q = "header" /\ state = "NONE" /\ time_in_state = 0 /\ ticks = 0
  /\ trace = 0 /\ trace_ticks = 0 /\ total_time = 0 /\ trace_joules = NoEnergy /\ total_joules = NoEnergy
  /\ raw = <<>> /\ out = <<>> /\ starts = <<>> /\ ends = <<>>

\* A line of the capture is read.
Captured(v) ==
  header /\ Len(raw) < MaxLines /\ v \in Levels[Len(raw) + 1] /\ raw' = Append(raw, v)

\* The header is read; without one the channels are whatever memory held, and with none
\* of them the loop never ends.
AfterHeader == IF header THEN {"loop"} ELSE {"loop", "spins"}

ReadHeader ==
  /\ p = "header" /\ p' \in AfterHeader
  /\ UNCHANGED <<filter, tool, header, rate, last, prev, out, q, ticks, traces, raw>>

-----------------------------------------------------------------------------
\* The line before v as it is written: turned round if its sign is neither the one's before
\* it nor that of v.
Glitch1(v) == last[1] < 0 /\ last[2] > 0 /\ v < 0
Glitch2(v) == last[1] > 0 /\ last[2] < 0 /\ v > 0
Repair(v) == IF Glitch1(v) \/ Glitch2(v) THEN -prev ELSE prev

\* Mutant: what is repaired is remembered so.
RemembersRepaired(v) ==
  /\ p = "loop" /\ Len(out) < ticks + MaxLag /\ Captured(v)
  /\ out' = IF raw # <<>> THEN Append(out, Repair(v)) ELSE out
  /\ prev' = v /\ last' = <<Repair(v), v>>
  /\ UNCHANGED <<filter, tool, header, rate, p, q, ticks, traces>>
\* Mutant: only the line before the last is looked at.
ForgetsFirst(v) ==
  /\ p = "loop" /\ Len(out) < ticks + MaxLag /\ Captured(v)
  /\ out' = IF raw # <<>> THEN Append(out, Repair(v)) ELSE out
  /\ prev' = v /\ last' = <<last[2], last[2]>>
  /\ UNCHANGED <<filter, tool, header, rate, p, q, ticks, traces>>
DebounceLine(v) ==
  /\ p = "loop" /\ Len(out) < ticks + MaxLag /\ Captured(v)
  /\ out' = IF raw # <<>> THEN Append(out, Repair(v)) ELSE out
  /\ prev' = v /\ last' = <<last[2], v>>
  /\ UNCHANGED <<filter, tool, header, rate, p, q, ticks, traces>>

\* The mark at the end, or a line that is not whole: what was kept is written (whatever
\* memory held, if no line was read), and a mark.
DebounceEnds ==
  /\ p = "loop" /\ p' = "ended"
  /\ \E v \in IF raw = <<>> THEN Level ELSE {prev} : out' = Append(out, v)
  /\ UNCHANGED <<filter, tool, header, rate, last, prev, q, ticks, traces, raw>>

\* It is killed: the pipe ends without a mark, and perhaps a header (external).
Kill ==
  /\ p \in {"header", "loop", "spins"} /\ p' = "killed"
  /\ header' = (header /\ p # "header")
  /\ UNCHANGED <<filter, tool, rate, last, prev, out, q, ticks, traces, raw>>

-----------------------------------------------------------------------------
\* The tool, at the capture or behind the pipe.
ReadToolHeader ==
  /\ q = "header" /\ p # "header"
  /\ q' \in IF p = "spins" THEN {"spins"} ELSE IF p \in {"loop", "ended"} THEN {"loop"} ELSE AfterHeader
  /\ UNCHANGED <<filter, tool, header, rate, debounce, ticks, traces, raw>>

Taken(v) ==
  /\ q = "loop" /\ ticks' = ticks + 1
  /\ IF filter THEN ticks < Len(out) /\ v = out[ticks + 1] /\ UNCHANGED raw ELSE Captured(v)

\* dump_binary and dump_watts print each line.
DumpLine(v) ==
  /\ tool = "binary" /\ Taken(v)
  /\ UNCHANGED <<filter, tool, header, rate, debounce, q, traces>>
WattsLine(v) ==
  /\ tool = "watts" /\ Taken(v)
  /\ UNCHANGED <<filter, tool, header, rate, debounce, q, traces>>

\* Mutant: the threshold is long enough.
HeldAtThreshold == time_in_state + 1 >= threshold
\* One more line above the level is more than the threshold.
Held == time_in_state + 1 > threshold

\* Each line in a trace is added to it, the one it starts at too.
AddsLine(joules, n) == trace_joules' = [joules EXCEPT ![ticks'] = @ + 1] /\ trace_ticks' = n + 1

\* Mutant: the time is not reset.
StartUnreset(v) ==
  /\ state = "NONE"
  /\ IF v > 1 /\ Held THEN state' = "DTR_START" ELSE UNCHANGED state
  /\ time_in_state' = IF v > 1 THEN time_in_state + 1 ELSE time_in_state
  /\ UNCHANGED <<trace, trace_ticks, trace_joules, total_time, total_joules, starts, ends>>
\* Lines above the level add up to the pulse before a trace: one below does not reset them.
StartPulse(v) ==
  /\ state = "NONE"
  /\ IF v > 1 /\ Held THEN state' = "DTR_START" ELSE UNCHANGED state
  /\ time_in_state' = IF v <= 1 THEN time_in_state ELSE IF Held THEN 0 ELSE time_in_state + 1
  /\ UNCHANGED <<trace, trace_ticks, trace_joules, total_time, total_joules, starts, ends>>

\* Mutant: a trace starts with the energy of the one before.
StartsWithLast(v) ==
  /\ state = "DTR_START"
  /\ IF v < -1
     THEN /\ state' = "IN_TRACE" /\ AddsLine(trace_joules, 0) /\ time_in_state' = 0
          /\ starts' = Append(starts, ticks')
     ELSE UNCHANGED <<state, trace_ticks, trace_joules, time_in_state, starts>>
  /\ UNCHANGED <<trace, total_time, total_joules, ends>>
\* It falls: a trace starts.
StartTrace(v) ==
  /\ state = "DTR_START"
  /\ IF v < -1
     THEN /\ state' = "IN_TRACE" /\ AddsLine(NoEnergy, 0) /\ time_in_state' = 0
          /\ starts' = Append(starts, ticks')
     ELSE UNCHANGED <<state, trace_ticks, trace_joules, time_in_state, starts>>
  /\ UNCHANGED <<trace, total_time, total_joules, ends>>

\* In a trace: the pulse at its end ends it, with the energy it had before this line.
EndPulse(v) ==
  /\ state = "IN_TRACE"
  /\ IF v > 1 /\ Held
     THEN /\ state' = "DTR_STOP" /\ time_in_state' = 0
          /\ total_joules' = [n \in DOMAIN NoEnergy |-> total_joules[n] + trace_joules[n]]
          /\ total_time' = total_time + trace_ticks /\ trace' = trace + 1
          /\ ends' = Append(ends, ticks') /\ UNCHANGED <<trace_ticks, trace_joules>>
     ELSE /\ time_in_state' = IF v > 1 THEN time_in_state + 1 ELSE time_in_state
          /\ AddsLine(trace_joules, trace_ticks)
          /\ UNCHANGED <<state, total_joules, total_time, trace, ends>>
  /\ UNCHANGED starts

StopFalls(v) ==
  /\ state = "DTR_STOP"
  /\ IF v < -1 THEN state' = "NONE" /\ time_in_state' = 0 ELSE UNCHANGED <<state, time_in_state>>
  /\ UNCHANGED <<trace, trace_ticks, trace_joules, total_time, total_joules, starts, ends>>

\* A line of dump_watts_ddr3 and dump_watts_ddr4, which differ in the channel.
TraceLine(v) ==
  /\ tool \in {"ddr3", "ddr4"} /\ Taken(v)
  /\ StartPulse(v) \/ StartTrace(v) \/ EndPulse(v) \/ StopFalls(v)
  /\ UNCHANGED <<filter, tool, header, rate, debounce, q>>

\* Mutant: only the mark ends it.
ToolEndsAtMark ==
  /\ q = "loop" /\ q' = "ended" /\ filter /\ p = "ended" /\ ticks = Len(out)
  /\ UNCHANGED <<filter, tool, header, rate, debounce, ticks, traces, raw>>
\* The mark or a line that is not whole; a pipe has one when debounce_serial is gone.
ToolEnds ==
  /\ q = "loop" /\ q' = "ended"
  /\ filter => p \in {"ended", "killed"} /\ ticks = Len(out)
  /\ UNCHANGED <<filter, tool, header, rate, debounce, ticks, traces, raw>>

Debounce == ReadHeader \/ (\E v \in Level : DebounceLine(v)) \/ DebounceEnds
Tool ==
  \/ ReadToolHeader \/ ToolEnds
  \/ \E v \in Level : DumpLine(v) \/ WattsLine(v) \/ TraceLine(v)

Done == p \notin {"header", "loop"} /\ q \notin {"header", "loop"} /\ UNCHANGED vars

Next == Debounce \/ Kill \/ Tool \/ Done

Spec == Init /\ [][Next]_vars
\* Both run.
FairSpec == Spec /\ WF_vars(Debounce) /\ WF_vars(Tool)
-----------------------------------------------------------------------------
Lines == IF filter THEN out ELSE raw

TypeOK ==
  /\ filter \in BOOLEAN /\ tool \in Tools /\ header \in BOOLEAN /\ rate \in Rates
  /\ p \in {"off", "header", "loop", "ended", "spins", "killed"}
  /\ q \in {"header", "loop", "ended", "spins"}
  /\ last \in Level \X Level /\ prev \in Level
  /\ state \in {"NONE", "DTR_START", "IN_TRACE", "DTR_STOP"}
  /\ time_in_state \in 0..threshold /\ ticks \in 0..(MaxLines + 1)
  /\ raw \in Seq(Level) /\ out \in Seq(Level)
  /\ trace \in Nat /\ trace_ticks \in 0..ticks /\ total_time \in 0..ticks
  /\ {trace_joules, total_joules} \subseteq [1..(MaxLines + 1) -> Nat]
  /\ starts \in Seq(1..ticks) /\ ends \in Seq(1..ticks)

Opposite(a, b) == (a < 0 /\ b > 0) \/ (a > 0 /\ b < 0)
\* A line whose sign is that of neither neighbour; before the first the line is down.
Lone(n) ==
  /\ n < Len(raw) /\ Opposite(raw[n], raw[n + 1])
  /\ Opposite(raw[n], IF n = 1 THEN -2 ELSE raw[n - 1])

\* debounce_serial writes every line once, in order and one line late, turned round if
\* and only if it is alone; a capture without a line becomes one with a line
\* (debounce_serial.c:85-106).
Debounced ==
  filter /\ raw # <<>> =>
    /\ \A n \in 1..Len(out) : out[n] = IF Lone(n) THEN -raw[n] ELSE raw[n]
    /\ Len(out) = IF p = "ended" THEN Len(raw) ELSE Len(raw) - 1

\* The totals hold the lines of every trace that ended, each once and none of a trace
\* that did not end (dump_watts_ddr4.c:96-161).
TracesAreWhole ==
  LET whole == UNION {starts[k]..(ends[k] - 1) : k \in 1..Len(ends)}
  IN  /\ total_joules = [n \in DOMAIN NoEnergy |-> IF n \in whole THEN 1 ELSE 0]
      /\ total_time = Cardinality(whole) /\ trace = Len(ends)
      /\ Len(starts) \in {Len(ends), Len(ends) + 1}

High(from, to) == {n \in from..to : Lines[n] > 1}
\* Before a trace the line was up for more than the threshold since the one before it
\* ended, and in it for the threshold and at its end (dump_watts_ddr4.c:86-131).
PulsesAreLong ==
  \A k \in 1..Len(starts) :
    /\ Cardinality(High(IF k = 1 THEN 1 ELSE ends[k - 1] + 1, starts[k] - 1)) > threshold
    /\ Lines[starts[k]] < -1
    /\ k <= Len(ends) =>
         Cardinality(High(starts[k], ends[k])) = threshold + 1 /\ Lines[ends[k]] > 1

\* A port that only bounces, each time for a line with two of the other sign on both
\* sides, starts no trace behind debounce_serial.
BouncesStartNothing ==
  filter /\ (\A n \in 1..Len(raw) : raw[n] > 0 =>
               \A k \in (n - 2)..(n + 2) : k \in 1..Len(raw) /\ k # n => raw[k] < 0)
    /\ raw # <<>> => starts = <<>>

\* With a header both programs end, wherever the capture does, also when the first is
\* killed; without one they need not (dump_watts_ddr4.c:64-84).
Ends == <>(~header \/ (p \in {"off", "ended", "killed"} /\ q = "ended"))
=============================================================================
