---------------------------- MODULE TracesProofs ----------------------------
(***************************************************************************)
(* Theorems about Traces: what debounce_serial writes and what the tools   *)
(* make of it, for captures of any length, at any rate, with any levels.   *)
(***************************************************************************)
EXTENDS Traces, FiniteSetTheorems, TLAPS

LEMMA AppendIs ==
  ASSUME NEW S, NEW s \in Seq(S), NEW x \in S, NEW t, t = Append(s, x)
  PROVE  /\ t \in Seq(S) /\ t # <<>> /\ Len(t) = Len(s) + 1 /\ Len(s) \in Nat
         /\ t[Len(s) + 1] = x
         /\ \A n \in 1..Len(s) : t[n] = s[n]
  OBVIOUS

-----------------------------------------------------------------------------
(* debounce_serial.                                                        *)

Chain ==
  /\ filter \in BOOLEAN /\ tool \in Tools /\ header \in BOOLEAN /\ rate \in Rates
  /\ p \in {"off", "header", "loop", "ended", "spins", "killed"}
  /\ q \in {"header", "loop", "ended", "spins"}
  /\ last \in Level \X Level /\ prev \in Level
  /\ raw \in Seq(Level) /\ out \in Seq(Level) /\ ticks \in Nat

\* Where the two programs are in what is read.
Shape ==
  /\ filter <=> p # "off"
  /\ p \in {"header", "spins"} => raw = <<>>
  /\ Len(raw) =< MaxLines
  /\ ticks =< Len(Lines) /\ (~filter => ticks = Len(raw))

\* What debounce_serial remembers: the line it has not written, and the one before.
Remembered ==
  filter =>
    IF raw = <<>>
    THEN last = <<-2, -2>> /\ Len(out) = (IF p = "ended" THEN 1 ELSE 0)
    ELSE /\ prev = raw[Len(raw)] /\ last[2] = prev
         /\ last[1] = IF Len(raw) = 1 THEN -2 ELSE raw[Len(raw) - 1]

Filtered == Chain /\ Shape /\ Remembered /\ Debounced

LEMMA FilteredInit == Init => Filtered
  BY TracesAssumption DEF Init, Filtered, Chain, Shape, Remembered, Debounced, Level, Lines

LEMMA LineIsDebounced ==
  ASSUME Filtered, NEW v \in Level, DebounceLine(v)
  PROVE  Filtered'
<1> DEFINE N == Len(raw)
<1>1. /\ p = "loop" /\ raw' = Append(raw, v) /\ N < MaxLines /\ prev' = v /\ last' = <<last[2], v>>
      /\ out' = IF raw # <<>> THEN Append(out, Repair(v)) ELSE out
      /\ UNCHANGED <<filter, tool, header, rate, p, q, ticks>>
  BY DEF DebounceLine, Captured
<1>2. filter /\ N \in Nat /\ raw \in Seq(Level) /\ out \in Seq(Level) /\ (raw = <<>> <=> N = 0)
  BY <1>1 DEF Filtered, Chain, Shape
<1>3. /\ raw' \in Seq(Level) /\ raw' # <<>> /\ Len(raw') = N + 1
      /\ raw'[N + 1] = v /\ \A n \in 1..N : raw'[n] = raw[n]
  BY <1>1, <1>2, AppendIs
<1>4. prev \in Level /\ last \in Level \X Level /\ Repair(v) \in Level
  BY DEF Filtered, Chain, Repair, Level
<1>5. /\ out' \in Seq(Level) /\ Len(out) \in Nat /\ \A n \in 1..Len(out) : out'[n] = out[n]
      /\ raw = <<>> => out' = out
      /\ raw # <<>> => Len(out') = Len(out) + 1 /\ out'[Len(out) + 1] = Repair(v)
  BY <1>1, <1>2, <1>4, AppendIs
<1>6. Len(out) = IF raw = <<>> THEN 0 ELSE N - 1
  BY <1>1, <1>2 DEF Filtered, Remembered, Debounced
<1> HIDE DEF N
<1>7. Len(out') = N
  BY <1>2, <1>5, <1>6
<1>8. Chain' /\ Shape'
  BY <1>1, <1>2, <1>3, <1>4, <1>5, <1>6, <1>7, TracesAssumption DEF Filtered, Chain, Shape, Lines, N
<1>9. Remembered'
  <2>1. prev' = v /\ last'[2] = v /\ last'[1] = last[2]
    BY <1>1
  <2>2. last[2] = IF N = 0 THEN -2 ELSE raw[N]
    BY <1>2 DEF Filtered, Remembered, N
  <2>3. N # 0 => raw'[N] = raw[N] /\ (N + 1) - 1 = N /\ N + 1 # 1
    BY <1>2, <1>3
  <2> QED BY <1>2, <1>3, <2>1, <2>2, <2>3 DEF Remembered
<1>10. Debounced'
  <2>1. ASSUME NEW n \in 1..N PROVE out'[n] = IF Lone(n)' THEN -raw'[n] ELSE raw'[n]
    <3>1. CASE n < N
      <4>1. n \in 1..Len(out) /\ raw # <<>> /\ out[n] = IF Lone(n) THEN -raw[n] ELSE raw[n]
        BY <1>2, <1>6, <2>1, <3>1 DEF Filtered, Debounced
      <4>2. raw'[n] = raw[n] /\ raw'[n + 1] = raw[n + 1] /\ (n # 1 => raw'[n - 1] = raw[n - 1])
        BY <1>2, <1>3, <2>1, <3>1
      <4>3. Lone(n)' <=> Lone(n)
        <5>1. n < Len(raw) /\ n < Len(raw')
          BY <1>2, <1>3, <2>1, <3>1 DEF N
        <5>2. Opposite(raw'[n], raw'[n + 1]) <=> Opposite(raw[n], raw[n + 1])
          BY <4>2
        <5>3. Opposite(raw'[n], IF n = 1 THEN -2 ELSE raw'[n - 1])
                <=> Opposite(raw[n], IF n = 1 THEN -2 ELSE raw[n - 1])
          BY <4>2
        <5> QED BY <5>1, <5>2, <5>3 DEF Lone
      <4> QED BY <1>5, <4>1, <4>2, <4>3
    <3>2. CASE n = N
      <4>1. raw # <<>> /\ out'[N] = Repair(v) /\ raw'[N] = raw[N] /\ raw'[N + 1] = v
        BY <1>2, <1>3, <1>5, <1>6, <2>1, <3>2
      <4>2. prev = raw[N] /\ last[2] = raw[N] /\ last[1] = IF N = 1 THEN -2 ELSE raw'[N - 1]
        <5>1. prev = raw[N] /\ last[2] = prev /\ last[1] = IF N = 1 THEN -2 ELSE raw[N - 1]
          BY <1>2, <4>1, Zenon DEF Filtered, Remembered, N
        <5>2. N # 1 => N - 1 \in 1..N
          BY <1>2, <2>1, <3>2
        <5>3. N # 1 => raw'[N - 1] = raw[N - 1]
          BY <1>3, <5>2
        <5> HIDE DEF N
        <5> QED BY <5>1, <5>3
      <4>3. Lone(n)' <=> Opposite(raw[N], v) /\ Opposite(raw[N], last[1])
        BY <1>2, <1>3, <3>2, <4>1, <4>2 DEF Lone
      <4>4. raw[N] \in Int /\ v \in Int /\ last[1] \in Int
        BY <1>4, <4>2 DEF Level
      <4>5. Lone(n)' <=> Glitch1(v) \/ Glitch2(v)
        BY <4>2, <4>3, <4>4 DEF Glitch1, Glitch2, Opposite
      <4> QED BY <3>2, <4>1, <4>2, <4>5 DEF Repair
    <3> QED BY <1>2, <2>1, <3>1, <3>2
  <2>2. Len(raw') - 1 = N
    BY <1>2, <1>3
  <2> QED BY <1>1, <1>7, <2>1, <2>2 DEF Debounced
<1> QED BY <1>8, <1>9, <1>10 DEF Filtered

LEMMA EndIsDebounced ==
  ASSUME Filtered, DebounceEnds
  PROVE  Filtered'
<1>1. PICK w \in Level : (raw # <<>> => w = prev) /\ out' = Append(out, w)
  BY DEF DebounceEnds, Filtered, Chain
<1>2. /\ p = "loop" /\ p' = "ended" /\ filter /\ raw \in Seq(Level) /\ out \in Seq(Level)
      /\ UNCHANGED <<filter, tool, header, rate, last, prev, q, ticks, raw>>
  BY DEF DebounceEnds, Filtered, Chain, Shape
<1>3. /\ out' \in Seq(Level) /\ Len(out') = Len(out) + 1 /\ out'[Len(out) + 1] = w
      /\ Len(out) \in Nat /\ \A n \in 1..Len(out) : out'[n] = out[n]
  BY <1>1, <1>2, AppendIs
<1>4. Len(out) = IF raw = <<>> THEN 0 ELSE Len(raw) - 1
  BY <1>2 DEF Filtered, Remembered, Debounced
<1>5. Chain' /\ Shape' /\ Remembered'
  BY <1>2, <1>3, <1>4 DEF Filtered, Chain, Shape, Remembered, Lines
<1>6. Debounced'
  <2> SUFFICES ASSUME raw # <<>>
               PROVE  /\ \A n \in 1..Len(out') : out'[n] = IF Lone(n)' THEN -raw[n] ELSE raw[n]
                      /\ Len(out') = Len(raw)
    BY <1>2 DEF Debounced
  <2>1. Len(raw) \in Nat /\ Len(out') = Len(raw) /\ Len(out) = Len(raw) - 1 /\ w = raw[Len(raw)]
    BY <1>1, <1>2, <1>3, <1>4 DEF Filtered, Remembered
  <2>2. \A n \in 1..Len(raw) : (Lone(n)' <=> Lone(n)) /\ (n = Len(raw) => ~Lone(n))
    BY <1>2, <2>1 DEF Lone
  <2>3. \A n \in 1..Len(out) : out[n] = IF Lone(n) THEN -raw[n] ELSE raw[n]
    BY <1>2 DEF Filtered, Debounced
  <2> QED BY <1>3, <2>1, <2>2, <2>3
<1> QED BY <1>5, <1>6 DEF Filtered

\* Whoever reads a line has it, and the lines before stay what they were.
Grown ==
  /\ Len(Lines) =< Len(Lines')
  /\ \A n \in 1..Len(Lines) : Lines'[n] = Lines[n]

LEMMA TakenIs ==
  ASSUME Filtered, NEW v \in Level, Taken(v), UNCHANGED <<filter, tool, header, rate, debounce, q>>
  PROVE  /\ Filtered' /\ Grown /\ ticks' = ticks + 1
         /\ ticks' =< Len(Lines') /\ Lines'[ticks'] = v
<1>1. ticks' = ticks + 1 /\ ticks \in Nat /\ raw \in Seq(Level) /\ out \in Seq(Level)
  BY DEF Taken, Filtered, Chain
<1>2. CASE filter
  <2>1. ticks < Len(out) /\ v = out[ticks + 1] /\ UNCHANGED <<raw, out>>
    BY <1>2 DEF Taken, debounce
  <2>2. Lines = out /\ Lines' = out
    BY <1>2, <2>1 DEF Lines
  <2>3. Filtered'
    BY <1>1, <1>2, <2>1, <2>2
       DEF Filtered, Chain, Shape, Remembered, Debounced, Lone, debounce
  <2> QED BY <1>1, <2>1, <2>2, <2>3 DEF Grown
<1>3. CASE ~filter
  <2>1. raw' = Append(raw, v) /\ Len(raw) < MaxLines /\ UNCHANGED out /\ filter' = filter
    BY <1>3 DEF Taken, Captured, debounce
  <2>2. Lines = raw /\ Lines' = raw'
    BY <1>3, <2>1 DEF Lines
  <2>3. /\ raw' \in Seq(Level) /\ Len(raw') = Len(raw) + 1 /\ Len(raw) \in Nat
        /\ raw'[Len(raw) + 1] = v /\ \A n \in 1..Len(raw) : raw'[n] = raw[n]
    BY <1>1, <2>1, AppendIs
  <2>4. ticks = Len(raw) /\ p = "off"
    BY <1>3 DEF Filtered, Chain, Shape
  <2>5. Chain' /\ Shape'
    BY <1>1, <1>3, <2>1, <2>2, <2>3, <2>4, TracesAssumption DEF Filtered, Chain, Shape, debounce
  <2>6. Remembered' /\ Debounced'
    BY <1>3, <2>1 DEF Remembered, Debounced
  <2> QED BY <1>1, <2>2, <2>3, <2>4, <2>5, <2>6 DEF Grown, Filtered
<1> QED BY <1>2, <1>3 DEF Filtered, Chain

\* The steps before the tool's: debounce_serial's.
Before == ReadHeader \/ (\E v \in Level : DebounceLine(v)) \/ DebounceEnds \/ Kill
\* A line of the tool's.
Reads(v) ==
  /\ Taken(v) /\ UNCHANGED <<filter, tool, header, rate, debounce, q>>
  /\ \/ UNCHANGED traces /\ tool \in {"binary", "watts"}
     \/ (StartPulse(v) \/ StartTrace(v) \/ EndPulse(v) \/ StopFalls(v)) /\ tool \in {"ddr3", "ddr4"}
\* Neither line nor pulse.
Idle == UNCHANGED <<filter, tool, header, rate, debounce, ticks, traces, raw>>
        /\ q' \in {"header", "loop", "ended", "spins"}

LEMMA NextIs == Chain /\ [Next]_vars => Before \/ (\E v \in Level : Reads(v)) \/ Idle
<1> SUFFICES ASSUME Chain, [Next]_vars PROVE Before \/ (\E v \in Level : Reads(v)) \/ Idle
  OBVIOUS
<1>1. CASE Debounce \/ Kill
  BY <1>1 DEF Debounce, Before
<1>2. CASE ReadToolHeader
  BY <1>2 DEF ReadToolHeader, AfterHeader, Idle
<1>3. CASE ToolEnds
  BY <1>3 DEF ToolEnds, Idle
<1>4. ASSUME NEW v \in Level, DumpLine(v) \/ WattsLine(v) \/ TraceLine(v) PROVE Reads(v)
  BY <1>4 DEF DumpLine, WattsLine, TraceLine, Reads
<1>5. CASE UNCHANGED vars
  BY <1>5 DEF vars, Idle, Chain
<1> QED BY <1>1, <1>2, <1>3, <1>4, <1>5 DEF Next, Tool, Done

LEMMA BeforeIs ==
  ASSUME Filtered, Before
  PROVE  Filtered' /\ Grown /\ UNCHANGED <<filter, tool, rate, q, ticks, traces>>
<1>1. UNCHANGED <<filter, tool, rate, q, ticks, traces>>
  BY DEF Before, ReadHeader, DebounceLine, DebounceEnds, Kill
<1>2. filter /\ Lines = out /\ Lines' = out' /\ out \in Seq(Level)
  BY <1>1 DEF Before, ReadHeader, DebounceLine, DebounceEnds, Kill, Filtered, Shape, Chain, Lines
<1>3. CASE ReadHeader \/ Kill
  <2>1. /\ UNCHANGED <<rate, last, prev, out, raw>> /\ p \in {"header", "loop", "spins"}
        /\ p' \in {"loop", "spins", "killed"} /\ (p = "loop" => p' = "killed")
        /\ header' \in BOOLEAN
    BY <1>3, Zenon DEF ReadHeader, Kill, AfterHeader, Filtered, Chain
  <2>2. Lone(1)' <=> Lone(1)
    BY <2>1 DEF Lone
  <2> QED
    BY <1>1, <1>2, <2>1 DEF Filtered, Chain, Shape, Remembered, Debounced, Lone, Lines, Grown
<1>4. ASSUME NEW v \in Level, DebounceLine(v) PROVE Filtered' /\ Grown
  <2>1. out' = out \/ out' = Append(out, Repair(v))
    BY <1>4 DEF DebounceLine
  <2>2. Repair(v) \in Level
    BY <1>4 DEF Repair, Level, Filtered, Chain
  <2>3. out' = out \/ (Len(out') = Len(out) + 1 /\ Len(out) \in Nat
                       /\ \A n \in 1..Len(out) : out'[n] = out[n])
    BY <1>2, <2>1, <2>2, AppendIs
  <2> QED BY <1>2, <1>4, <2>3, LineIsDebounced DEF Grown
<1>5. CASE DebounceEnds
  <2>1. PICK w \in Level : out' = Append(out, w)
    BY <1>5 DEF DebounceEnds, Filtered, Chain
  <2>2. Len(out') = Len(out) + 1 /\ Len(out) \in Nat /\ \A n \in 1..Len(out) : out'[n] = out[n]
    BY <1>2, <2>1, AppendIs
  <2> QED BY <1>1, <1>2, <1>5, <2>2, EndIsDebounced DEF Grown
<1> QED BY <1>1, <1>3, <1>4, <1>5 DEF Before

LEMMA IdleIs ==
  ASSUME Filtered, Idle
  PROVE  Filtered' /\ Lines' = Lines
  BY DEF Idle, debounce, Filtered, Chain, Shape, Remembered, Debounced, Lone, Lines

LEMMA FilteredNext == Filtered /\ [Next]_vars => Filtered'
  BY NextIs, BeforeIs, TakenIs, IdleIs DEF Filtered, Reads

\* debounce_serial writes every line once, in order and one line late, turned round if and only
\* if it is alone (debounce_serial.c:85-106).
THEOREM LinesAreDebounced == Spec => []Debounced
<1>1. Filtered => Debounced
  BY DEF Filtered
<1> QED BY <1>1, FilteredInit, FilteredNext, PTL DEF Spec

-----------------------------------------------------------------------------
(* The lines above the level, counted.                                     *)

LEMMA ThresholdIs == rate \in Nat => threshold \in Nat \ {0}
  BY DEF threshold

LEMMA HighIsFinite ==
  ASSUME NEW a \in Int, NEW b \in Int
  PROVE  IsFiniteSet(High(a, b)) /\ Cardinality(High(a, b)) \in Nat
<1>1. High(a, b) \subseteq a..b /\ IsFiniteSet(a..b)
  BY FS_Interval DEF High
<1>2. IsFiniteSet(High(a, b))
  BY <1>1, FS_Subset
<1> QED BY <1>2, FS_CardinalityType

\* Lines that have been read are counted once and for all...
LEMMA HighIsKept ==
  ASSUME Filtered, Grown, NEW a \in Nat \ {0}, NEW b \in Int, b =< ticks
  PROVE  {n \in a..b : Lines'[n] > 1} = High(a, b)
<1>1. \A n \in a..b : n \in 1..Len(Lines)
  BY DEF Filtered, Chain, Shape, Lines
<1> QED BY <1>1 DEF High, Grown

\* ... and the next one if it is up.
LEMMA HighOfNext ==
  ASSUME Filtered, Grown, NEW v \in Level, NEW a \in 1..(ticks + 1), Lines'[ticks + 1] = v
  PROVE  Cardinality({n \in a..(ticks + 1) : Lines'[n] > 1}) =
           IF v > 1 THEN Cardinality(High(a, ticks)) + 1 ELSE Cardinality(High(a, ticks))
<1> DEFINE S == {n \in a..(ticks + 1) : Lines'[n] > 1}
<1>0. ticks \in Nat /\ a \in Nat \ {0}
  BY DEF Filtered, Chain
<1>1. {n \in a..ticks : Lines'[n] > 1} = High(a, ticks)
  BY <1>0, HighIsKept
<1>2. a..(ticks + 1) = (a..ticks) \cup {ticks + 1} /\ ticks + 1 \notin a..ticks
  BY <1>0
<1>3. IsFiniteSet(High(a, ticks)) /\ ticks + 1 \notin High(a, ticks)
  BY <1>0, <1>2, HighIsFinite DEF High
<1>4. v > 1 => S = High(a, ticks) \cup {ticks + 1}
  BY <1>1, <1>2
<1>5. ~(v > 1) => S = High(a, ticks)
  BY <1>1, <1>2
<1>6. Cardinality(High(a, ticks) \cup {ticks + 1}) = Cardinality(High(a, ticks)) + 1
  BY <1>3, FS_AddElement
<1> QED BY <1>4, <1>5, <1>6

-----------------------------------------------------------------------------
(* The pulses.                                                             *)

From(n) == IF n = 1 THEN 1 ELSE ends[n - 1] + 1
StartIsLong(n) ==
  Cardinality(High(From(n), starts[n] - 1)) > threshold /\ Lines[starts[n]] < -1
EndIsLong(n) ==
  Cardinality(High(starts[n], ends[n])) = threshold + 1 /\ Lines[ends[n]] > 1

LEMMA PulsesAre ==
  PulsesAreLong <=> \A n \in 1..Len(starts) : StartIsLong(n) /\ (n =< Len(ends) => EndIsLong(n))
  BY DEF PulsesAreLong, StartIsLong, EndIsLong, From

\* Where the tool is in a pulse, and how many lines were up since the last trace ended or this
\* one started.
Paced ==
  /\ state \in {"NONE", "DTR_START", "IN_TRACE", "DTR_STOP"} /\ time_in_state \in 0..threshold
  /\ tool \in {"binary", "watts"} => state = "NONE"
  /\ starts \in Seq(1..ticks) /\ ends \in Seq(1..ticks)
  /\ Len(starts) = Len(ends) + (IF state = "IN_TRACE" THEN 1 ELSE 0)
Counted ==
  /\ state = "NONE" => Cardinality(High(From(Len(ends) + 1), ticks)) >= time_in_state
  /\ state = "DTR_START" => Cardinality(High(From(Len(ends) + 1), ticks)) > threshold
  /\ state = "IN_TRACE" => Cardinality(High(starts[Len(starts)], ticks)) = time_in_state

LEMMA StartIsKept ==
  ASSUME Filtered, Grown, UNCHANGED rate, NEW n \in Nat \ {0},
         n # 1 => ends[n - 1] \in 1..ticks /\ ends'[n - 1] = ends[n - 1],
         starts[n] \in 1..ticks, starts'[n] = starts[n], StartIsLong(n)
  PROVE  StartIsLong(n)'
<1>1. ticks \in Nat /\ From(n) \in Nat \ {0} /\ From(n)' = From(n) /\ threshold' = threshold
  BY DEF Filtered, Chain, From, threshold
<1>2. /\ starts[n] - 1 \in Int /\ starts[n] - 1 =< ticks
      /\ starts[n] \in 1..Len(Lines)
  BY <1>1 DEF Filtered, Shape, Lines, Chain
<1>3. High(From(n), starts[n] - 1)' = {k \in From(n)..(starts[n] - 1) : Lines'[k] > 1}
  BY <1>1 DEF High
<1>4. {k \in From(n)..(starts[n] - 1) : Lines'[k] > 1} = High(From(n), starts[n] - 1)
  BY <1>1, <1>2, HighIsKept
<1>5. Lines'[starts[n]] = Lines[starts[n]]
  BY <1>2 DEF Grown
<1> QED BY <1>1, <1>3, <1>4, <1>5 DEF StartIsLong

LEMMA EndIsKept ==
  ASSUME Filtered, Grown, UNCHANGED rate, NEW n \in Nat \ {0},
         starts[n] \in 1..ticks, starts'[n] = starts[n],
         ends[n] \in 1..ticks, ends'[n] = ends[n], EndIsLong(n)
  PROVE  EndIsLong(n)'
<1>1. ticks \in Nat /\ threshold' = threshold
  BY DEF Filtered, Chain, threshold
<1>2. ends[n] \in 1..Len(Lines) /\ starts[n] \in Nat \ {0}
  BY <1>1 DEF Filtered, Shape, Lines, Chain
<1>3. High(starts[n], ends[n])' = {k \in starts[n]..ends[n] : Lines'[k] > 1}
  BY DEF High
<1>4. {k \in starts[n]..ends[n] : Lines'[k] > 1} = High(starts[n], ends[n])
  BY <1>1, <1>2, HighIsKept
<1>5. Lines'[ends[n]] = Lines[ends[n]]
  BY <1>2 DEF Grown
<1> QED BY <1>1, <1>3, <1>4, <1>5 DEF EndIsLong

Pulsed == Paced /\ Counted /\ PulsesAreLong

LEMMA ElementsAre ==
  ASSUME NEW S, NEW s \in Seq(S)
  PROVE  Len(s) \in Nat /\ \A n \in 1..Len(s) : s[n] \in S
  OBVIOUS

\* The starts and the ends of traces are lines that were read.
LEMMA TracesAre ==
  ASSUME Pulsed
  PROVE  /\ Len(starts) \in Nat /\ \A n \in 1..Len(starts) : starts[n] \in 1..ticks
         /\ Len(ends) \in Nat /\ \A n \in 1..Len(ends) : ends[n] \in 1..ticks
         /\ Len(starts) = Len(ends) + (IF state = "IN_TRACE" THEN 1 ELSE 0)
<1>1. starts \in Seq(1..ticks) /\ ends \in Seq(1..ticks)
  BY DEF Pulsed, Paced
<1>2. Len(starts) \in Nat /\ \A n \in 1..Len(starts) : starts[n] \in 1..ticks
  BY <1>1, ElementsAre
<1>3. Len(ends) \in Nat /\ \A n \in 1..Len(ends) : ends[n] \in 1..ticks
  BY <1>1, ElementsAre
<1>4. Len(starts) = Len(ends) + (IF state = "IN_TRACE" THEN 1 ELSE 0)
  BY DEF Pulsed, Paced
<1> QED BY <1>2, <1>3, <1>4

LEMMA PulsedInit == Init => Pulsed
<1> SUFFICES ASSUME Init PROVE Pulsed
  OBVIOUS
<1>1. ticks = 0 /\ starts = <<>> /\ ends = <<>> /\ state = "NONE" /\ time_in_state = 0 /\ rate \in Nat
  BY TracesAssumption DEF Init
<1>2. Paced
  BY <1>1, ThresholdIs DEF Paced
<1>3. Counted
  <2>1. From(Len(ends) + 1) = 1
    BY <1>1 DEF From
  <2> QED BY <1>1, <2>1, HighIsFinite DEF Counted
<1> QED BY <1>1, <1>2, <1>3 DEF Pulsed, PulsesAreLong

\* What the tool has found it has found.
LEMMA FoundIsKept ==
  ASSUME Filtered, Pulsed, Grown, UNCHANGED rate,
         \A n \in 1..Len(starts) : starts'[n] = starts[n],
         \A n \in 1..Len(ends) : ends'[n] = ends[n]
  PROVE  \A n \in 1..Len(starts) : StartIsLong(n)' /\ (n =< Len(ends) => EndIsLong(n)')
<1> TAKE n \in 1..Len(starts)
<1>1. /\ n \in Nat \ {0} /\ starts[n] \in 1..ticks /\ StartIsLong(n)
      /\ n # 1 => n - 1 \in 1..Len(ends)
      /\ n =< Len(ends) => n \in 1..Len(ends) /\ EndIsLong(n)
  BY TracesAre, PulsesAre DEF Pulsed
<1>2. \A k \in 1..Len(ends) : ends[k] \in 1..ticks
  BY TracesAre
<1>3. StartIsLong(n)'
  BY <1>1, <1>2, StartIsKept
<1>4. n =< Len(ends) => EndIsLong(n)'
  BY <1>1, <1>2, EndIsKept
<1> QED BY <1>3, <1>4

\* No line for the tool.
LEMMA PulsedWithoutLine ==
  ASSUME Filtered, Pulsed, Grown, UNCHANGED <<tool, rate, ticks, traces>>
  PROVE  Pulsed'
<1>1. threshold' = threshold /\ UNCHANGED <<state, time_in_state, starts, ends>> /\ ticks \in Nat
  BY DEF threshold, traces, Filtered, Chain
<1>2. Paced'
  BY <1>1 DEF Pulsed, Paced
<1>3. Counted'
  <2>1. From(Len(ends) + 1) \in Nat \ {0} /\ From(Len(ends) + 1)' = From(Len(ends) + 1)
    BY <1>1 DEF From, Pulsed, Paced
  <2>2. High(From(Len(ends) + 1), ticks)' = High(From(Len(ends) + 1), ticks)
    <3>1. {n \in From(Len(ends) + 1)..ticks : Lines'[n] > 1} = High(From(Len(ends) + 1), ticks)
      BY <1>1, <2>1, HighIsKept
    <3> QED BY <1>1, <2>1, <3>1 DEF High
  <2>3. state = "IN_TRACE" =>
          High(starts[Len(starts)], ticks)' = High(starts[Len(starts)], ticks)
    <3> SUFFICES ASSUME state = "IN_TRACE"
                 PROVE  High(starts[Len(starts)], ticks)' = High(starts[Len(starts)], ticks)
      OBVIOUS
    <3>1. starts[Len(starts)] \in Nat \ {0}
      BY <1>1 DEF Pulsed, Paced
    <3>2. {n \in starts[Len(starts)]..ticks : Lines'[n] > 1} = High(starts[Len(starts)], ticks)
      BY <1>1, <3>1, HighIsKept
    <3> QED BY <1>1, <3>2 DEF High
  <2> QED BY <1>1, <2>1, <2>2, <2>3 DEF Counted, Pulsed
<1>4. PulsesAreLong'
  BY <1>1, FoundIsKept, PulsesAre DEF Pulsed, PulsesAreLong, StartIsLong, EndIsLong, From
<1> QED BY <1>2, <1>3, <1>4 DEF Pulsed

\* A line for the tool, and how many were up with it since some line.
LEMMA PulsedLine ==
  ASSUME Filtered, Pulsed, Grown, NEW v \in Level, Reads(v),
         ticks' = ticks + 1, Lines'[ticks'] = v
  PROVE  Pulsed'
<1> DEFINE from == From(Len(ends) + 1)
           H(a) == Cardinality({n \in a..(ticks + 1) : Lines'[n] > 1})
<1>1. ticks \in Nat /\ rate \in Nat /\ UNCHANGED <<filter, tool, rate>>
  BY TracesAssumption DEF Filtered, Chain, Reads
<1>2. threshold \in Nat \ {0} /\ threshold' = threshold /\ time_in_state \in 0..threshold
  BY <1>1, ThresholdIs DEF threshold, Pulsed, Paced
<1>3. /\ Len(starts) \in Nat /\ \A n \in 1..Len(starts) : starts[n] \in 1..ticks
      /\ Len(ends) \in Nat /\ \A n \in 1..Len(ends) : ends[n] \in 1..ticks
      /\ Len(starts) = Len(ends) + (IF state = "IN_TRACE" THEN 1 ELSE 0)
  BY TracesAre
<1>4. /\ starts \in Seq(1..ticks) /\ ends \in Seq(1..ticks)
      /\ starts \in Seq(1..(ticks + 1)) /\ ends \in Seq(1..(ticks + 1)) /\ ticks + 1 \in 1..(ticks + 1)
  BY <1>1 DEF Pulsed, Paced
<1>5. from \in 1..(ticks + 1)
  BY <1>1, <1>3 DEF From
<1>6. \A a \in 1..(ticks + 1) :
        /\ Cardinality(High(a, ticks)) \in Nat
        /\ H(a) = IF v > 1 THEN Cardinality(High(a, ticks)) + 1 ELSE Cardinality(High(a, ticks))
  <2> TAKE a \in 1..(ticks + 1)
  <2>1. a \in Int /\ ticks \in Int
    BY <1>1
  <2>2. Cardinality(High(a, ticks)) \in Nat
    BY <2>1, HighIsFinite
  <2>3. Lines'[ticks + 1] = v
    BY <1>1
  <2>4. H(a) = IF v > 1 THEN Cardinality(High(a, ticks)) + 1 ELSE Cardinality(High(a, ticks))
    BY <2>3, HighOfNext
  <2> QED BY <2>2, <2>4
<1>7. /\ state \in {"NONE", "DTR_START", "IN_TRACE", "DTR_STOP"}
      /\ tool \in {"binary", "watts"} => state = "NONE"
      /\ state = "NONE" => Cardinality(High(from, ticks)) >= time_in_state
      /\ state = "DTR_START" => Cardinality(High(from, ticks)) > threshold
      /\ state = "IN_TRACE" => Cardinality(High(starts[Len(starts)], ticks)) = time_in_state
  BY DEF Pulsed, Paced, Counted
<1>8. v \in Int
  BY DEF Level
<1>9. \A a \in 1..(ticks + 1) : H(a) = Cardinality({n \in a..ticks' : Lines'[n] > 1})
  OBVIOUS
\* Nothing found.
<1>10. ASSUME UNCHANGED <<starts, ends>>
       PROVE  /\ PulsesAreLong'
              /\ Cardinality(High(From(Len(ends) + 1), ticks))' = H(from)
              /\ starts \in Seq(1..ticks)' /\ ends \in Seq(1..ticks)'
              /\ Cardinality(High(starts[Len(starts)], ticks))' = H(starts[Len(starts)])
  <2>1. PulsesAreLong'
    BY <1>1, <1>10, FoundIsKept, PulsesAre DEF Pulsed, PulsesAreLong, StartIsLong, EndIsLong, From
  <2>2. From(Len(ends) + 1)' = from
    BY <1>10 DEF From
  <2> QED BY <1>4, <1>10, <2>1, <2>2 DEF High
<1> HIDE DEF H, from
<1>11. CASE UNCHANGED traces /\ tool \in {"binary", "watts"}
  <2>1. UNCHANGED <<state, time_in_state, starts, ends>> /\ state = "NONE"
    BY <1>7, <1>11 DEF traces
  <2>2. Paced'
    BY <1>1, <1>2, <1>3, <1>7, <1>10, <1>11, <2>1 DEF Paced
  <2>3. Counted'
    BY <1>2, <1>5, <1>6, <1>7, <1>10, <2>1 DEF Counted
  <2> QED BY <1>10, <2>1, <2>2, <2>3 DEF Pulsed
<1>12. CASE StartPulse(v) /\ tool \in {"ddr3", "ddr4"}
  <2>1. /\ UNCHANGED <<starts, ends>> /\ state = "NONE"
        /\ state' = IF v > 1 /\ Held THEN "DTR_START" ELSE "NONE"
        /\ time_in_state' = IF v =< 1 THEN time_in_state ELSE IF Held THEN 0 ELSE time_in_state + 1
    BY <1>12 DEF StartPulse
  <2>2. Paced'
    BY <1>1, <1>2, <1>3, <1>8, <1>10, <1>12, <2>1 DEF Paced, Held
  <2>3. Counted'
    BY <1>2, <1>5, <1>6, <1>7, <1>8, <1>10, <2>1 DEF Counted, Held
  <2> QED BY <1>10, <2>1, <2>2, <2>3 DEF Pulsed
<1>13. CASE StartTrace(v) /\ tool \in {"ddr3", "ddr4"}
  <2>1. CASE v < -1
    <3>1. /\ state = "DTR_START" /\ state' = "IN_TRACE" /\ time_in_state' = 0
          /\ starts' = Append(starts, ticks + 1) /\ ends' = ends
      BY <1>13, <2>1 DEF StartTrace
    <3>2. /\ starts' \in Seq(1..(ticks + 1)) /\ Len(starts') = Len(starts) + 1
          /\ starts'[Len(starts) + 1] = ticks + 1 /\ \A n \in 1..Len(starts) : starts'[n] = starts[n]
      BY <1>4, <3>1, AppendIs
    <3>3. Paced'
      BY <1>1, <1>2, <1>3, <1>4, <1>13, <3>1, <3>2 DEF Paced
    <3>4. Counted'
      <4>1. High(ticks + 1, ticks) = {}
        BY <1>1 DEF High
      <4>2. H(ticks + 1) = 0
        <5>1. Cardinality(High(ticks + 1, ticks)) = 0
          BY <4>1, FS_EmptySet
        <5>2. ~(v > 1)
          BY <1>8, <2>1
        <5> QED BY <1>4, <1>6, <5>1, <5>2
      <4>3. High(starts[Len(starts)], ticks)' = {n \in (ticks + 1)..(ticks + 1) : Lines'[n] > 1}
        BY <3>2 DEF High
      <4> QED BY <3>1, <4>2, <4>3 DEF Counted, H
    <3>5. PulsesAreLong'
      <4>1. \A n \in 1..Len(starts) : StartIsLong(n)' /\ (n =< Len(ends) => EndIsLong(n)')
        BY <1>1, <3>1, <3>2, FoundIsKept
      <4>2. Len(starts') = Len(ends) + 1 /\ Len(starts) = Len(ends)
        BY <1>3, <3>1, <3>2
      <4>3. From(Len(ends) + 1)' = from
        BY <3>1 DEF From, from
      <4>4. High(From(Len(ends) + 1), starts[Len(ends) + 1] - 1)' = High(from, ticks)
        <5>1. {n \in from..ticks : Lines'[n] > 1} = High(from, ticks)
          BY <1>1, <1>5, HighIsKept
        <5>2. starts'[Len(ends) + 1] - 1 = ticks
          BY <1>1, <3>2, <4>2
        <5> QED BY <3>1, <4>3, <5>1, <5>2 DEF High
      <4>5. Cardinality(High(From(Len(ends) + 1), starts[Len(ends) + 1] - 1))' > threshold'
        BY <1>2, <1>7, <3>1, <4>4
      <4>6. Lines'[starts'[Len(ends) + 1]] < -1
        BY <2>1, <3>2, <4>2
      <4>7. \A n \in 1..Len(starts') : n \in 1..Len(starts) \/ n = Len(ends) + 1
        BY <1>3, <4>2
      <4>8. ~(Len(ends) + 1 =< Len(ends))
        BY <1>3
      <4> QED
        BY <3>1, <4>1, <4>5, <4>6, <4>7, <4>8 DEF PulsesAreLong, StartIsLong, EndIsLong, From
    <3> QED BY <3>3, <3>4, <3>5 DEF Pulsed
  <2>2. CASE ~(v < -1)
    <3>1. UNCHANGED <<state, time_in_state, starts, ends>> /\ state = "DTR_START"
      BY <1>13, <2>2 DEF StartTrace
    <3>2. Paced'
      BY <1>1, <1>2, <1>3, <1>7, <1>10, <1>13, <3>1 DEF Paced
    <3>3. Counted'
      BY SMTT(30), <1>2, <1>5, <1>6, <1>7, <1>10, <3>1 DEF Counted
    <3> QED BY <1>10, <3>1, <3>2, <3>3 DEF Pulsed
  <2> QED BY <2>1, <2>2
<1>14. CASE EndPulse(v) /\ tool \in {"ddr3", "ddr4"}
  <2>0. state = "IN_TRACE" /\ Len(starts) = Len(ends) + 1 /\ starts' = starts
        /\ starts[Len(starts)] \in 1..(ticks + 1) /\ starts[Len(starts)] \in 1..ticks
    BY <1>1, <1>3, <1>14 DEF EndPulse
  <2>1. CASE v > 1 /\ Held
    <3>1. state' = "DTR_STOP" /\ time_in_state' = 0 /\ ends' = Append(ends, ticks + 1)
      BY <1>14, <2>1 DEF EndPulse
    <3>2. /\ ends' \in Seq(1..(ticks + 1)) /\ Len(ends') = Len(ends) + 1
          /\ ends'[Len(ends) + 1] = ticks + 1 /\ \A n \in 1..Len(ends) : ends'[n] = ends[n]
      BY <1>4, <3>1, AppendIs
    <3>3. Paced' /\ Counted'
      BY <1>1, <1>2, <1>3, <1>4, <1>14, <2>0, <3>1, <3>2 DEF Paced, Counted
    <3>4. PulsesAreLong'
      <4>1. \A n \in 1..Len(starts) : StartIsLong(n)' /\ (n =< Len(ends) => EndIsLong(n)')
        BY <1>1, <2>0, <3>2, FoundIsKept
      <4>2. H(starts[Len(starts)]) = threshold + 1
        BY <1>2, <1>6, <1>7, <2>0, <2>1 DEF Held
      <4>3. High(starts[Len(starts)], ends[Len(starts)])' =
               {n \in starts[Len(starts)]..(ticks + 1) : Lines'[n] > 1}
        BY <2>0, <3>2 DEF High
      <4>5. EndIsLong(Len(starts))'
        BY <2>0, <1>2, <2>1, <3>2, <4>2, <4>3 DEF EndIsLong, H
      <4>6. \A n \in 1..Len(starts') : n \in 1..Len(starts) /\ (n =< Len(ends) \/ n = Len(starts))
        BY <1>3, <2>0
      <4> QED
        BY <2>0, <4>1, <4>5, <4>6 DEF PulsesAreLong, StartIsLong, EndIsLong, From
    <3> QED BY <3>3, <3>4 DEF Pulsed
  <2>2. CASE ~(v > 1 /\ Held)
    <3>1. /\ UNCHANGED <<state, starts, ends>>
          /\ time_in_state' = IF v > 1 THEN time_in_state + 1 ELSE time_in_state
      BY <1>14, <2>2 DEF EndPulse
    <3>2. H(starts[Len(starts)]) = time_in_state' /\ time_in_state' \in 0..threshold
      BY <1>2, <1>6, <1>7, <1>8, <2>0, <2>2, <3>1 DEF Held
    <3> QED BY <1>1, <1>2, <1>3, <1>7, <1>10, <1>14, <2>0, <3>1, <3>2 DEF Pulsed, Paced, Counted
  <2> QED BY <2>1, <2>2
<1>15. CASE StopFalls(v) /\ tool \in {"ddr3", "ddr4"}
  <2>1. /\ UNCHANGED <<starts, ends>> /\ state = "DTR_STOP"
        /\ (state' = "NONE" /\ time_in_state' = 0) \/ UNCHANGED <<state, time_in_state>>
    BY <1>15 DEF StopFalls
  <2>2. Paced'
    BY <1>1, <1>2, <1>3, <1>10, <1>15, <2>1 DEF Paced
  <2>3. Counted'
    BY <1>2, <1>5, <1>6, <1>10, <2>1 DEF Counted
  <2> QED BY <1>10, <2>1, <2>2, <2>3 DEF Pulsed
<1> QED BY <1>11, <1>12, <1>13, <1>14, <1>15 DEF Reads

LEMMA PulsedNext == Filtered /\ Pulsed /\ [Next]_vars => Pulsed'
<1> SUFFICES ASSUME Filtered, Pulsed, [Next]_vars PROVE Pulsed'
  OBVIOUS
<1>1. CASE Before
  BY <1>1, BeforeIs, PulsedWithoutLine
<1>2. ASSUME NEW v \in Level, Reads(v) PROVE Pulsed'
  <2>1. Taken(v) /\ UNCHANGED <<filter, tool, header, rate, debounce, q>>
    BY <1>2 DEF Reads
  <2>2. Grown /\ ticks' = ticks + 1 /\ Lines'[ticks'] = v
    BY <2>1, TakenIs
  <2> QED BY <1>2, <2>2, PulsedLine
<1>3. CASE Idle
  <2>1. Grown
    BY <1>3, IdleIs DEF Grown, Filtered, Chain, Lines
  <2> QED BY <1>3, <2>1, PulsedWithoutLine DEF Idle
<1> QED BY <1>1, <1>2, <1>3, NextIs DEF Filtered

LEMMA FilteredAndPulsed == Spec => [](Filtered /\ Pulsed)
  BY FilteredInit, PulsedInit, FilteredNext, PulsedNext, PTL DEF Spec

\* Before a trace the line was up for more than the threshold since the one before it
\* ended, and in it for the threshold and at its end (dump_watts_ddr4.c:86-131).
THEOREM PulsesAreCounted == Spec => []PulsesAreLong
<1>1. Filtered /\ Pulsed => PulsesAreLong
  BY DEF Pulsed
<1> QED BY <1>1, FilteredAndPulsed, PTL

\* No line debounce_serial writes of a port that only bounces is up.
LEMMA NoBounceIsUp == Filtered /\ Pulsed => BouncesStartNothing
<1> SUFFICES ASSUME Filtered, Pulsed PROVE BouncesStartNothing
  OBVIOUS
<1> SUFFICES ASSUME filter, raw # <<>>, starts # <<>>,
                    \A n \in 1..Len(raw) : raw[n] > 0 =>
                      \A k \in (n - 2)..(n + 2) : k \in 1..Len(raw) /\ k # n => raw[k] < 0
             PROVE  FALSE
  BY DEF BouncesStartNothing
<1>1. /\ Len(starts) \in Nat /\ \A n \in 1..Len(starts) : starts[n] \in 1..ticks
      /\ starts \in Seq(1..ticks)
  BY TracesAre DEF Pulsed, Paced
<1>2. 1 \in 1..Len(starts) /\ starts[1] \in 1..ticks
  BY <1>1
<1>3. Cardinality(High(1, starts[1] - 1)) > threshold
  BY <1>2, PulsesAre DEF Pulsed, StartIsLong, From
<1>4. /\ raw \in Seq(Level) /\ Len(raw) \in Nat /\ ticks \in Nat /\ Lines = out /\ rate \in Nat
      /\ ticks =< Len(out) /\ Len(out) =< Len(raw) /\ Len(out) \in Nat
      /\ \A n \in 1..Len(out) : out[n] = IF Lone(n) THEN -raw[n] ELSE raw[n]
  BY TracesAssumption DEF Filtered, Chain, Shape, Debounced, Lines
<1>5. \A n \in 1..Len(raw) : raw[n] \in Int
  BY <1>4 DEF Level
<1>6. ASSUME NEW n \in 1..(starts[1] - 1), out[n] > 1 PROVE FALSE
  <2>1. n \in Nat \ {0} /\ n \in 1..Len(out) /\ n \in 1..Len(raw) /\ n + 1 \in 1..Len(raw)
    BY <1>2, <1>4, <1>6
  <2>2. n # 1 => n - 1 \in 1..Len(raw)
    BY <2>1
  <2>3. CASE Lone(n)
    <3>1. raw[n] < 0
      BY <1>4, <1>5, <1>6, <2>1, <2>3
    <3>2. raw[n + 1] > 0 /\ n # 1 /\ raw[n - 1] > 0
      BY <1>5, <2>1, <2>2, <2>3, <3>1 DEF Lone, Opposite
    <3>3. n + 1 \in ((n - 1) - 2)..((n - 1) + 2) /\ n + 1 # n - 1
      BY <2>1
    <3>4. raw[n + 1] < 0
      BY <2>1, <2>2, <3>2, <3>3
    <3> QED BY <1>5, <2>1, <3>2, <3>4
  <2>4. CASE ~Lone(n)
    <3>1. raw[n] > 0
      BY <1>4, <1>6, <2>1, <1>5, <2>4
    <3>2. n + 1 \in (n - 2)..(n + 2) /\ n - 1 \in (n - 2)..(n + 2) /\ n + 1 # n /\ n - 1 # n
      BY <2>1
    <3>3. raw[n + 1] < 0 /\ (n # 1 => raw[n - 1] < 0)
      BY <2>1, <2>2, <3>1, <3>2
    <3>4. n < Len(raw) /\ Opposite(raw[n], raw[n + 1])
      BY <1>4, <2>1, <3>1, <3>3 DEF Opposite
    <3>5. Opposite(raw[n], IF n = 1 THEN -2 ELSE raw[n - 1])
      BY <3>1, <3>3 DEF Opposite
    <3> QED BY <2>4, <3>4, <3>5 DEF Lone
  <2> QED BY <2>3, <2>4
<1>7. High(1, starts[1] - 1) = {}
  BY <1>4, <1>6 DEF High
<1>8. threshold \in Nat
  BY <1>4, ThresholdIs
<1>9. Cardinality(High(1, starts[1] - 1)) = 0
  BY <1>7, FS_EmptySet
<1> QED BY <1>3, <1>8, <1>9

\* A port that only bounces, each time for a line with two of the other sign on both sides, starts
\* no trace behind debounce_serial (debounce_serial.c:85-106 and
\* dump_watts_ddr3.c:86-104).
THEOREM BouncesAreFiltered == Spec => []BouncesStartNothing
  BY NoBounceIsUp, FilteredAndPulsed, PTL

-----------------------------------------------------------------------------
(* The energy of the traces.                                               *)

\* The lines of the traces that ended, and the first of the one that has not.
Whole == UNION {starts[k]..(ends[k] - 1) : k \in 1..Len(ends)}
First == starts[Len(starts)]

OnceIn(S) == [n \in 1..(MaxLines + 1) |-> IF n \in S THEN 1 ELSE 0]

Added ==
  /\ Whole \subseteq 1..ticks
  /\ total_joules = OnceIn(Whole) /\ total_time = Cardinality(Whole) /\ trace = Len(ends)
  /\ trace_ticks \in 0..ticks /\ trace_joules \in [1..(MaxLines + 1) -> Nat]
  /\ state = "IN_TRACE" =>
       /\ Whole \subseteq 1..(First - 1)
       /\ trace_joules = OnceIn(First..ticks) /\ trace_ticks = ticks - First + 1

LEMMA AddedInit == Init => Added
<1> SUFFICES ASSUME Init PROVE Added
  OBVIOUS
<1>1. /\ starts = <<>> /\ ends = <<>> /\ state = "NONE" /\ ticks = 0
      /\ total_joules = NoEnergy /\ trace_joules = NoEnergy /\ trace = 0 /\ trace_ticks = 0
      /\ total_time = 0
  BY DEF Init
<1>2. Whole = {}
  BY <1>1 DEF Whole
<1>3. Cardinality({}) = 0
  BY FS_EmptySet
<1>4. OnceIn({}) = NoEnergy /\ NoEnergy \in [1..(MaxLines + 1) -> Nat]
  BY DEF OnceIn, NoEnergy
<1> QED BY <1>1, <1>2, <1>3, <1>4 DEF Added

\* A capture behind debounce_serial may have one line more, when it had none.
LEMMA LinesAreFew == Filtered => Len(Lines) =< MaxLines + 1 /\ ticks =< MaxLines + 1
<1> SUFFICES ASSUME Filtered PROVE Len(Lines) =< MaxLines + 1 /\ ticks =< MaxLines + 1
  OBVIOUS
<1>1. /\ Len(raw) \in Nat /\ Len(out) \in Nat /\ Len(raw) =< MaxLines /\ MaxLines \in Nat
      /\ ticks \in Nat /\ ticks =< Len(Lines)
  BY TracesAssumption DEF Filtered, Chain, Shape
<1>2. filter => Len(out) =< MaxLines + 1
  <2>1. filter /\ raw = <<>> => Len(out) = 0 \/ Len(out) = 1
    BY DEF Filtered, Remembered
  <2>2. filter /\ raw # <<>> => Len(out) = Len(raw) \/ Len(out) = Len(raw) - 1
    BY DEF Filtered, Debounced
  <2>3. ASSUME NEW m \in Nat, NEW n \in Nat, m =< MaxLines,
               n = 0 \/ n = 1 \/ n = m \/ n = m - 1
        PROVE  n =< MaxLines + 1
    BY <1>1, <2>3
  <2>4. filter => Len(out) = 0 \/ Len(out) = 1 \/ Len(out) = Len(raw) \/ Len(out) = Len(raw) - 1
    BY <2>1, <2>2, Zenon
  <2> QED BY <1>1, <2>3, <2>4, Zenon
<1> QED BY <1>1, <1>2 DEF Lines

\* One more line of a trace.
LEMMA OneMore ==
  ASSUME NEW a \in Nat \ {0}, NEW b \in Nat, a =< b + 1, b < MaxLines + 1
  PROVE  [OnceIn(a..b) EXCEPT ![b + 1] = @ + 1] = OnceIn(a..(b + 1))
<1>1. b + 1 \in 1..(MaxLines + 1) /\ b + 1 \notin a..b
  BY TracesAssumption
<1>2. \A n \in 1..(MaxLines + 1) : n # b + 1 => (n \in a..b <=> n \in a..(b + 1))
  OBVIOUS
<1>3. b + 1 \in a..(b + 1)
  OBVIOUS
<1> DEFINE f == [n \in 1..(MaxLines + 1) |-> IF n \in a..b THEN 1 ELSE 0]
<1>4. f[b + 1] + 1 = 1
  BY <1>1
<1> HIDE DEF f
<1>5. [f EXCEPT ![b + 1] = @ + 1] = [f EXCEPT ![b + 1] = 1]
  BY <1>4, Zenon
<1> USE DEF f
<1>6. \A n \in 1..(MaxLines + 1) :
        [f EXCEPT ![b + 1] = 1][n] = IF n \in a..(b + 1) THEN 1 ELSE 0
  BY <1>1, <1>2, <1>3
<1>7. [f EXCEPT ![b + 1] = 1] = OnceIn(a..(b + 1))
  BY <1>6 DEF OnceIn
<1> QED BY <1>5, <1>7 DEF OnceIn

LEMMA SpanIs ==
  ASSUME NEW a \in Nat \ {0}, NEW b \in Nat, a =< b + 1
  PROVE  IsFiniteSet(a..b) /\ Cardinality(a..b) = b - a + 1
<1>1. a \in Int /\ b \in Int /\ b - a + 1 \in Nat /\ b + 1 - a = b - a + 1
  OBVIOUS
<1>2. CASE a > b
  <2>1. a..b = {} /\ b - a + 1 = 0
    BY <1>2
  <2> QED BY <2>1, FS_EmptySet
<1>3. CASE ~(a > b)
  BY <1>1, <1>3, FS_Interval
<1> QED BY <1>2, <1>3

LEMMA WholeIsKept ==
  ASSUME Pulsed, UNCHANGED ends, \A k \in 1..Len(ends) : starts'[k] = starts[k]
  PROVE  Whole' = Whole
  BY DEF Whole

\* Nothing is added.
LEMMA NothingAdded ==
  ASSUME Filtered, Pulsed, Added, ticks' \in {ticks, ticks + 1},
         UNCHANGED <<trace, trace_ticks, total_time, trace_joules, total_joules, starts, ends>>,
         state' = "IN_TRACE" => state = "IN_TRACE" /\ ticks' = ticks
  PROVE  Added'
<1>1. Whole' = Whole /\ First' = First
  BY WholeIsKept DEF First
<1>2. ticks \in Nat
  BY DEF Filtered, Chain
<1>3. Whole \subseteq 1..ticks' /\ trace_ticks \in 0..ticks'
  BY <1>2 DEF Added
<1>4. OnceIn(Whole)' = OnceIn(Whole)
  BY <1>1 DEF OnceIn
<1>5. state' = "IN_TRACE" => OnceIn(First..ticks)' = OnceIn(First..ticks)
  BY <1>1 DEF OnceIn
<1> QED BY <1>1, <1>3, <1>4, <1>5, Zenon DEF Added

LEMMA AddedLine ==
  ASSUME Filtered, Filtered', Pulsed, Added, NEW v \in Level, Reads(v), ticks' = ticks + 1
  PROVE  Added'
<1>1. /\ Len(starts) \in Nat /\ \A n \in 1..Len(starts) : starts[n] \in 1..ticks
      /\ Len(ends) \in Nat /\ \A n \in 1..Len(ends) : ends[n] \in 1..ticks
      /\ Len(starts) = Len(ends) + (IF state = "IN_TRACE" THEN 1 ELSE 0)
  BY TracesAre
<1>2. starts \in Seq(1..(ticks + 1)) /\ ends \in Seq(1..(ticks + 1)) /\ ticks + 1 \in 1..(ticks + 1)
      /\ ticks \in Nat /\ MaxLines \in Nat
  BY TracesAssumption DEF Pulsed, Paced, Filtered, Chain
<1>3. ticks < MaxLines + 1
  <2>1. ticks' =< MaxLines + 1
    <3>1. (Filtered => Len(Lines) =< MaxLines + 1 /\ ticks =< MaxLines + 1)'
      BY LinesAreFew, PTL
    <3> QED BY <3>1
  <2> QED BY <1>2, <2>1
<1>4. CASE UNCHANGED traces /\ tool \in {"binary", "watts"}
  <2>1. state = "NONE"
    BY <1>4 DEF Pulsed, Paced
  <2> QED BY <1>4, <2>1, NothingAdded DEF traces
<1>5. CASE StartPulse(v)
  BY <1>5, NothingAdded DEF StartPulse
<1>6. CASE StartTrace(v) /\ ~(v < -1)
  BY <1>6, NothingAdded DEF StartTrace
<1>7. CASE StopFalls(v)
  BY <1>7, NothingAdded DEF StopFalls
<1>8. CASE StartTrace(v) /\ v < -1
  <2>1. /\ state = "DTR_START" /\ state' = "IN_TRACE" /\ AddsLine(NoEnergy, 0)
        /\ starts' = Append(starts, ticks + 1)
        /\ UNCHANGED <<trace, total_time, total_joules, ends>>
    BY <1>8 DEF StartTrace
  <2>2. /\ starts'[Len(starts) + 1] = ticks + 1 /\ \A n \in 1..Len(starts) : starts'[n] = starts[n]
        /\ Len(starts') = Len(starts) + 1
    BY <1>2, <2>1, AppendIs
  <2>3. Whole' = Whole /\ First' = ticks + 1
    BY <1>1, <2>1, <2>2, WholeIsKept DEF First
  <2>4. trace_joules' = OnceIn((ticks + 1)..(ticks + 1)) /\ trace_ticks' = 1
    <3>1. (ticks + 1)..ticks = {}
      BY <1>2
    <3>2. NoEnergy = OnceIn((ticks + 1)..ticks)
      BY <3>1 DEF NoEnergy, OnceIn
    <3>3. trace_joules' = [NoEnergy EXCEPT ![ticks + 1] = @ + 1] /\ trace_ticks' = 1
      BY <2>1 DEF AddsLine
    <3>4. [OnceIn((ticks + 1)..ticks) EXCEPT ![ticks + 1] = @ + 1] = OnceIn((ticks + 1)..(ticks + 1))
      <4>1. ticks + 1 \in Nat \ {0} /\ ticks + 1 =< ticks + 1
        BY <1>2
      <4> QED BY <1>2, <1>3, <4>1, OneMore
    <3> QED BY <3>2, <3>3, <3>4
  <2>5. trace_joules' \in [1..(MaxLines + 1) -> Nat]
    BY <2>4 DEF OnceIn
  <2>6. Whole \subseteq 1..ticks' /\ Whole \subseteq 1..(ticks + 1 - 1) /\ ticks + 1 - (ticks + 1) + 1 = 1
        /\ 1 \in 0..ticks'
    BY <1>2 DEF Added
  <2>7. total_joules' = OnceIn(Whole)' /\ trace_joules' = OnceIn(First..ticks)'
    BY <2>1, <2>3, <2>4 DEF Added, OnceIn
  <2>8. total_time' = Cardinality(Whole)' /\ trace' = Len(ends)'
    BY <2>1, <2>3 DEF Added
  <2>9. Whole' \subseteq 1..ticks' /\ Whole' \subseteq 1..(First' - 1)
    <3>1. First' - 1 = ticks + 1 - 1
      BY <1>2, <2>3
    <3> QED BY <2>3, <2>6, <3>1, Zenon
  <2>10. trace_ticks' = ticks' - First' + 1 /\ trace_ticks' \in 0..ticks'
    BY <2>3, <2>4, <2>6
  <2> QED BY <2>5, <2>7, <2>8, <2>9, <2>10 DEF Added
<1>9. CASE EndPulse(v) /\ v > 1 /\ Held
  <2>1. /\ state = "IN_TRACE" /\ state' = "DTR_STOP" /\ ends' = Append(ends, ticks + 1)
        /\ total_joules' = [n \in DOMAIN NoEnergy |-> total_joules[n] + trace_joules[n]]
        /\ total_time' = total_time + trace_ticks /\ trace' = trace + 1
        /\ UNCHANGED <<trace_ticks, trace_joules, starts>>
    BY <1>9 DEF EndPulse
  <2>2. /\ ends'[Len(ends) + 1] = ticks + 1 /\ \A n \in 1..Len(ends) : ends'[n] = ends[n]
        /\ Len(ends') = Len(ends) + 1
    BY <1>2, <2>1, AppendIs
  <2>3. First = starts[Len(ends) + 1] /\ First \in 1..ticks
    BY <1>1, <2>1 DEF First
  <2>4. Whole' = Whole \cup (First..ticks)
    <3>1. 1..Len(ends') = (1..Len(ends)) \cup {Len(ends) + 1}
      BY <1>1, <2>2
    <3>2. \A k \in 1..Len(ends) : ends'[k] - 1 = ends[k] - 1 /\ starts'[k] = starts[k]
      BY <2>1, <2>2
    <3>3. starts'[Len(ends) + 1]..(ends'[Len(ends) + 1] - 1) = First..ticks
      BY <1>2, <2>1, <2>2, <2>3
    <3>4. Whole' = UNION {starts'[k]..(ends'[k] - 1) : k \in 1..Len(ends')}
      BY DEF Whole
    <3>5. ASSUME NEW x PROVE x \in Whole' <=> x \in Whole \/ x \in First..ticks
      <4>1. x \in Whole' <=> \E k \in 1..Len(ends') : x \in starts'[k]..(ends'[k] - 1)
        BY <3>4
      <4>2. x \in Whole <=> \E k \in 1..Len(ends) : x \in starts[k]..(ends[k] - 1)
        BY DEF Whole
      <4>3. \A k \in 1..Len(ends) : starts'[k]..(ends'[k] - 1) = starts[k]..(ends[k] - 1)
        BY <3>2
      <4>4. x \in Whole' <=> (\E k \in 1..Len(ends) : x \in starts'[k]..(ends'[k] - 1))
                              \/ x \in starts'[Len(ends) + 1]..(ends'[Len(ends) + 1] - 1)
        BY <3>1, <4>1, Zenon
      <4> QED BY <3>3, <4>2, <4>3, <4>4, Zenon
    <3> QED BY <3>5
  <2>5. Whole \subseteq 1..(First - 1) /\ Whole \subseteq 1..ticks
        /\ trace_joules = OnceIn(First..ticks) /\ trace_ticks = ticks - First + 1
        /\ total_joules = OnceIn(Whole) /\ total_time = Cardinality(Whole) /\ trace = Len(ends)
        /\ trace_ticks \in 0..ticks /\ trace_joules \in [1..(MaxLines + 1) -> Nat]
    BY <2>1 DEF Added
  <2>6. \A n \in First..ticks : n \notin Whole
    BY <2>3, <2>5
  <2>7. total_joules' = OnceIn(Whole)'
    <3>1. \A n \in 1..(MaxLines + 1) :
            OnceIn(Whole)[n] + OnceIn(First..ticks)[n] = IF n \in Whole' THEN 1 ELSE 0
      BY <2>4, <2>6 DEF OnceIn
    <3> QED BY <2>1, <2>5, <3>1 DEF NoEnergy, OnceIn
  <2>8. total_time' = Cardinality(Whole)'
    <3>1. IsFiniteSet(1..ticks) /\ IsFiniteSet(First..ticks)
          /\ Cardinality(First..ticks) = ticks - First + 1
      <4>1. ticks - 1 + 1 = ticks /\ 1 =< ticks + 1 /\ First =< ticks + 1 /\ First \in Nat \ {0}
        BY <1>2, <2>3
      <4> QED BY <1>2, <4>1, SpanIs
    <3>2. IsFiniteSet(Whole)
      BY <2>5, <3>1, FS_Subset
    <3>3. Cardinality(Whole \cup (First..ticks))
            = Cardinality(Whole) + Cardinality(First..ticks) - Cardinality(Whole \cap (First..ticks))
      BY <3>1, <3>2, FS_Union
    <3>4. Whole \cap (First..ticks) = {}
      BY <2>6
    <3>5. Cardinality(Whole \cap (First..ticks)) = 0
      BY <3>4, FS_EmptySet
    <3>6. Cardinality(Whole) \in Nat
      BY <3>2, FS_CardinalityType
    <3> QED BY <1>2, <2>1, <2>3, <2>4, <2>5, <3>1, <3>3, <3>5, <3>6
  <2>9. Whole' \subseteq 1..ticks' /\ trace_ticks' \in 0..ticks'
    <3>1. Whole' \subseteq 1..(ticks + 1)
      <4>1. Whole \subseteq 1..ticks
        BY <2>5
      <4>2. \A n \in First..ticks : n \in 1..(ticks + 1)
        BY <1>2, <2>3
      <4>3. \A n \in 1..ticks : n \in 1..(ticks + 1)
        BY <1>2
      <4> QED BY <2>4, <4>1, <4>2, <4>3, Zenon
    <3>2. trace_ticks \in 0..(ticks + 1)
      BY <1>2, <2>5
    <3> QED BY <2>1, <3>1, <3>2
  <2>10. trace' = Len(ends')
    BY <2>1, <2>2, <2>5
  <2> QED BY <2>1, <2>5, <2>7, <2>8, <2>9, <2>10 DEF Added
<1>10. CASE EndPulse(v) /\ ~(v > 1 /\ Held)
  <2>1. /\ state = "IN_TRACE" /\ state' = "IN_TRACE" /\ AddsLine(trace_joules, trace_ticks)
        /\ UNCHANGED <<total_joules, total_time, trace, ends, starts>>
    BY <1>10 DEF EndPulse
  <2>2. First \in 1..ticks /\ First' = First /\ Whole' = Whole
    BY <1>1, <2>1, WholeIsKept DEF First
  <2>3. Whole \subseteq 1..(First - 1) /\ Whole \subseteq 1..ticks
        /\ trace_joules = OnceIn(First..ticks) /\ trace_ticks = ticks - First + 1
        /\ total_joules = OnceIn(Whole) /\ total_time = Cardinality(Whole) /\ trace = Len(ends)
    BY <2>1 DEF Added
  <2>4. trace_joules' = OnceIn(First..(ticks + 1)) /\ trace_ticks' = (ticks + 1) - First + 1
    <3>1. trace_joules' = [trace_joules EXCEPT ![ticks + 1] = @ + 1] /\ trace_ticks' = trace_ticks + 1
      BY <2>1 DEF AddsLine
    <3>2. [OnceIn(First..ticks) EXCEPT ![ticks + 1] = @ + 1] = OnceIn(First..(ticks + 1))
      BY <1>2, <1>3, <2>2, OneMore
    <3>3. trace_joules' = OnceIn(First..(ticks + 1))
      BY <2>3, <3>1, <3>2
    <3> QED BY <1>2, <2>2, <2>3, <3>1, <3>3
  <2>5. trace_joules' \in [1..(MaxLines + 1) -> Nat]
    BY <2>4 DEF OnceIn
  <2>6. total_joules' = OnceIn(Whole)' /\ trace_joules' = OnceIn(First..ticks)'
    BY <2>1, <2>2, <2>3, <2>4 DEF OnceIn
  <2>7. total_time' = Cardinality(Whole)' /\ trace' = Len(ends)'
    BY <2>1, <2>2, <2>3
  <2>8. Whole' \subseteq 1..ticks' /\ Whole' \subseteq 1..(First' - 1)
    BY <1>2, <2>2, <2>3
  <2>9. trace_ticks' = ticks' - First' + 1 /\ trace_ticks' \in 0..ticks'
    BY <1>2, <2>2, <2>4
  <2> QED BY <2>5, <2>6, <2>7, <2>8, <2>9 DEF Added
<1> QED BY <1>4, <1>5, <1>6, <1>7, <1>8, <1>9, <1>10 DEF Reads

LEMMA AddedNext == Filtered /\ Pulsed /\ Added /\ [Next]_vars => Added'
<1> SUFFICES ASSUME Filtered, Pulsed, Added, [Next]_vars PROVE Added'
  OBVIOUS
<1>1. CASE Before
  BY <1>1, BeforeIs, NothingAdded DEF traces
<1>2. ASSUME NEW v \in Level, Reads(v) PROVE Added'
  <2>1. Filtered' /\ ticks' = ticks + 1
    BY <1>2, TakenIs DEF Reads
  <2> QED BY <1>2, <2>1, AddedLine
<1>3. CASE Idle
  BY <1>3, NothingAdded DEF Idle, traces
<1> QED BY <1>1, <1>2, <1>3, NextIs DEF Filtered

LEMMA AllOfTraces == Spec => [](Filtered /\ Pulsed /\ Added)
  BY FilteredInit, PulsedInit, AddedInit, FilteredNext, PulsedNext, AddedNext, PTL DEF Spec

LEMMA AddedIsWhole == Filtered /\ Pulsed /\ Added => TracesAreWhole
<1> SUFFICES ASSUME Filtered, Pulsed, Added PROVE TracesAreWhole
  OBVIOUS
<1>1. total_joules = OnceIn(Whole) /\ total_time = Cardinality(Whole) /\ trace = Len(ends)
  BY DEF Added
<1>2. Len(starts) \in {Len(ends), Len(ends) + 1}
  BY TracesAre
<1>3. DOMAIN NoEnergy = 1..(MaxLines + 1)
  BY DEF NoEnergy
<1> QED BY <1>1, <1>2, <1>3 DEF TracesAreWhole, Whole, OnceIn

\* The totals hold the lines of every trace that ended, each once and none of a trace that did not
\* end (dump_watts_ddr4.c:96-161).
THEOREM EveryTraceIsWhole == Spec => []TracesAreWhole
  BY AddedIsWhole, AllOfTraces, PTL

LEMMA TracesAreTyped == Filtered /\ Pulsed /\ Added => TypeOK
<1> SUFFICES ASSUME Filtered, Pulsed, Added PROVE TypeOK
  OBVIOUS
<1>1. /\ filter \in BOOLEAN /\ tool \in Tools /\ header \in BOOLEAN /\ rate \in Rates
      /\ p \in {"off", "header", "loop", "ended", "spins", "killed"}
      /\ q \in {"header", "loop", "ended", "spins"}
      /\ last \in Level \X Level /\ prev \in Level
      /\ raw \in Seq(Level) /\ out \in Seq(Level)
  BY DEF Filtered, Chain
<1>2. ticks \in 0..(MaxLines + 1) /\ ticks \in Nat /\ MaxLines \in Nat
  BY LinesAreFew, TracesAssumption DEF Filtered, Chain
<1>3. /\ state \in {"NONE", "DTR_START", "IN_TRACE", "DTR_STOP"} /\ time_in_state \in 0..threshold
      /\ starts \in Seq(1..ticks) /\ ends \in Seq(1..ticks)
  BY DEF Pulsed, Paced
<1>4. total_time \in 0..ticks
  <2>1. IsFiniteSet(1..ticks) /\ Cardinality(1..ticks) = ticks /\ Whole \subseteq 1..ticks
    <3>1. ticks - 1 + 1 = ticks /\ 1 =< ticks + 1
      BY <1>2
    <3> QED BY <1>2, <3>1, SpanIs DEF Added
  <2>2. IsFiniteSet(Whole) /\ Cardinality(Whole) =< ticks
    BY <2>1, FS_Subset
  <2>3. Cardinality(Whole) \in Nat
    BY <2>2, FS_CardinalityType
  <2> QED BY <1>2, <2>2, <2>3 DEF Added
<1>5. trace \in Nat /\ trace_ticks \in 0..ticks
  BY TracesAre DEF Added
<1>6. {trace_joules, total_joules} \subseteq [1..(MaxLines + 1) -> Nat]
  BY DEF Added, OnceIn
<1> QED BY <1>1, <1>2, <1>3, <1>4, <1>5, <1>6 DEF TypeOK

\* Every variable keeps its type; no time is longer than what was read.
THEOREM TracesTypeCorrect == Spec => []TypeOK
  BY TracesAreTyped, AllOfTraces, PTL

=============================================================================
