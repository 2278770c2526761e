--------------------------- MODULE WattsupProofs ---------------------------
(***************************************************************************)
(* Theorems about the drivers of the meter.                                *)
(***************************************************************************)
EXTENDS Wattsup, FiniteSetTheorems, WellFoundedInduction, TLAPS

-----------------------------------------------------------------------------
(***************************************************************************)
(* The steps of a script.                                                  *)
(***************************************************************************)
StartAgain == [wu_start_log EXCEPT !.strict = FALSE]
Starts == {wu_start_log, StartAgain}
Stops == {wu_stop_log, wu_stop_external_log}
Loops == {wu_read_data, wu_read}
Shows == {wu_show_header, wu_show_cal, wu_show_interval, wu_show_mode, wu_show_user}
Stores == {wu_write_interval, wu_write_mode, wu_write_user}
Exchanges == Shows \cup Stores \cup Starts \cup Stops \cup {wu_clear}
Failures == {Invalid, NullValue, Overrun}
Steps == Exchanges \cup Failures \cup Loops
ResetSteps == Stops \cup {wu_clear, StartAgain, wu_read_data}

\* A log is started to be read, and stopped when it was; only the show of the mode
\* does not wait before it reads, and it comes once.
Ordered(s) ==
  /\ \A k \in 1..Len(s) : s[k] \in Starts => k < Len(s) /\ s[k + 1] \in Loops
  /\ \A k \in 1..Len(s) : s[k] \in Loops => k < Len(s) /\ s[k + 1] \in Stops
  /\ \A k, m \in 1..Len(s) : s[k] \in Loops /\ s[m] \in Loops => k = m
  /\ \A k, m \in 1..Len(s) : s[k] = wu_show_mode /\ s[m] = wu_show_mode => k = m

\* Nothing comes behind the stop of a log, but in one that was reset.
Closing(s) == \A k \in 1..Len(s) : s[k] \in Stops => k = Len(s)
Resetting(s) == \A k \in 1..Len(s) : s[k] \in ResetSteps

Busy == {"write", "sleep", "read", "rest", "pause"}
Early == {"args", "open", "setup"}

Scripted ==
  /\ script \in Seq(Steps) /\ Ordered(script)
  /\ IF reset THEN Resetting(script) ELSE Closing(script)

\* Where the program is in the first step.
AtStep ==
  /\ pc \in Busy => script # <<>>
  /\ pc = "write" => Op \in Exchanges \cup Failures
  /\ pc = "sleep" => Op \in Exchanges /\ Op.sleeps
  /\ pc = "read" => Op \in Loops \/ (Op \in Exchanges /\ Op.reads)
  /\ pc = "pause" => Op \in Loops
  /\ pc = "rest" => Op = wu_read /\ string # <<>>
  /\ pc = "closed" => script = <<>>
  /\ pc \in Early => script = <<>> /\ retry = 0 /\ i = 0 /\ ret = 0 /\ ~reset /\ print = Nothing

\* The types, by who changes what.
Running ==
  /\ program \in Programs /\ request \in Requests[program]
  /\ pc \in Busy \cup Early \cup {"closed", "refused", "crashed", "killed"}
  /\ fd \in {"none", "meter", "broken", "stdin"}
  /\ retry \in 0..(wu_max_retry + 1) /\ i \in Nat /\ ret \in {0, -1}
Reading ==
  /\ done_running \in BOOLEAN /\ got \in 0..ReadMax
  /\ string \in Seq(Pieces) /\ Len(string) <= ReadMax
  /\ print = Nothing \/ print \in [as : Kinds \ {"R", "?"}, kind : Kinds]
Metering ==
  /\ log \in BOOLEAN /\ settings \in [{"S", "M", "U"} -> Texts]
  /\ line \in Seq(Pieces) /\ Len(line) <= LineMax
  /\ owed \in Kinds \cup {""} /\ pending \in Seq(Exchanges)
Remembering ==
  runs \in 1..MaxRuns /\ faults \in 0..MaxFaults /\ calm \in BOOLEAN /\ reset \in BOOLEAN

Typed == Running /\ Reading /\ Metering /\ Remembering

\* While the loop is to come there are records and retries left.
Counted ==
  /\ request.count > 0 => i <= request.count
  /\ Contains(script, wu_read_data) => retry <= wu_max_retry /\ (request.count > 0 => i < request.count)
  /\ pc \in Busy \cup {"closed"} /\ ret = 0 /\ ~request.noData /\ request.count > 0 =>
       Contains(script, wu_read_data) \/ i = request.count \/ retry > wu_max_retry

Followed == Typed /\ Scripted /\ AtStep /\ Counted
-----------------------------------------------------------------------------
(***************************************************************************)
(* Facts about steps.                                                      *)
(***************************************************************************)
LEMMA ExchangeIs ==
  ASSUME NEW x \in Exchanges
  PROVE  /\ "cmd" \in DOMAIN x
         /\ x.cmd \in {"H", "F", "S", "M", "U", "L", "R"} /\ x.sub \in {"R", "W"}
         /\ x.field \in Texts
         /\ x.sleeps \in BOOLEAN /\ x.reads \in BOOLEAN /\ x.strict \in BOOLEAN
<1> DEFINE T == [cmd : {"H", "F", "S", "M", "U", "L", "R"}, sub : {"R", "W"}, field : Texts,
                 sleeps : BOOLEAN, reads : BOOLEAN, strict : BOOLEAN]
<1>0. NoText \in Texts /\ UD("asked") \in Texts /\ UD("earlier") \in Texts
  BY DEF NoText, UD, Texts
<1>1. x \in T
  <2>1. wu_show_header \in T /\ wu_show_cal \in T /\ wu_show_interval \in T
    BY <1>0 DEF Exchange, wu_show_header, wu_show_cal, wu_show_interval
  <2>2. wu_show_mode \in T /\ wu_show_user \in T /\ wu_clear \in T
    BY <1>0 DEF Exchange, wu_show_mode, wu_show_user, wu_clear
  <2>3. wu_write_interval \in T /\ wu_write_mode \in T /\ wu_write_user \in T
    BY <1>0 DEF Exchange, wu_write_interval, wu_write_mode, wu_write_user
  <2>4. wu_start_log \in T /\ wu_stop_log \in T
    BY <1>0 DEF Exchange, wu_start_log, wu_stop_log
  <2>5. StartAgain \in T /\ wu_stop_external_log \in T
    BY <2>4 DEF StartAgain, wu_stop_external_log
  <2> HIDE DEF T
  <2> QED BY <2>1, <2>2, <2>3, <2>4, <2>5 DEF Exchanges, Shows, Stores, Starts, Stops
<1>2. DOMAIN x = {"cmd", "sub", "field", "sleeps", "reads", "strict"}
  BY <1>1
<1> QED BY <1>1, <1>2

LEMMA MarkIs ==
  ASSUME NEW x \in Failures \cup Loops
  PROVE  "cmd" \notin DOMAIN x /\ x \notin Exchanges
<1> DEFINE T == [step : {"data", "EINVAL", "strtol(NULL)", "isdigit past the end", "simple"}]
<1>1. x \in T
  <2>1. Invalid \in T /\ NullValue \in T /\ Overrun \in T /\ wu_read_data \in T /\ wu_read \in T
    BY DEF Invalid, NullValue, Overrun, wu_read_data, wu_read
  <2> HIDE DEF T
  <2> QED BY <2>1 DEF Failures, Loops
<1>2. DOMAIN x = {"step"}
  BY <1>1
<1>3. "cmd" \notin DOMAIN x
  BY <1>2
<1> QED BY <1>3, ExchangeIs

LEMMA LoopIs ==
  /\ wu_read_data # wu_read /\ wu_read_data \notin Failures /\ wu_read \notin Failures
  /\ wu_read_data.step = "data" /\ wu_read.step = "simple"
  BY DEF Failures, Invalid, NullValue, Overrun, wu_read_data, wu_read

\* The meter tells the exchanges by what it is sent.
LEMMA KindsOfExchange ==
  ASSUME NEW x \in Exchanges
  PROVE  /\ x.cmd = "R" <=> x = wu_clear
         /\ x.cmd = "L" /\ x.sub = "W" <=> x \in Starts
         /\ x.cmd = "L" /\ x.sub = "R" <=> x \in Stops
         /\ ~x.sleeps <=> x = wu_show_mode
         /\ x \in Starts => x.sleeps /\ ~x.reads
         /\ x \in Stores => x.sleeps /\ ~x.reads /\ x.cmd \notin {"L", "R"}
         /\ x \in Shows => x.reads /\ x.sub = "R" /\ x.cmd \notin {"L", "R"}
         /\ x.sub = "W" /\ x.cmd \in {"S", "M", "U"} => x.field = UD("asked")
<1>1. \A y \in Starts : y.cmd = "L" /\ y.sub = "W" /\ y.sleeps /\ ~y.reads
  BY DEF Starts, StartAgain, wu_start_log, Exchange
<1>2. \A y \in Stops : y.cmd = "L" /\ y.sub = "R" /\ y.sleeps
  BY DEF Stops, wu_stop_log, wu_stop_external_log, Exchange
<1>3. wu_clear.cmd = "R" /\ wu_clear.sleeps
  BY DEF wu_clear, Exchange
<1>4. /\ wu_show_header.cmd = "H" /\ wu_show_cal.cmd = "F" /\ wu_show_interval.cmd = "S"
      /\ wu_show_mode.cmd = "M" /\ wu_show_user.cmd = "U"
      /\ wu_show_header.sleeps /\ wu_show_cal.sleeps /\ wu_show_interval.sleeps
      /\ ~wu_show_mode.sleeps /\ wu_show_user.sleeps
      /\ \A y \in Shows : y.reads /\ y.sub = "R"
  BY DEF Shows, wu_show_header, wu_show_cal, wu_show_interval, wu_show_mode, wu_show_user, Exchange
<1>5. /\ wu_write_interval.cmd = "S" /\ wu_write_mode.cmd = "M" /\ wu_write_user.cmd = "U"
      /\ wu_write_interval.field = UD("asked") /\ wu_write_mode.field = UD("asked") /\ wu_write_user.sub = "R"
      /\ \A y \in Stores : y.sleeps /\ ~y.reads
  BY DEF Stores, wu_write_interval, wu_write_mode, wu_write_user, Exchange
<1>6. CASE x \in Shows
  BY <1>1, <1>2, <1>3, <1>4, <1>5, <1>6 DEF Shows, Stores
<1>7. CASE x \in Stores
  BY <1>1, <1>2, <1>3, <1>4, <1>5, <1>7 DEF Shows, Stores
<1>8. CASE x \in Starts \cup Stops \cup {wu_clear}
  BY <1>1, <1>2, <1>3, <1>4, <1>5, <1>8 DEF Shows, Stores
<1> QED BY <1>6, <1>7, <1>8 DEF Exchanges

-----------------------------------------------------------------------------
(***************************************************************************)
(* Facts about scripts.                                                    *)
(***************************************************************************)
LEMMA HeadAndTail ==
  ASSUME NEW S, NEW s \in Seq(S), s # <<>>
  PROVE  /\ Len(s) \in Nat \ {0} /\ Head(s) = s[1] /\ Head(s) \in S
         /\ Tail(s) \in Seq(S) /\ Len(Tail(s)) = Len(s) - 1
         /\ \A k \in 1..(Len(s) - 1) : Tail(s)[k] = s[k + 1]
  OBVIOUS

LEMMA EmptyIs == (\A S : <<>> \in Seq(S)) /\ Len(<<>>) = 0
  OBVIOUS

LEMMA PlacesOf ==
  ASSUME NEW S, NEW s \in Seq(S)
  PROVE  Len(s) \in Nat /\ 1..Len(s) \subseteq Nat /\ \A k \in 1..Len(s) : s[k] \in S
  OBVIOUS

LEMMA Containing ==
  ASSUME NEW S, NEW s \in Seq(S), s # <<>>, NEW x
  PROVE  Contains(s, x) <=> x = Head(s) \/ Contains(Tail(s), x)
<1>1. Contains(s, x) <=> \E k \in 1..Len(s) : s[k] = x
  BY DEF Contains
<1>2. Contains(Tail(s), x) <=> \E k \in 1..(Len(s) - 1) : s[k + 1] = x
  BY HeadAndTail DEF Contains
<1>3. (\E k \in 1..Len(s) : s[k] = x) <=> s[1] = x \/ \E k \in 1..(Len(s) - 1) : s[k + 1] = x
  <2>1. Len(s) \in Nat \ {0}
    BY HeadAndTail
  <2>2. ASSUME NEW k \in 1..Len(s), s[k] = x, k # 1 PROVE \E m \in 1..(Len(s) - 1) : s[m + 1] = x
    <3>1. k - 1 \in 1..(Len(s) - 1) /\ (k - 1) + 1 = k
      BY <2>1, <2>2
    <3> QED BY <2>2, <3>1
  <2>3. ASSUME NEW k \in 1..(Len(s) - 1), s[k + 1] = x PROVE \E m \in 1..Len(s) : s[m] = x
    <3>1. k + 1 \in 1..Len(s)
      BY <2>1
    <3> QED BY <2>3, <3>1
  <2>4. 1 \in 1..Len(s)
    BY <2>1
  <2> QED BY <2>2, <2>3, <2>4
<1> QED BY <1>1, <1>2, <1>3, HeadAndTail

\* What a script promises it promises of what is left.
LEMMA TailIsOrdered ==
  ASSUME NEW s \in Seq(Steps), s # <<>>, Ordered(s)
  PROVE  Ordered(Tail(s))
<1> DEFINE n == Len(s) - 1
<1>1. /\ n \in Nat /\ Len(Tail(s)) = n /\ \A k \in 1..n : Tail(s)[k] = s[k + 1]
      /\ \A k \in 1..n : k + 1 \in 1..Len(s)
  BY HeadAndTail
<1>2. \A k \in 1..n : s[k + 1] \in Starts => k < n /\ s[(k + 1) + 1] \in Loops
  BY <1>1 DEF Ordered
<1>3. \A k \in 1..n : s[k + 1] \in Loops => k < n /\ s[(k + 1) + 1] \in Stops
  BY <1>1 DEF Ordered
<1>4. \A k, m \in 1..n : s[k + 1] \in Loops /\ s[m + 1] \in Loops => k = m
  BY <1>1 DEF Ordered
<1>5. \A k, m \in 1..n : s[k + 1] = wu_show_mode /\ s[m + 1] = wu_show_mode => k = m
  BY <1>1 DEF Ordered
<1>6. \A k \in 1..n : k < n => k + 1 \in 1..n
  BY <1>1
<1> HIDE DEF n
<1> QED BY <1>1, <1>2, <1>3, <1>4, <1>5, <1>6 DEF Ordered

LEMMA TailIsClosing ==
  ASSUME NEW s \in Seq(Steps), s # <<>>
  PROVE  (Closing(s) => Closing(Tail(s))) /\ (Resetting(s) => Resetting(Tail(s)))
<1> DEFINE n == Len(s) - 1
<1>1. /\ n \in Nat /\ Len(Tail(s)) = n /\ \A k \in 1..n : Tail(s)[k] = s[k + 1]
      /\ Len(s) = n + 1 /\ \A k \in 1..n : k + 1 \in 1..Len(s)
  BY HeadAndTail
<1> HIDE DEF n
<1> QED BY <1>1 DEF Closing, Resetting

-----------------------------------------------------------------------------
(***************************************************************************)
(* The script of main is ordered.                                          *)
(***************************************************************************)
EarlySteps == Shows \cup Stores \cup Failures \cup {wu_clear}
Free(s) == \A k \in 1..Len(s) : s[k] # wu_show_mode
Once(s) == \A k, m \in 1..Len(s) : s[k] = wu_show_mode /\ s[m] = wu_show_mode => k = m

LEMMA StepsDiffer ==
  /\ EarlySteps \cap (Starts \cup Stops \cup Loops) = {}
  /\ Starts \cap (Stops \cup Loops) = {} /\ Stops \cap Loops = {}
  /\ wu_clear \notin Shows \cup Stores \cup Starts \cup Stops \cup Loops \cup Failures
  /\ Shows \cap Stores = {} /\ (Shows \cup Stores) \cap Failures = {}
  /\ Failures \cap (Starts \cup Stops \cup Loops) = {}
<1>1. /\ Shows \subseteq Exchanges /\ Stores \subseteq Exchanges /\ Starts \subseteq Exchanges
      /\ Stops \subseteq Exchanges /\ wu_clear \in Exchanges
  BY DEF Exchanges
<1>2. \A x \in Failures \cup Loops : x \notin Exchanges
  BY MarkIs
<1>3. Failures \cap Loops = {}
  BY LoopIs DEF Loops
<1>4. \A x \in Exchanges : /\ x = wu_clear <=> x.cmd = "R"
                           /\ x \in Starts <=> x.cmd = "L" /\ x.sub = "W"
                           /\ x \in Stops <=> x.cmd = "L" /\ x.sub = "R"
                           /\ x \in Shows => x.reads /\ x.cmd \notin {"L", "R"}
                           /\ x \in Stores => ~x.reads /\ x.cmd \notin {"L", "R"}
  BY KindsOfExchange
<1>5. /\ wu_clear \notin Shows \cup Stores \cup Starts \cup Stops
      /\ Shows \cap (Starts \cup Stops \cup Stores) = {} /\ Stores \cap (Starts \cup Stops) = {}
      /\ Starts \cap Stops = {}
  BY <1>1, <1>4
<1>6. /\ \A x \in Shows \cup Stores \cup Starts \cup Stops \cup {wu_clear} : x \notin Failures \cup Loops
  BY <1>1, <1>2
<1> QED BY <1>3, <1>5, <1>6 DEF EarlySteps

LEMMA Concatenation ==
  ASSUME NEW S, NEW a \in Seq(S), NEW b \in Seq(S)
  PROVE  /\ a \o b \in Seq(S) /\ Len(a) \in Nat /\ Len(b) \in Nat /\ Len(a \o b) = Len(a) + Len(b)
         /\ \A k \in 1..Len(a) : (a \o b)[k] = a[k]
         /\ \A k \in 1..Len(b) : (a \o b)[Len(a) + k] = b[k]
         /\ \A k \in 1..(Len(a) + Len(b)) : k \in 1..Len(a) \/ k - Len(a) \in 1..Len(b)
         /\ \A k \in 1..(Len(a) + Len(b)) : k \notin 1..Len(a) => (a \o b)[k] = b[k - Len(a)]
  OBVIOUS

LEMMA ConcatenationIs ==
  \A S : \A a, b \in Seq(S) :
    /\ a \o b \in Seq(S) /\ Len(b) \in Nat /\ Len(a \o b) = Len(a) + Len(b)
    /\ \A k \in 1..Len(a) : (a \o b)[k] = a[k]
    /\ \A k \in 1..Len(b) : (a \o b)[Len(a) + k] = b[k]
  BY Concatenation

LEMMA ContainsConcat ==
  ASSUME NEW S, NEW a \in Seq(S), NEW b \in Seq(S), NEW x
  PROVE  Contains(a \o b, x) <=> Contains(a, x) \/ Contains(b, x)
<1>1. ASSUME Contains(a \o b, x) PROVE Contains(a, x) \/ Contains(b, x)
  BY <1>1, Concatenation DEF Contains
<1>2. ASSUME Contains(a, x) PROVE Contains(a \o b, x)
  <2>1. PICK k \in 1..Len(a) : a[k] = x
    BY <1>2 DEF Contains
  <2>2. k \in 1..Len(a \o b) /\ (a \o b)[k] = x
    BY <2>1, Concatenation
  <2> QED BY <2>2 DEF Contains
<1>3. ASSUME Contains(b, x) PROVE Contains(a \o b, x)
  <2>1. PICK k \in 1..Len(b) : b[k] = x
    BY <1>3 DEF Contains
  <2>2. Len(a) + k \in 1..Len(a \o b) /\ (a \o b)[Len(a) + k] = x
    BY <2>1, Concatenation
  <2> QED BY <2>2 DEF Contains
<1> QED BY <1>1, <1>2, <1>3

LEMMA OnceConcat ==
  ASSUME NEW S, NEW a \in Seq(S), NEW b \in Seq(S)
  PROVE  /\ Free(a) /\ Free(b) => Free(a \o b)
         /\ Free(a) /\ Once(b) => Once(a \o b)
         /\ Once(a) /\ Free(b) => Once(a \o b)
<1>1. /\ Len(a) \in Nat /\ Len(b) \in Nat /\ Len(a \o b) = Len(a) + Len(b)
      /\ \A k \in 1..(Len(a) + Len(b)) : \/ k \in 1..Len(a) /\ (a \o b)[k] = a[k]
                                         \/ k - Len(a) \in 1..Len(b) /\ (a \o b)[k] = b[k - Len(a)]
  BY Concatenation
<1>2. Free(a) /\ Free(b) => Free(a \o b)
  BY <1>1 DEF Free
<1>3. ASSUME Free(a), Once(b) PROVE Once(a \o b)
  <2>1. \A k \in 1..(Len(a) + Len(b)) : (a \o b)[k] = wu_show_mode =>
           k - Len(a) \in 1..Len(b) /\ b[k - Len(a)] = wu_show_mode
    BY <1>1, <1>3 DEF Free
  <2> SUFFICES ASSUME NEW k \in 1..(Len(a) + Len(b)), NEW m \in 1..(Len(a) + Len(b)),
                      (a \o b)[k] = wu_show_mode, (a \o b)[m] = wu_show_mode
               PROVE  k = m
    BY <1>1 DEF Once
  <2>2. k - Len(a) = m - Len(a)
    BY <1>3, <2>1 DEF Once
  <2> QED BY <1>1, <2>2
<1>4. ASSUME Once(a), Free(b) PROVE Once(a \o b)
  <2>1. \A k \in 1..(Len(a) + Len(b)) : (a \o b)[k] = wu_show_mode =>
           k \in 1..Len(a) /\ a[k] = wu_show_mode
    BY <1>1, <1>4 DEF Free
  <2> QED BY <1>1, <1>4, <2>1 DEF Once
<1> QED BY <1>2, <1>3, <1>4

\* What reads a log comes behind everything else.
LogSteps == {<<>>, <<Invalid>>, <<wu_start_log, wu_read_data, wu_stop_log>>}

LEMMA EarlyThenLog ==
  ASSUME NEW e \in Seq(EarlySteps), Once(e), NEW t \in LogSteps
  PROVE  e \o t \in Seq(Steps) /\ Ordered(e \o t) /\ Closing(e \o t)
<1> DEFINE s == e \o t
<1> SUFFICES s \in Seq(Steps) /\ Ordered(s) /\ Closing(s)
  OBVIOUS
<1>1. e \in Seq(Steps) /\ t \in Seq(Steps)
  <2>1. EarlySteps \subseteq Steps
    BY DEF EarlySteps, Steps, Exchanges
  <2>2. /\ Invalid \in Steps /\ wu_start_log \in Steps /\ wu_read_data \in Steps /\ wu_stop_log \in Steps
    BY DEF Steps, Exchanges, Failures, Starts, Stops, Loops
  <2>3. /\ <<>> \in Seq(Steps) /\ <<Invalid>> \in Seq(Steps)
        /\ <<wu_start_log, wu_read_data, wu_stop_log>> \in Seq(Steps)
    <3> HIDE DEF Steps
    <3> QED BY <2>2
  <2>4. t \in Seq(Steps)
    BY <2>3 DEF LogSteps
  <2>5. e \in Seq(Steps)
    BY <2>1
  <2> QED BY <2>4, <2>5
<1>2. /\ s \in Seq(Steps) /\ Len(e) \in Nat /\ Len(s) = Len(e) + Len(t)
      /\ \A k \in 1..Len(e) : s[k] = e[k]
      /\ \A k \in 1..Len(t) : s[Len(e) + k] = t[k]
      /\ \A k \in 1..Len(s) : k \notin 1..Len(e) => k - Len(e) \in 1..Len(t) /\ s[k] = t[k - Len(e)]
  BY <1>1, Concatenation
<1>3. \A k \in 1..Len(e) : s[k] \notin Starts \cup Stops \cup Loops
  BY <1>2, StepsDiffer
<1>4. Once(s)
  <2>1. Free(t)
    <3>1. wu_show_mode \in EarlySteps /\ wu_show_mode \notin Failures
      BY StepsDiffer DEF EarlySteps, Shows
    <3>2. wu_show_mode \notin {Invalid, wu_start_log, wu_read_data, wu_stop_log}
      BY <3>1, StepsDiffer DEF Starts, Stops, Loops, Failures
    <3> QED BY <3>2 DEF Free, LogSteps
  <2> QED BY <1>1, <2>1, OnceConcat
<1>5. CASE t = <<>>
  <2>1. \A k \in 1..Len(s) : s[k] \notin Starts \cup Stops \cup Loops
    BY <1>2, <1>3, <1>5
  <2> HIDE DEF s
  <2> QED BY <1>2, <1>4, <2>1 DEF Ordered, Closing, Once
<1>6. CASE t = <<Invalid>>
  <2>1. Invalid \notin Starts \cup Stops \cup Loops
    BY StepsDiffer DEF Failures
  <2>2. \A k \in 1..Len(s) : s[k] \notin Starts \cup Stops \cup Loops
    BY <1>2, <1>3, <1>6, <2>1
  <2> HIDE DEF s
  <2> QED BY <1>2, <1>4, <2>2 DEF Ordered, Closing, Once
<1>7. CASE t = <<wu_start_log, wu_read_data, wu_stop_log>>
  <2> DEFINE n == Len(e)
  <2>1. /\ Len(s) = n + 3 /\ s[n + 1] = wu_start_log /\ s[n + 2] = wu_read_data /\ s[n + 3] = wu_stop_log
    BY <1>2, <1>7
  <2>2. \A k \in 1..Len(s) : k \in 1..n \/ k = n + 1 \/ k = n + 2 \/ k = n + 3
    BY <1>2, <2>1
  <2>3. /\ wu_start_log \in Starts /\ wu_read_data \in Loops /\ wu_stop_log \in Stops
    BY DEF Starts, Loops, Stops
  <2>4. \A k \in 1..Len(s) : /\ s[k] \in Starts => k = n + 1
                             /\ s[k] \in Loops => k = n + 2
                             /\ s[k] \in Stops => k = n + 3
    BY <1>3, <2>1, <2>2, <2>3, StepsDiffer
  <2>5. n \in Nat /\ (n + 1) + 1 = n + 2 /\ (n + 2) + 1 = n + 3
    BY <1>2
  <2>6. n + 1 < Len(s) /\ n + 2 < Len(s)
    BY <2>1, <2>5
  <2> HIDE DEF s, n
  <2> QED BY <1>2, <1>4, <2>1, <2>3, <2>4, <2>5, <2>6 DEF Ordered, Closing, Once
<1> QED BY <1>5, <1>6, <1>7 DEF LogSteps


LEMMA FreeSegments ==
  ASSUME NEW r \in wu_options
  PROVE  /\ wu_store_interval(r) \in Seq(EarlySteps) /\ Free(wu_store_interval(r))
         /\ wu_store_mode(r) \in Seq(EarlySteps) /\ Free(wu_store_mode(r))
         /\ wu_store_user(r) \in Seq(EarlySteps) /\ Free(wu_store_user(r))
         /\ r.interval = "valued" => wu_store_interval(r) = <<wu_write_interval>>
         /\ r.mode = "valued" => wu_store_mode(r) = <<wu_write_mode>>
<1> DEFINE Some == EarlySteps \ {wu_show_mode}
<1>1. /\ NullValue \in Some /\ Invalid \in Some /\ Overrun \in Some
      /\ wu_write_interval \in Some /\ wu_write_mode \in Some /\ wu_write_user \in Some
  <2>1. wu_show_mode \in Shows
    BY DEF Shows
  <2> QED BY <2>1, StepsDiffer DEF EarlySteps, Failures, Stores
<1>2. /\ r.interval \in {"absent", "bare", "junk", "valued"}
      /\ r.mode \in {"absent", "bare", "junk", "valued"}
      /\ r.user \in {"absent", "bare", "junk", "valued"}
  BY DEF wu_options, Value
<1>3. \A q \in Seq(Some) : q \in Seq(EarlySteps) /\ Free(q)
  BY DEF Free
<1> HIDE DEF Some
<1>4. ASSUME NEW v \in {"absent", "bare", "junk", "valued"}, NEW x \in Some, NEW a \in Seq(Some), NEW b \in Seq(Some)
      PROVE  wu_check_store(v, x, a, b) \in Seq(Some) /\ (v = "valued" => wu_check_store(v, x, a, b) = b)
  BY DEF wu_check_store
<1>5. /\ <<Invalid>> \in Seq(Some) /\ <<wu_write_interval>> \in Seq(Some) /\ <<wu_write_mode>> \in Seq(Some)
      /\ <<Overrun, Invalid>> \in Seq(Some) /\ <<Overrun, wu_write_user>> \in Seq(Some)
  BY <1>1
<1>6. /\ wu_store_interval(r) \in Seq(Some) /\ wu_store_mode(r) \in Seq(Some) /\ wu_store_user(r) \in Seq(Some)
      /\ r.interval = "valued" => wu_store_interval(r) = <<wu_write_interval>>
      /\ r.mode = "valued" => wu_store_mode(r) = <<wu_write_mode>>
  <2>1. /\ wu_store_interval(r) \in Seq(Some)
        /\ r.interval = "valued" => wu_store_interval(r) = <<wu_write_interval>>
    <3> DEFINE bad == <<Invalid>>
               good == <<wu_write_interval>>
    <3>1. wu_store_interval(r) = wu_check_store(r.interval, NullValue, bad, good)
      BY DEF wu_store_interval
    <3>2. bad \in Seq(Some) /\ good \in Seq(Some)
      BY <1>5
    <3>3. r.interval = "valued" => wu_store_interval(r) = good
      BY <3>1 DEF wu_check_store
    <3> HIDE DEF bad, good
    <3>4. wu_check_store(r.interval, NullValue, bad, good) \in Seq(Some)
      BY <1>1, <1>2, <1>4, <3>2
    <3> QED BY <3>1, <3>3, <3>4 DEF good
  <2>2. wu_store_mode(r) \in Seq(Some) /\ (r.mode = "valued" => wu_store_mode(r) = <<wu_write_mode>>)
    <3> DEFINE bad == <<Invalid>>
               good == <<wu_write_mode>>
    <3>1. wu_store_mode(r) = wu_check_store(r.mode, NullValue, bad, good)
      BY DEF wu_store_mode
    <3>2. bad \in Seq(Some) /\ good \in Seq(Some)
      BY <1>5
    <3>3. r.mode = "valued" => wu_store_mode(r) = good
      BY <3>1 DEF wu_check_store
    <3> HIDE DEF bad, good
    <3>4. wu_check_store(r.mode, NullValue, bad, good) \in Seq(Some)
      BY <1>1, <1>2, <1>4, <3>2
    <3> QED BY <3>1, <3>3, <3>4 DEF good
  <2>3. wu_store_user(r) \in Seq(Some)
    BY <1>1, <1>2, <1>4, <1>5 DEF wu_store_user
  <2> QED BY <2>1, <2>2, <2>3
<1> QED BY <1>3, <1>6

LEMMA ShowInfoIs ==
  ASSUME NEW r
  PROVE  ShowInfo(r) \in Seq(EarlySteps) /\ Once(ShowInfo(r))
<1> DEFINE Some == EarlySteps \ {wu_show_mode}
<1>1. /\ wu_show_cal \in Some /\ wu_show_header \in Some /\ wu_show_interval \in Some /\ wu_show_user \in Some
  <2>1. wu_show_mode.cmd = "M" /\ wu_show_cal.cmd = "F" /\ wu_show_header.cmd = "H"
        /\ wu_show_interval.cmd = "S" /\ wu_show_user.cmd = "U"
    BY DEF wu_show_mode, wu_show_cal, wu_show_header, wu_show_interval, wu_show_user, Exchange
  <2> QED BY <2>1 DEF EarlySteps, Shows
<1>2. \A q \in Seq(Some) : q \in Seq(EarlySteps) /\ Free(q)
  BY DEF Free
<1> HIDE DEF Some
<1>3. ASSUME NEW b, NEW x \in Some PROVE When(b, x) \in Seq(EarlySteps) /\ Free(When(b, x))
  <2>1. When(b, x) \in Seq(Some)
    BY DEF When
  <2> QED BY <1>2, <2>1
<1>4. ASSUME NEW b PROVE When(b, wu_show_mode) \in Seq(EarlySteps) /\ Once(When(b, wu_show_mode))
  <2>1. wu_show_mode \in EarlySteps
    BY DEF EarlySteps, Shows
  <2>2. When(b, wu_show_mode) \in Seq(EarlySteps)
    <3> HIDE DEF EarlySteps
    <3> QED BY <2>1 DEF When
  <2>3. Len(When(b, wu_show_mode)) \in {0, 1}
    BY DEF When
  <2>4. Once(When(b, wu_show_mode))
    BY <2>3 DEF Once
  <2> QED BY <2>2, <2>4
<1> DEFINE read(v) == r.all \/ (~r.setOnly /\ v # "absent")
           a == When(r.all \/ r.cal, wu_show_cal)
           b == When(r.all \/ r.header, wu_show_header)
           c == When(read(r.interval), wu_show_interval)
           d == When(read(r.mode), wu_show_mode)
           u == When(read(r.user), wu_show_user)
<1>5. ShowInfo(r) = (((a \o b) \o c) \o d) \o u
  BY DEF ShowInfo
<1>6. /\ a \in Seq(EarlySteps) /\ Free(a) /\ b \in Seq(EarlySteps) /\ Free(b)
      /\ c \in Seq(EarlySteps) /\ Free(c) /\ u \in Seq(EarlySteps) /\ Free(u)
      /\ d \in Seq(EarlySteps) /\ Once(d)
  BY <1>1, <1>3, <1>4
<1> HIDE DEF a, b, c, d, u
<1>7. a \o b \in Seq(EarlySteps) /\ Free(a \o b)
  BY <1>6, OnceConcat, Concatenation
<1>8. (a \o b) \o c \in Seq(EarlySteps) /\ Free((a \o b) \o c)
  BY <1>6, <1>7, OnceConcat, Concatenation
<1>9. ((a \o b) \o c) \o d \in Seq(EarlySteps) /\ Once(((a \o b) \o c) \o d)
  BY <1>6, <1>8, OnceConcat, Concatenation
<1>10. (((a \o b) \o c) \o d) \o u \in Seq(EarlySteps) /\ Once((((a \o b) \o c) \o d) \o u)
  BY <1>6, <1>9, OnceConcat, Concatenation
<1> QED BY <1>5, <1>10

LEMMA LogDataIs ==
  ASSUME NEW r
  PROVE  /\ LogData(r) \in LogSteps
         /\ ~r.noData /\ ~r.badCount => LogData(r) = <<wu_start_log, wu_read_data, wu_stop_log>>
  BY DEF LogData, LogSteps


\* The script of each driver: what is asked for is in it, in an order that works.
MainPromises(s, r) ==
  /\ s \in Seq(Steps) /\ Ordered(s) /\ Closing(s)
  /\ ~r.noData /\ r.count > 0 => Contains(s, wu_read_data)
  /\ r.interval = "valued" => Contains(s, wu_write_interval)
  /\ r.mode = "valued" => Contains(s, wu_write_mode)

LEMMA WattsupMainIs ==
  ASSUME NEW r \in wu_options
  PROVE  /\ MainPromises(WattsupMain(r), r)
         /\ WattsupMain(r) # <<>> /\ Head(WattsupMain(r)) = wu_clear
<1> DEFINE a == wu_store_interval(r)
           b == wu_store_mode(r)
           c == wu_store_user(r)
           d == ShowInfo(r)
           t == LogData(r)
           e1 == <<wu_clear>> \o a
           e2 == e1 \o b
           e3 == e2 \o c
           e == e3 \o d
<1>1. WattsupMain(r) = e \o t
  BY DEF WattsupMain
<1>2. /\ a \in Seq(EarlySteps) /\ Free(a) /\ b \in Seq(EarlySteps) /\ Free(b)
      /\ c \in Seq(EarlySteps) /\ Free(c) /\ d \in Seq(EarlySteps) /\ Once(d)
  BY FreeSegments, ShowInfoIs
<1>3. <<wu_clear>> \in Seq(EarlySteps) /\ Free(<<wu_clear>>)
  <2>1. wu_clear \in EarlySteps /\ wu_clear # wu_show_mode
    BY StepsDiffer DEF EarlySteps, Shows
  <2> HIDE DEF EarlySteps
  <2> QED BY <2>1 DEF Free
<1>4. r.interval = "valued" => Contains(a, wu_write_interval)
  BY FreeSegments DEF Contains
<1>5. r.mode = "valued" => Contains(b, wu_write_mode)
  BY FreeSegments DEF Contains
<1>6. ~r.noData /\ r.count > 0 => Contains(t, wu_read_data)
  <2> SUFFICES ASSUME ~r.noData, r.count > 0 PROVE Contains(t, wu_read_data)
    OBVIOUS
  <2>0. ~r.badCount
    BY DEF wu_options
  <2>1. t = <<wu_start_log, wu_read_data, wu_stop_log>>
    BY <2>0, LogDataIs
  <2>2. Len(t) = 3 /\ t[2] = wu_read_data
    BY <2>1
  <2> QED BY <2>2 DEF Contains
<1>7. t \in LogSteps
  BY LogDataIs
<1> HIDE DEF a, b, c, d, t
<1>8. e1 \in Seq(EarlySteps) /\ Free(e1) /\ (Contains(a, wu_write_interval) => Contains(e1, wu_write_interval))
  BY <1>2, <1>3, OnceConcat, Concatenation, ContainsConcat
<1>9. e1 # <<>> /\ e1[1] = wu_clear
  BY <1>2
<1> HIDE DEF e1
<1>10. /\ e2 \in Seq(EarlySteps) /\ Free(e2) /\ (Contains(b, wu_write_mode) => Contains(e2, wu_write_mode))
       /\ Contains(e1, wu_write_interval) => Contains(e2, wu_write_interval)
  BY <1>2, <1>8, OnceConcat, Concatenation, ContainsConcat
<1>11. e2 # <<>> /\ e2[1] = wu_clear
  BY <1>2, <1>8, <1>9
<1> HIDE DEF e2
<1>12. /\ e3 \in Seq(EarlySteps) /\ Free(e3) /\ (Contains(e2, wu_write_mode) => Contains(e3, wu_write_mode))
       /\ Contains(e2, wu_write_interval) => Contains(e3, wu_write_interval)
  BY <1>2, <1>10, OnceConcat, Concatenation, ContainsConcat
<1>13. e3 # <<>> /\ e3[1] = wu_clear
  BY <1>2, <1>10, <1>11
<1> HIDE DEF e3
<1>14. /\ e \in Seq(EarlySteps) /\ Once(e) /\ (Contains(e3, wu_write_mode) => Contains(e, wu_write_mode))
       /\ Contains(e3, wu_write_interval) => Contains(e, wu_write_interval)
  BY <1>2, <1>12, OnceConcat, Concatenation, ContainsConcat
<1>15. e # <<>> /\ e[1] = wu_clear
  BY <1>2, <1>12, <1>13
<1> HIDE DEF e
<1>16. e \o t \in Seq(Steps) /\ Ordered(e \o t) /\ Closing(e \o t)
  BY <1>7, <1>14, EarlyThenLog
<1>17. e \in Seq(Steps) /\ t \in Seq(Steps)
  <2>1. EarlySteps \subseteq Steps
    BY DEF EarlySteps, Steps, Exchanges
  <2>2. e \in Seq(Steps)
    BY <1>14, <2>1
  <2>3. <<>> \in Seq(EarlySteps) /\ Once(<<>>)
    BY DEF Once
  <2>4. <<>> \o t \in Seq(Steps)
    BY <1>7, <2>3, EarlyThenLog
  <2>5. <<>> \o t = t
    BY <1>7 DEF LogSteps
  <2> QED BY <2>2, <2>4, <2>5
<1>18. /\ Contains(e, wu_write_mode) => Contains(e \o t, wu_write_mode)
       /\ Contains(e, wu_write_interval) => Contains(e \o t, wu_write_interval)
       /\ Contains(t, wu_read_data) => Contains(e \o t, wu_read_data)
  BY <1>17, ContainsConcat
<1>19. e \o t # <<>> /\ Head(e \o t) = wu_clear
  <2> HIDE DEF Steps
  <2> QED BY <1>15, <1>17
<1> QED BY <1>1, <1>4, <1>5, <1>6, <1>8, <1>10, <1>12, <1>14, <1>16, <1>18, <1>19 DEF MainPromises

LEMMA BetterMainIs ==
  ASSUME NEW r \in wu_options
  PROVE  MainPromises(BetterMain(r), r)
<1> DEFINE s == WattsupMain(r)
<1>1. MainPromises(s, r) /\ s # <<>> /\ Head(s) = wu_clear
  BY WattsupMainIs
<1>2. BetterMain(r) = Tail(s)
  BY DEF BetterMain
<1> HIDE DEF s
<1>3. s \in Seq(Steps) /\ Ordered(s) /\ Closing(s)
  BY <1>1 DEF MainPromises
<1>4. Tail(s) \in Seq(Steps) /\ Ordered(Tail(s)) /\ Closing(Tail(s))
  BY <1>1, <1>3, HeadAndTail, TailIsOrdered, TailIsClosing
<1>5. wu_clear # wu_read_data /\ wu_clear # wu_write_interval /\ wu_clear # wu_write_mode
  BY StepsDiffer DEF Loops, Stores
<1>6. \A x : x # wu_clear /\ Contains(s, x) => Contains(Tail(s), x)
  BY <1>1, <1>3, Containing
<1> QED BY <1>1, <1>2, <1>4, <1>5, <1>6 DEF MainPromises

LEMMA SimpleMainIs ==
  ASSUME NEW r, r = NoOptions
  PROVE  MainPromises(SimpleMain, r) /\ SimpleMain # <<>> /\ ~Contains(SimpleMain, wu_read_data)
<1>1. /\ Len(SimpleMain) = 3 /\ SimpleMain[1] = wu_start_log /\ SimpleMain[2] = wu_read
      /\ SimpleMain[3] = wu_stop_external_log
  BY DEF SimpleMain
<1>2. /\ wu_start_log \in Starts /\ wu_read \in Loops /\ wu_stop_external_log \in Stops
      /\ wu_start_log \in Steps /\ wu_read \in Steps /\ wu_stop_external_log \in Steps
  BY DEF Starts, Loops, Stops, Exchanges, Steps
<1>3. \A k \in 1..3 : k = 1 \/ k = 2 \/ k = 3
  OBVIOUS
<1>4. \A k \in 1..3 : /\ SimpleMain[k] \in Starts => k = 1
                      /\ SimpleMain[k] \in Loops => k = 2
                      /\ SimpleMain[k] \in Stops => k = 3
  BY <1>1, <1>2, <1>3, StepsDiffer
<1>5. \A k \in 1..3 : SimpleMain[k] # wu_show_mode
  <2>1. wu_show_mode \in EarlySteps
    BY DEF EarlySteps, Shows
  <2> QED BY <1>1, <1>2, <1>3, <2>1, StepsDiffer
<1>6. Ordered(SimpleMain) /\ Closing(SimpleMain)
  <2>1. 1 < 3 /\ 2 < 3 /\ 1 + 1 = 2 /\ 2 + 1 = 3
    OBVIOUS
  <2> QED BY <1>1, <1>2, <1>4, <1>5, <2>1 DEF Ordered, Closing
<1>7. SimpleMain \in Seq(Steps) /\ SimpleMain # <<>>
  <2> HIDE DEF Steps
  <2> QED BY <1>1, <1>2 DEF SimpleMain
<1>8. ~Contains(SimpleMain, wu_read_data)
  <2>1. wu_read_data \in Loops
    BY DEF Loops
  <2> QED BY <1>1, <1>3, <1>4, <2>1, LoopIs DEF Contains
<1>9. r.interval = "absent" /\ r.mode = "absent" /\ r.count = 0
  BY DEF NoOptions
<1>10. ~(r.count > 0)
  BY <1>9
<1> QED BY <1>6, <1>7, <1>8, <1>9, <1>10 DEF MainPromises

LEMMA MainIs ==
  ASSUME NEW p \in Programs, NEW r \in Requests[p]
  PROVE  MainPromises(Main(p, r), r)
<1>1. p \in {"wattsup", "wattsup-better", "wattsup-simple"} /\ r \in wu_options
      /\ (p = "wattsup-simple" => r = NoOptions)
  BY WattsupAssumption DEF Drivers
<1> QED BY <1>1, WattsupMainIs, BetterMainIs, SimpleMainIs DEF Main

-----------------------------------------------------------------------------
(***************************************************************************)
(* What a read takes from the line, and what is found in it.               *)
(***************************************************************************)
\* The sets 0..(n - 1) are finite, and inclusion is well founded on finite sets.
LEMMA LeastOf ==
  ASSUME NEW T \in SUBSET Nat, T # {}
  PROVE  \E n \in T : \A k \in T : n <= k
<1> DEFINE Below == {0..(n - 1) : n \in T}
<1>1. Below \subseteq FiniteSubsetsOf(Nat)
  <2>1. \A n \in T : IsFiniteSet(0..(n - 1)) /\ 0..(n - 1) \subseteq Nat
    BY FS_Interval
  <2> QED BY <2>1 DEF FiniteSubsetsOf
<1>2. IsWellFoundedOn(StrictSubsetOrdering(Nat), FiniteSubsetsOf(Nat))
  BY FS_StrictSubsetOrderingWellFounded
<1>3. Below # {}
  OBVIOUS
<1>4. PICK x \in Below : \A y \in Below : <<y, x>> \notin StrictSubsetOrdering(Nat)
  <2> HIDE DEF Below
  <2> QED BY <1>1, <1>2, <1>3, WFMin
<1>5. PICK n \in T : x = 0..(n - 1)
  BY <1>4
<1>6. ASSUME NEW k \in T, k < n PROVE FALSE
  <2>1. 0..(k - 1) \in Below
    OBVIOUS
  <2>2. 0..(k - 1) \subseteq 0..(n - 1) /\ k \in 0..(n - 1) /\ k \notin 0..(k - 1)
    BY <1>6
  <2>3. 0..(k - 1) # 0..(n - 1)
    BY <2>2
  <2>4. 0..(k - 1) \in SUBSET Nat /\ 0..(n - 1) \in SUBSET Nat
    OBVIOUS
  <2>5. <<0..(k - 1), 0..(n - 1)>> \in StrictSubsetOrdering(Nat)
    BY <2>2, <2>3, <2>4 DEF StrictSubsetOrdering
  <2> QED BY <1>4, <1>5, <2>1, <2>5
<1> QED BY <1>6

LEMMA ChunkIs ==
  ASSUME line \in Seq(Pieces), line # <<>>
  PROVE  /\ Chunk \in Seq(Pieces) /\ Chunk # <<>> /\ Len(Chunk) \in 1..ReadMax /\ Len(Chunk) <= Len(line)
         /\ Len(Chunk) = IF Len(line) < ReadMax THEN Len(line) ELSE ReadMax
         /\ \A k \in 1..Len(Chunk) : Chunk[k] = line[k]
<1> DEFINE n == IF Len(line) < ReadMax THEN Len(line) ELSE ReadMax
<1>1. n \in 1..ReadMax /\ n \in 0..Len(line) /\ n \in Nat /\ n # 0
  BY WattsupAssumption
<1>2. Chunk = SubSeq(line, 1, n)
  BY DEF Chunk
<1> HIDE DEF n
<1>3. /\ Chunk \in Seq(Pieces) /\ Len(Chunk) = n /\ \A k \in 1..n : Chunk[k] = line[k]
  <2> HIDE DEF Chunk
  <2> QED BY <1>1, <1>2
<1>4. Chunk # <<>>
  BY <1>1, <1>3
<1> QED BY <1>1, <1>3, <1>4 DEF n

\* What is left of a line when n pieces were read.
LEMMA RestIs ==
  ASSUME line \in Seq(Pieces), NEW n \in 0..Len(line)
  PROVE  /\ SubSeq(line, n + 1, Len(line)) \in Seq(Pieces)
         /\ Len(SubSeq(line, n + 1, Len(line))) = Len(line) - n
         /\ \A k \in 1..(Len(line) - n) : SubSeq(line, n + 1, Len(line))[k] = line[k + n]
  OBVIOUS

LEMMA TakenIs ==
  ASSUME line \in Seq(Pieces), line # <<>>, TakeChunk
  PROVE  /\ line' \in Seq(Pieces) /\ Len(line') = Len(line) - Len(Chunk) /\ Len(line') <= Len(line)
         /\ \A k \in 1..Len(line') : k + Len(Chunk) \in 1..Len(line) /\ line'[k] = line[k + Len(Chunk)]
<1>1. Len(Chunk) \in 1..Len(line) /\ Len(Chunk) \in 0..Len(line) /\ Len(line) \in Nat
  BY ChunkIs
<1>2. line' = SubSeq(line, Len(Chunk) + 1, Len(line))
  BY DEF TakeChunk
<1> DEFINE n == Len(Chunk)
<1> HIDE DEF n
<1>3. n \in 1..Len(line) /\ n \in 0..Len(line) /\ line' = SubSeq(line, n + 1, Len(line))
  BY <1>1, <1>2 DEF n
<1>4. /\ line' \in Seq(Pieces) /\ Len(line') = Len(line) - n
      /\ \A k \in 1..(Len(line) - n) : line'[k] = line[k + n]
  BY <1>3, RestIs
<1> QED BY <1>1, <1>3, <1>4 DEF n

\* What is found is the kind of the first piece that begins a record.
LEMMA ParseIs ==
  ASSUME NEW c \in Seq(Pieces), NEW kind \in parse_packet(c), kind # ""
  PROVE  \E m \in 1..Len(c) : c[m].part # "tail" /\ c[m].kind = kind /\ kind \in Kinds
<1> DEFINE starts == {k \in 1..Len(c) : c[k].part # "tail"}
           first == CHOOSE k \in starts : \A n \in starts : k <= n
<1>1. starts # {} /\ kind = c[first].kind
  BY DEF parse_packet
<1>2. starts \in SUBSET Nat
  BY PlacesOf
<1>3. \E k \in starts : \A n \in starts : k <= n
  <2> HIDE DEF starts
  <2> QED BY <1>1, <1>2, LeastOf
<1>4. first \in starts
  <2> HIDE DEF starts
  <2> QED BY <1>3
<1> HIDE DEF first
<1>5. first \in 1..Len(c) /\ c[first].part # "tail" /\ c[first] \in Pieces
  <2>1. first \in 1..Len(c) /\ c[first].part # "tail"
    BY <1>4
  <2> QED BY <2>1, PlacesOf
<1>6. c[first].kind \in Kinds
  BY <1>5 DEF Pieces
<1> QED BY <1>1, <1>5, <1>6

-----------------------------------------------------------------------------
(***************************************************************************)
(* The types, and where the program is in its script.                      *)
(***************************************************************************)
LEMMA TypedIs == Typed /\ AtStep => TypeOK
<1> SUFFICES ASSUME Typed, AtStep PROVE TypeOK
  OBVIOUS
<1>1. /\ \A k \in 1..Len(string) : string[k] \in Pieces
      /\ \A k \in 1..Len(line) : line[k] \in Pieces
  BY PlacesOf DEF Typed, Reading, Metering
<1> QED BY <1>1 DEF Typed, Running, Reading, Metering, Remembering, AtStep, TypeOK, Busy, Early

LEMMA FollowedInit == Init => Followed
<1> SUFFICES ASSUME Init PROVE Followed
  OBVIOUS
<1>0. /\ program \in Programs /\ request \in Requests[program]
      /\ done_running = FALSE /\ string = <<>> /\ got = 0 /\ print = Nothing
      /\ pc = "args" /\ script = <<>> /\ fd = "none" /\ retry = 0 /\ i = 0 /\ ret = 0
      /\ log = FALSE /\ pending = <<>> /\ owed = "" /\ line = <<>>
      /\ runs = 1 /\ faults = MaxFaults /\ calm = TRUE /\ reset = FALSE
  BY DEF Init
<1>1. Running
  <2>1. retry \in 0..(wu_max_retry + 1) /\ i \in Nat
    <3>1. 0 \in 0..(wu_max_retry + 1) /\ 0 \in Nat
      BY DEF wu_max_retry
    <3>2. retry = 0 /\ i = 0
      BY <1>0
    <3> QED BY <3>1, <3>2
  <2> QED BY <1>0, <2>1 DEF Running, Early
<1>2. Reading
  <2>1. string \in Seq(Pieces) /\ Len(string) = 0
    BY <1>0, EmptyIs
  <2>2. 0 \in 0..ReadMax /\ 0 <= ReadMax
    BY WattsupAssumption
  <2>3. got \in 0..ReadMax /\ Len(string) <= ReadMax
    BY <1>0, <2>1, <2>2
  <2> QED BY <1>0, <2>1, <2>3 DEF Reading
<1>3. Metering
  <2>1. Len(line) = 0 /\ LineMax \in Nat
    BY <1>0, EmptyIs, WattsupAssumption
  <2>2. line \in Seq(Pieces) /\ pending \in Seq(Exchanges)
    BY <1>0, EmptyIs
  <2>3. settings \in [{"S", "M", "U"} -> Texts]
    <3>1. [NoText EXCEPT !.number = "factory"] \in Texts
      BY DEF NoText, Texts
    <3>2. settings = [c \in {"S", "M", "U"} |-> [NoText EXCEPT !.number = "factory"]]
      BY DEF Init
    <3> HIDE DEF Texts
    <3> QED BY <3>1, <3>2
  <2>4. Len(line) <= LineMax
    BY <2>1
  <2> QED BY <1>0, <2>2, <2>3, <2>4 DEF Metering
<1>4. Remembering
  <2>1. 1 \in 1..MaxRuns /\ MaxFaults \in 0..MaxFaults
    BY WattsupAssumption
  <2> QED BY <1>0, <2>1 DEF Remembering
<1>5. Scripted
  <2>1. script = <<>> /\ Len(script) = 0 /\ ~reset /\ script \in Seq(Steps)
    BY <1>0, EmptyIs
  <2> QED BY <2>1 DEF Scripted, Ordered, Closing
<1>6. AtStep
  BY DEF Init, AtStep, Busy
<1>7. Counted
  <2>1. script = <<>> /\ Len(script) = 0 /\ i = 0 /\ pc \notin Busy \cup {"closed"}
    BY DEF Init, Busy
  <2>2. ~Contains(script, wu_read_data)
    BY <2>1 DEF Contains
  <2>3. request \in wu_options
    BY WattsupAssumption DEF Init
  <2>4. request.count > 0 => i <= request.count
    BY <2>1, <2>3 DEF wu_options
  <2> QED BY <2>1, <2>2, <2>4 DEF Counted
<1> QED BY <1>1, <1>2, <1>3, <1>4, <1>5, <1>6, <1>7 DEF Followed, Typed

LEMMA RequestIs ==
  ASSUME Running
  PROVE  request \in wu_options /\ request.count \in Int
<1>1. request \in wu_options
  BY WattsupAssumption DEF Running
<1> QED BY <1>1 DEF wu_options

LEMMA StepIs ==
  ASSUME NEW x \in Steps
  PROVE  x \in Exchanges \/ x \in Failures \/ x \in Loops
  BY DEF Steps

\* Going on with a script.
LEMMA RunKeeps ==
  ASSUME NEW s \in Seq(Steps), Ordered(s), Run(s), IF reset' THEN Resetting(s) ELSE Closing(s)
  PROVE  Scripted' /\ AtStep' /\ pc' \in {"closed", "read", "write"} /\ script' = s
<1>1. script' = s /\ pc' = IF s = <<>> THEN "closed" ELSE IF Head(s) \in {wu_read_data, wu_read} THEN "read" ELSE "write"
  BY DEF Run
<1>2. pc' \in {"closed", "read", "write"}
  BY <1>1
<1>3. Scripted'
  BY <1>1 DEF Scripted
<1>4. AtStep'
  <2>1. CASE s = <<>>
    BY <1>1, <2>1 DEF AtStep, Busy, Early
  <2>2. CASE s # <<>>
    <3>1. Head(s) \in Exchanges \/ Head(s) \in Failures \/ Head(s) \in Loops
      BY <2>2, HeadAndTail, StepIs
    <3>2. Op' = Head(s)
      BY <1>1 DEF Op
    <3> QED BY <1>1, <1>2, <2>2, <3>1, <3>2 DEF AtStep, Busy, Early, Loops
  <2> QED BY <2>1, <2>2
<1> QED BY <1>1, <1>2, <1>3, <1>4

LEMMA SkipKeeps ==
  ASSUME Scripted, script # <<>>, Skip, reset' = reset
  PROVE  /\ Scripted' /\ AtStep' /\ pc' \in {"closed", "read", "write"} /\ script' = Tail(script)
         /\ \A x : Contains(script, x) <=> x = Op \/ Contains(script', x)
<1>1. script \in Seq(Steps) /\ Ordered(script)
  BY DEF Scripted
<1>2. /\ Tail(script) \in Seq(Steps) /\ Ordered(Tail(script))
      /\ IF reset' THEN Resetting(Tail(script)) ELSE Closing(Tail(script))
  BY <1>1, HeadAndTail, TailIsOrdered, TailIsClosing DEF Scripted
<1>3. Scripted' /\ AtStep' /\ pc' \in {"closed", "read", "write"} /\ script' = Tail(script)
  BY <1>2, RunKeeps DEF Skip
<1>4. \A x : Contains(script, x) <=> x = Head(script) \/ Contains(Tail(script), x)
  BY <1>1, Containing
<1> QED BY <1>3, <1>4 DEF Op

\* The count and the retries when the script or the place in it alone change.
LEMMA CountedStays ==
  ASSUME Counted, UNCHANGED <<request, retry, i, script>>,
         pc' \in Busy \cup {"closed"} /\ ret' = 0 => pc \in Busy \cup {"closed"} /\ ret = 0
  PROVE  Counted'
  BY DEF Counted

LEMMA CountedSkips ==
  ASSUME Counted, Scripted, pc \in Busy, script # <<>>, Skip, Op # wu_read_data,
         UNCHANGED <<request, retry, i, ret, reset>>
  PROVE  Counted'
<1>1. Contains(script, wu_read_data) <=> Contains(script', wu_read_data)
  BY SkipKeeps
<1>2. Contains(script, wu_read_data)' <=> Contains(script', wu_read_data)
  OBVIOUS
<1> QED BY <1>1, <1>2 DEF Counted

LEMMA NothingContained ==
  ASSUME NEW x
  PROVE  ~Contains(<<>>, x)
  BY DEF Contains

LEMMA CountedEnds ==
  ASSUME Counted, script' = <<>>, pc' \notin Busy \cup {"closed"} \/ ret' # 0, UNCHANGED <<request, i>>
  PROVE  Counted'
<1>1. ~Contains(script, wu_read_data)'
  BY NothingContained
<1> QED BY <1>1 DEF Counted

\* A program that ends where it is.
LEMMA EndsThere ==
  ASSUME Scripted, pc' \in {"closed", "refused", "crashed", "killed"},
         script' = <<>> \/ (script' = script /\ pc' # "closed"), reset' = reset
  PROVE  Scripted' /\ AtStep'
<1>1. CASE script' = <<>>
  <2>1. script' \in Seq(Steps) /\ Len(script') = 0
    BY <1>1
  <2>2. Scripted'
    BY <2>1 DEF Scripted, Ordered, Closing, Resetting
  <2> QED BY <1>1, <2>2 DEF AtStep, Busy, Early
<1>2. CASE script' = script /\ pc' # "closed"
  BY <1>2 DEF Scripted, AtStep, Busy, Early
<1> QED BY <1>1, <1>2

LEMMA FaultIs ==
  ASSUME Remembering, NoFault \/ Fault, reset' \in BOOLEAN, runs' = runs
  PROVE  Remembering' /\ (calm' => calm)
<1>1. CASE NoFault
  BY <1>1 DEF NoFault, Remembering
<1>2. CASE Fault
  <2>1. faults \in 0..MaxFaults /\ faults > 0 /\ faults' = faults - 1 /\ calm' = FALSE /\ MaxFaults \in Nat
    BY <1>2, WattsupAssumption DEF Fault, Remembering
  <2>2. faults' \in 0..MaxFaults
    BY <2>1
  <2> QED BY <2>1, <2>2 DEF Remembering
<1> QED BY <1>1, <1>2


LEMMA RunningStays ==
  ASSUME Running, UNCHANGED <<program, request>>, pc' \in Busy \cup Early \cup {"closed", "refused", "crashed", "killed"},
         fd' \in {"none", "meter", "broken", "stdin"}, retry' \in 0..(wu_max_retry + 1), i' \in Nat, ret' \in {0, -1}
  PROVE  Running'
  BY DEF Running

LEMMA ReadingStays ==
  ASSUME Reading, UNCHANGED simple, print' = print \/ print' = Nothing
  PROVE  Reading'
  BY DEF Reading, simple

LEMMA MeteringStays ==
  ASSUME Metering, UNCHANGED <<log, settings, pending, owed>>, line' \in Seq(Pieces), Len(line') <= LineMax
  PROVE  Metering'
  BY DEF Metering

LEMMA OpensFollowed ==
  ASSUME Followed,
         parse_args \/ parse_args_better \/ open_device \/ open_device_better \/ open_device_simple
  PROVE  Followed'
<1>1. /\ pc \in {"args", "open"} /\ pc' \in {"open", "setup", "crashed", "refused"}
      /\ ret' \in {ret, 0, -1} /\ (pc' \in {"open", "setup"} => ret' \in {ret, 0}) /\ fd' \in {fd, "meter", "stdin"}
      /\ NoFault /\ UNCHANGED <<program, simple, request, script, retry, i, print, meter, past>>
  BY DEF parse_args, parse_args_better, open_device, open_device_better, open_device_simple, ParseArgs
<1>2. UNCHANGED <<script, retry, i, print, log, settings, pending, owed, line, runs, reset>> /\ pc \in Early
  BY <1>1 DEF meter, past, Early
<1>3. script = <<>> /\ retry = 0 /\ i = 0 /\ ret = 0 /\ ~reset /\ print = Nothing
  BY <1>2 DEF Followed, AtStep
<1>4. Running'
  <2>1. pc' \in Busy \cup Early \cup {"closed", "refused", "crashed", "killed"} /\ ret' \in {0, -1}
    BY <1>1, <1>3 DEF Early
  <2>2. fd' \in {"none", "meter", "broken", "stdin"} /\ retry' \in 0..(wu_max_retry + 1) /\ i' \in Nat
    BY <1>1, <1>2 DEF Followed, Typed, Running
  <2> QED BY <1>1, <2>1, <2>2, RunningStays DEF Followed, Typed
<1>5. Reading'
  BY <1>1, ReadingStays DEF Followed, Typed
<1>6. Metering'
  BY <1>2, MeteringStays DEF Followed, Typed, Metering
<1>7. Remembering'
  BY <1>1, <1>2, FaultIs DEF Followed, Typed, Remembering
<1>8. Scripted'
  BY <1>2 DEF Followed, Scripted
<1>9. AtStep'
  <2>1. pc' \in Early => ret' = 0
    BY <1>1, <1>3 DEF Early
  <2> QED BY <1>1, <1>2, <1>3, <2>1 DEF AtStep, Busy
<1>10. Counted'
  <2>1. pc' \notin Busy \cup {"closed"}
    BY <1>1 DEF Busy
  <2> QED BY <1>1, <1>2, <1>3, <2>1, CountedEnds DEF Followed
<1> QED BY <1>4, <1>5, <1>6, <1>7, <1>8, <1>9, <1>10 DEF Followed, Typed

LEMMA SetupFollowed ==
  ASSUME Followed, setup_serial_device
  PROVE  Followed'
<1>1. /\ pc = "setup" /\ ((Run(Main(program, request)) /\ ret' = ret) \/ CloseOnError)
      /\ line' = (IF fd = "meter" THEN <<>> ELSE line)
      /\ NoFault /\ UNCHANGED <<program, request, simple, fd, retry, i, print, log, settings, pending, owed, runs, reset>>
  BY DEF setup_serial_device, past
<1>2. script = <<>> /\ retry = 0 /\ i = 0 /\ ret = 0 /\ ~reset /\ print = Nothing
  BY <1>1 DEF Followed, AtStep, Early
<1>3. /\ program \in Programs /\ request \in Requests[program] /\ request \in wu_options
  BY RequestIs DEF Followed, Typed, Running
<1>4. MainPromises(Main(program, request), request)
  BY <1>3, MainIs
<1>5. Scripted' /\ AtStep' /\ pc' \in {"closed", "read", "write"}
  <2>1. CASE CloseOnError
    <3>1. script' = <<>> /\ pc' = "closed"
      BY <2>1 DEF CloseOnError
    <3> QED BY <1>1, <3>1, EndsThere DEF Followed
  <2>2. CASE Run(Main(program, request))
    BY <1>1, <1>2, <1>4, <2>2, RunKeeps DEF MainPromises
  <2> QED BY <1>1, <2>1, <2>2
<1>6. Running'
  <2>1. ret' \in {0, -1}
    BY <1>1, <1>2 DEF CloseOnError
  <2>2. fd' \in {"none", "meter", "broken", "stdin"} /\ retry' \in 0..(wu_max_retry + 1) /\ i' \in Nat
    BY <1>1 DEF Followed, Typed, Running
  <2>3. pc' \in Busy \cup Early \cup {"closed", "refused", "crashed", "killed"}
    BY <1>5 DEF Busy
  <2> QED BY <1>1, <2>1, <2>2, <2>3, RunningStays DEF Followed, Typed
<1>7. Reading'
  BY <1>1, ReadingStays DEF Followed, Typed
<1>8. Metering'
  <2>1. line' \in Seq(Pieces) /\ Len(line') <= LineMax
    <3>1. <<>> \in Seq(Pieces) /\ Len(<<>>) = 0 /\ 0 <= LineMax
      BY EmptyIs, WattsupAssumption
    <3>2. line \in Seq(Pieces) /\ Len(line) <= LineMax /\ line' \in {<<>>, line}
      BY <1>1 DEF Followed, Typed, Metering
    <3> QED BY <3>1, <3>2
  <2> QED BY <1>1, <2>1, MeteringStays DEF Followed, Typed
<1>9. Remembering'
  BY <1>1, FaultIs DEF Followed, Typed, Remembering
<1>10. Counted'
  <2>1. CASE CloseOnError
    BY <1>1, <2>1, CountedEnds DEF CloseOnError, Followed
  <2>2. CASE Run(Main(program, request))
    <3>1. script' = Main(program, request)
      BY <2>2 DEF Run
    <3>2. ~request.noData /\ request.count > 0 => Contains(script', wu_read_data)
      BY <1>4, <3>1 DEF MainPromises
    <3>3. retry' = 0 /\ i' = 0 /\ request' = request /\ request.count \in Int
      BY <1>1, <1>2, RequestIs DEF Followed, Typed
    <3>4. (request'.count > 0 => i' <= request'.count /\ i' < request'.count) /\ retry' <= wu_max_retry
      BY <3>3 DEF wu_max_retry
    <3> QED BY <3>2, <3>3, <3>4 DEF Counted
  <2> QED BY <1>1, <2>1, <2>2
<1> QED BY <1>5, <1>6, <1>7, <1>8, <1>9, <1>10 DEF Followed, Typed


\* What the leaves below take from the invariant.
LEMMA TypesAre ==
  ASSUME Followed
  PROVE  /\ program \in Programs /\ request \in Requests[program] /\ request.count \in Int
         /\ retry \in 0..(wu_max_retry + 1) /\ i \in Nat /\ ret \in {0, -1}
         /\ fd \in {"none", "meter", "broken", "stdin"}
         /\ line \in Seq(Pieces) /\ Len(line) <= LineMax /\ Len(line) \in Nat /\ pending \in Seq(Exchanges)
         /\ Running /\ Reading /\ Metering /\ Remembering /\ Scripted /\ AtStep /\ Counted
         /\ script \in Seq(Steps)
  BY RequestIs, PlacesOf DEF Followed, Typed, Running, Metering, Scripted

LEMMA BusyIs ==
  ASSUME Followed, pc \in Busy
  PROVE  /\ script # <<>> /\ Op \in Steps /\ (Exchanging => Op \in Exchanges)
         /\ Op = script[1] /\ Len(script) \in Nat \ {0}
<1>1. script # <<>> /\ script \in Seq(Steps)
  BY DEF Followed, AtStep, Scripted
<1>2. Op \in Steps /\ Op = script[1] /\ Len(script) \in Nat \ {0}
  BY <1>1, HeadAndTail DEF Op
<1>3. Op \in Failures \cup Loops => ~Exchanging
  BY MarkIs DEF Exchanging
<1> QED BY <1>1, <1>2, <1>3, StepIs

LEMMA StoreFailsFollowed ==
  ASSUME Followed, StoreFails
  PROVE  Followed'
<1>1. /\ pc = "write" /\ pc \in Busy
      /\ \/ CloseOnError
         \/ pc' = "crashed" /\ UNCHANGED <<script, ret>>
         \/ Op = Overrun /\ Skip /\ ret' = ret
      /\ NoFault
      /\ UNCHANGED <<program, request, simple, fd, retry, i, print, log, settings, pending, owed, line, runs, reset>>
  BY DEF StoreFails, past, meter, Busy
<1>2. Scripted' /\ AtStep' /\ pc' \in {"closed", "crashed", "read", "write"}
  <2>1. CASE CloseOnError
    BY <1>1, <2>1, EndsThere, TypesAre DEF CloseOnError
  <2>2. CASE pc' = "crashed" /\ UNCHANGED <<script, ret>>
    BY <1>1, <2>2, EndsThere, TypesAre
  <2>3. CASE Skip
    BY <1>1, <2>3, SkipKeeps, BusyIs, TypesAre
  <2> QED BY <1>1, <2>1, <2>2, <2>3
<1>3. Running'
  <2>1. ret' \in {0, -1}
    BY <1>1, TypesAre DEF CloseOnError
  <2>2. pc' \in Busy \cup Early \cup {"closed", "refused", "crashed", "killed"}
    BY <1>2 DEF Busy
  <2> QED BY <1>1, <2>1, <2>2, RunningStays, TypesAre
<1>4. Reading' /\ Metering' /\ Remembering'
  BY <1>1, ReadingStays, MeteringStays, FaultIs, TypesAre DEF Remembering
<1>5. Counted'
  <2>1. CASE CloseOnError
    BY <1>1, <2>1, CountedEnds, TypesAre DEF CloseOnError
  <2>2. CASE pc' = "crashed" /\ UNCHANGED <<script, ret>>
    BY <1>1, <2>2, CountedStays, TypesAre DEF Busy
  <2>3. CASE Op = Overrun /\ Skip /\ ret' = ret
    <3>1. Op # wu_read_data
      BY <2>3, LoopIs DEF Failures
    <3> QED BY <1>1, <2>3, <3>1, CountedSkips, BusyIs, TypesAre
  <2> QED BY <1>1, <2>1, <2>2, <2>3
<1> QED BY <1>2, <1>3, <1>4, <1>5 DEF Followed, Typed

LEMMA WriteFollowed ==
  ASSUME Followed, wu_write
  PROVE  Followed'
<1>1. /\ pc = "write" /\ pc \in Busy /\ Exchanging
      /\ pc' = (IF Op.sleeps THEN "sleep" ELSE "read") /\ print' = Nothing
      /\ pending' \in {pending, Append(pending, Op)} /\ runs' = runs
      /\ UNCHANGED <<program, request, simple, script, fd, retry, i, ret, log, settings, owed, line, reset>>
  BY DEF wu_write, past, Busy
<1>2. Op \in Exchanges
  BY <1>1, BusyIs
<1>3. Op.sleeps \in BOOLEAN /\ (~Op.sleeps => Op.reads)
  <2>1. wu_show_mode.reads
    BY DEF wu_show_mode, Exchange
  <2> QED BY <1>2, <2>1, ExchangeIs, KindsOfExchange
<1>4. pc' \in {"sleep", "read"} /\ pc' \in Busy
  BY <1>1 DEF Busy
<1>5. AtStep'
  <2>1. Op' = Op /\ script' # <<>>
    BY <1>1, BusyIs DEF Op
  <2> QED BY <1>1, <1>2, <1>3, <1>4, <2>1 DEF AtStep, Early
<1>6. Running'
  BY <1>1, <1>4, RunningStays, TypesAre
<1>7. Reading'
  BY <1>1, ReadingStays, TypesAre
<1>8. Metering'
  <2>1. pending' \in Seq(Exchanges)
    <3> HIDE DEF Exchanges
    <3>1. pending \in Seq(Exchanges)
      BY TypesAre
    <3> QED BY <1>1, <1>2, <3>1
  <2> QED BY <1>1, <2>1 DEF Followed, Typed, Metering
<1>9. Remembering'
  <2>1. CASE calm' = (calm /\ Op # wu_write_user) /\ UNCHANGED faults
    BY <1>1, <2>1, TypesAre DEF Remembering
  <2>2. CASE Fault
    BY <1>1, <2>2, FaultIs, TypesAre DEF Remembering
  <2> QED BY <2>1, <2>2 DEF wu_write
<1>10. Scripted'
  BY <1>1, TypesAre DEF Scripted
<1>11. Counted'
  BY <1>1, CountedStays, TypesAre
<1> QED BY <1>5, <1>6, <1>7, <1>8, <1>9, <1>10, <1>11 DEF Followed, Typed

LEMMA WriteFailsFollowed ==
  ASSUME Followed, WriteFails
  PROVE  Followed'
<1>1. /\ pc = "write" /\ pc \in Busy /\ Exchanging /\ (NoFault \/ Fault) /\ print' = Nothing
      /\ \/ Op = wu_clear /\ pc' = "read" /\ UNCHANGED <<script, ret>>
         \/ program = "wattsup-simple" /\ Run(<<>>) /\ ret' = ret
         \/ CloseOnError
         \/ Skip /\ ret' = ret
      /\ UNCHANGED <<program, request, simple, fd, retry, i, log, settings, pending, owed, line, runs, reset>>
  BY DEF WriteFails, past, meter, Busy
<1>2. Op \in Exchanges /\ Op # wu_read_data
  BY <1>1, BusyIs, MarkIs DEF Loops
<1>3. Scripted' /\ AtStep' /\ pc' \in {"closed", "read", "write"}
  <2>1. CASE Op = wu_clear /\ pc' = "read" /\ UNCHANGED <<script, ret>>
    <3>1. Op' = Op /\ script' # <<>> /\ Op.reads
      BY <1>1, <2>1, BusyIs DEF Op, wu_clear, Exchange
    <3>2. AtStep'
      BY <1>2, <2>1, <3>1 DEF AtStep, Early
    <3> QED BY <1>1, <2>1, <3>2, TypesAre DEF Scripted
  <2>2. CASE Run(<<>>)
    <3>1. script' = <<>> /\ pc' = "closed"
      BY <2>2 DEF Run
    <3> QED BY <1>1, <3>1, EndsThere, TypesAre
  <2>3. CASE CloseOnError
    BY <1>1, <2>3, EndsThere, TypesAre DEF CloseOnError
  <2>4. CASE Skip
    BY <1>1, <2>4, SkipKeeps, BusyIs, TypesAre
  <2> QED BY <1>1, <2>1, <2>2, <2>3, <2>4
<1>4. Running'
  <2>1. ret' \in {0, -1}
    BY <1>1, TypesAre DEF CloseOnError
  <2>2. pc' \in Busy \cup Early \cup {"closed", "refused", "crashed", "killed"}
    BY <1>3 DEF Busy
  <2> QED BY <1>1, <2>1, <2>2, RunningStays, TypesAre
<1>5. Reading' /\ Metering'
  BY <1>1, ReadingStays, MeteringStays, TypesAre
<1>6. Remembering'
  BY <1>1, FaultIs, TypesAre DEF Remembering
<1>7. Counted'
  <2>1. CASE pc' = "read" /\ UNCHANGED <<script, ret>>
    BY <1>1, <2>1, CountedStays, TypesAre
  <2>2. CASE program = "wattsup-simple" /\ Run(<<>>)
    <3>1. script' = <<>>
      BY <2>2 DEF Run
    <3>2. request.count = 0
      BY <2>2, TypesAre, WattsupAssumption DEF NoOptions
    <3>3. ~(request'.count > 0)
      BY <1>1, <3>2
    <3>4. ~Contains(script, wu_read_data)'
      BY <3>1, NothingContained
    <3> QED BY <3>3, <3>4 DEF Counted
  <2>3. CASE CloseOnError
    BY <1>1, <2>3, CountedEnds, TypesAre DEF CloseOnError
  <2>4. CASE Skip /\ ret' = ret
    BY <1>1, <1>2, <2>4, CountedSkips, BusyIs, TypesAre
  <2> QED BY <1>1, <2>1, <2>2, <2>3, <2>4
<1> QED BY <1>3, <1>4, <1>5, <1>6, <1>7 DEF Followed, Typed

LEMMA ClearBetterFollowed ==
  ASSUME Followed, wu_clear_better
  PROVE  Followed'
<1>1. /\ line' = <<>> /\ log' \in {log, FALSE} /\ NoFault
      /\ UNCHANGED <<program, request, simple, pc, script, fd, retry, i, ret, print, settings, pending, owed, runs, reset>>
  BY DEF wu_clear_better, past
<1>2. Metering'
  <2>1. <<>> \in Seq(Pieces) /\ Len(<<>>) <= LineMax
    BY EmptyIs, WattsupAssumption
  <2> QED BY <1>1, <2>1, TypesAre DEF Metering
<1>3. Remembering'
  BY <1>1, FaultIs, TypesAre DEF Remembering
<1>4. Running' /\ Reading' /\ Scripted' /\ Counted'
  BY <1>1, TypesAre, ReadingStays, CountedStays DEF Running, Scripted
<1>5. AtStep'
  BY <1>1, TypesAre DEF AtStep, Op, simple
<1> QED BY <1>2, <1>3, <1>4, <1>5 DEF Followed, Typed

LEMMA SleepFollowed ==
  ASSUME Followed, Sleep
  PROVE  Followed'
<1>1. /\ pc = "sleep" /\ pc \in Busy /\ (NoFault \/ Fault)
      /\ \/ Op.reads /\ pc' = "read" /\ script' = script
         \/ Skip
      /\ UNCHANGED <<program, request, simple, fd, retry, i, ret, print, log, settings, pending, owed, line, runs, reset>>
  BY DEF Sleep, past, meter, Busy
<1>2. Op \in Exchanges /\ Op # wu_read_data
  BY <1>1, TypesAre, MarkIs DEF AtStep, Loops
<1>3. Scripted' /\ AtStep' /\ pc' \in {"closed", "read", "write"}
  <2>1. CASE Op.reads /\ pc' = "read" /\ script' = script
    <3>1. Op' = Op /\ script' # <<>>
      BY <1>1, <2>1, BusyIs DEF Op
    <3>2. AtStep'
      BY <1>2, <2>1, <3>1 DEF AtStep, Early
    <3> QED BY <1>1, <2>1, <3>2, TypesAre DEF Scripted
  <2>2. CASE Skip
    BY <1>1, <2>2, SkipKeeps, BusyIs, TypesAre
  <2> QED BY <1>1, <2>1, <2>2
<1>4. Running'
  <2>1. pc' \in Busy \cup Early \cup {"closed", "refused", "crashed", "killed"}
    BY <1>3 DEF Busy
  <2> QED BY <1>1, <2>1, RunningStays, TypesAre
<1>5. Reading' /\ Metering'
  BY <1>1, ReadingStays, MeteringStays, TypesAre
<1>6. Remembering'
  BY <1>1, FaultIs, TypesAre DEF Remembering
<1>7. Counted'
  <2>1. CASE script' = script
    BY <1>1, <2>1, CountedStays, TypesAre
  <2>2. CASE Skip
    BY <1>1, <1>2, <2>2, CountedSkips, BusyIs, TypesAre
  <2> QED BY <1>1, <2>1, <2>2
<1> QED BY <1>3, <1>4, <1>5, <1>6, <1>7 DEF Followed, Typed


\* A read takes pieces away or times out.
LEMMA LineAfterRead ==
  ASSUME Followed, (Arrived # <<>> /\ TakeChunk) \/ line' = line
  PROVE  /\ line' \in Seq(Pieces) /\ Len(line') <= LineMax
         /\ Arrived # <<>> => line # <<>> /\ fd = "meter"
<1>1. Arrived # <<>> => line # <<>> /\ fd = "meter"
  BY DEF Arrived
<1>2. CASE Arrived # <<>> /\ TakeChunk
  <2>1. line' \in Seq(Pieces) /\ Len(line') <= Len(line)
    BY <1>1, <1>2, TakenIs, TypesAre
  <2>2. Len(line) <= LineMax /\ Len(line) \in Nat /\ Len(line') \in Nat /\ LineMax \in Nat
    BY <2>1, TypesAre, PlacesOf, WattsupAssumption
  <2> QED BY <1>1, <2>1, <2>2
<1>3. CASE line' = line
  BY <1>1, <1>3, TypesAre
<1> QED BY <1>2, <1>3, <1>1

LEMMA TimesOutIs ==
  ASSUME TimesOut
  PROVE  Arrived = <<>> /\ (NoFault \/ Fault) /\ line' = line
  BY DEF TimesOut

LEMMA ReadReplyFollowed ==
  ASSUME Followed, ReadReply
  PROVE  Followed'
<1>1. /\ pc = "read" /\ pc \in Busy /\ Exchanging /\ (NoFault \/ Fault) /\ Skip
      /\ (Arrived # <<>> /\ TakeChunk) \/ line' = line
      /\ UNCHANGED <<program, request, simple, fd, retry, i, ret, log, settings, pending, owed, runs, reset>>
  BY TimesOutIs DEF ReadReply, past, Busy
<1>2. Op \in Exchanges /\ Op # wu_read_data
  BY <1>1, BusyIs, MarkIs DEF Loops
<1>3. Scripted' /\ AtStep' /\ pc' \in {"closed", "read", "write"}
  BY <1>1, SkipKeeps, BusyIs, TypesAre
<1>4. Running'
  <2>1. pc' \in Busy \cup Early \cup {"closed", "refused", "crashed", "killed"}
    BY <1>3 DEF Busy
  <2> QED BY <1>1, <2>1, RunningStays, TypesAre
<1>5. Metering'
  BY <1>1, LineAfterRead, MeteringStays, TypesAre
<1>6. Reading'
  <2>1. CASE TimesOut /\ print' = print
    BY <1>1, <2>1, ReadingStays, TypesAre
  <2>2. CASE Arrived # <<>> /\ print' # print
    <3>1. PICK kind \in parse_packet(Chunk) :
             print' = IF kind = "" \/ Op = wu_clear \/ (Op = wu_stop_log /\ ~request.final)
                      THEN print ELSE [as |-> Op.cmd, kind |-> kind]
      BY <2>2 DEF ReadReply, TimesOut
    <3>2. kind # "" /\ Op # wu_clear /\ print' = [as |-> Op.cmd, kind |-> kind]
      BY <2>2, <3>1
    <3>3. Chunk \in Seq(Pieces)
      BY <2>2, LineAfterRead, ChunkIs, TypesAre, <1>1
    <3> HIDE DEF Chunk, parse_packet
    <3>4. kind \in Kinds
      BY <3>2, <3>3, ParseIs
    <3>5. Op.cmd \in Kinds \ {"R", "?"}
      BY <1>2, <3>2, ExchangeIs, KindsOfExchange DEF Kinds
    <3>6. print' \in [as : Kinds \ {"R", "?"}, kind : Kinds]
      <4> HIDE DEF Kinds, Op
      <4> QED BY <3>2, <3>4, <3>5
    <3> QED BY <1>1, <3>6, TypesAre DEF Reading, simple
  <2>3. CASE print' = print
    BY <1>1, <2>3, ReadingStays, TypesAre
  <2> QED BY <2>1, <2>2, <2>3 DEF ReadReply
<1>7. Remembering'
  BY <1>1, FaultIs, TypesAre DEF Remembering
<1>8. Counted'
  BY <1>1, <1>2, CountedSkips, BusyIs, TypesAre
<1> QED BY <1>3, <1>4, <1>5, <1>6, <1>7, <1>8 DEF Followed, Typed

\* The loop comes once: when it is over there is none left.
LEMMA LoopIsOver ==
  ASSUME Scripted, script # <<>>, Op \in Loops
  PROVE  /\ ~Contains(Tail(script), wu_read_data) /\ ~Contains(Tail(script), wu_read)
         /\ Tail(script) # <<>> /\ Head(Tail(script)) \in Stops
<1>1. script \in Seq(Steps) /\ Ordered(script)
  BY DEF Scripted
<1> DEFINE n == Len(script)
<1>2. /\ n \in Nat \ {0} /\ Op = script[1] /\ Tail(script) \in Seq(Steps) /\ Len(Tail(script)) = n - 1
      /\ \A k \in 1..(n - 1) : Tail(script)[k] = script[k + 1]
  BY <1>1, HeadAndTail DEF Op
<1>3. 1 \in 1..n /\ \A k \in 1..(n - 1) : k + 1 \in 1..n /\ k + 1 # 1
  BY <1>2
<1>4. 1 < n /\ script[1 + 1] \in Stops
  BY <1>1, <1>2, <1>3 DEF Ordered
<1>5. \A k \in 1..(n - 1) : script[k + 1] \notin Loops
  BY <1>1, <1>2, <1>3 DEF Ordered
<1>6. \A k \in 1..(n - 1) : Tail(script)[k] \notin {wu_read_data, wu_read}
  BY <1>2, <1>5 DEF Loops
<1>7. ~Contains(Tail(script), wu_read_data) /\ ~Contains(Tail(script), wu_read)
  BY <1>2, <1>6 DEF Contains
<1>8. 1 \in 1..(n - 1) /\ Tail(script)[1] \in Stops
  BY <1>2, <1>4
<1>9. Tail(script) # <<>>
  <2>1. Len(Tail(script)) # 0
    BY <1>2, <1>4
  <2> QED BY <2>1, EmptyIs
<1>10. Head(Tail(script)) = Tail(script)[1]
  BY <1>2, <1>9, HeadAndTail
<1> QED BY <1>7, <1>8, <1>9, <1>10

LEMMA AtData ==
  ASSUME Followed, pc \in Busy, Op = wu_read_data
  PROVE  /\ Contains(script, wu_read_data) /\ retry \in 0..wu_max_retry
         /\ request.count > 0 => i < request.count
<1>1. Contains(script, wu_read_data)
  BY BusyIs, Containing, TypesAre DEF Op
<1>2. retry <= wu_max_retry /\ (request.count > 0 => i < request.count)
  BY <1>1, TypesAre DEF Counted
<1>3. retry \in 0..wu_max_retry
  BY <1>2, TypesAre DEF wu_max_retry
<1> QED BY <1>1, <1>2, <1>3

LEMMA ReadRecordFollowed ==
  ASSUME Followed, ReadRecord
  PROVE  Followed'
<1>1. /\ pc = "read" /\ pc \in Busy /\ Op = wu_read_data /\ Arrived # <<>> /\ TakeChunk /\ NoFault /\ retry' = 0
      /\ i' = (IF request.count > 0 THEN i + 1 ELSE i)
      /\ IF IsLast(i') THEN Skip ELSE pc' = "pause" /\ script' = script
      /\ UNCHANGED <<program, request, simple, fd, ret, log, settings, pending, owed, runs, reset>>
  BY DEF ReadRecord, past, Busy
<1>2. /\ i \in Nat /\ request.count \in Int /\ Contains(script, wu_read_data)
      /\ request.count > 0 => i < request.count
  BY <1>1, AtData, TypesAre
<1>3. i' \in Nat /\ (request.count > 0 => i' <= request.count)
  BY <1>1, <1>2
<1>4. 0 \in 0..(wu_max_retry + 1) /\ 0 <= wu_max_retry
  BY DEF wu_max_retry
<1>5. Scripted' /\ AtStep' /\ pc' \in {"closed", "read", "write", "pause"}
  <2>1. CASE Skip
    BY <1>1, <2>1, SkipKeeps, BusyIs, TypesAre
  <2>2. CASE pc' = "pause" /\ script' = script
    <3>1. Op' = Op /\ script' # <<>> /\ Op \in Loops
      BY <1>1, <2>2, BusyIs DEF Op, Loops
    <3>2. AtStep'
      BY <2>2, <3>1 DEF AtStep, Early
    <3> QED BY <1>1, <2>2, <3>2, TypesAre DEF Scripted
  <2> QED BY <1>1, <2>1, <2>2
<1>6. Running'
  <2>1. pc' \in Busy \cup Early \cup {"closed", "refused", "crashed", "killed"}
    BY <1>5 DEF Busy
  <2> QED BY <1>1, <1>3, <1>4, <2>1, RunningStays, TypesAre
<1>7. Metering'
  BY <1>1, LineAfterRead, MeteringStays, TypesAre
<1>8. Reading'
  <2>1. PICK kind \in parse_packet(Chunk) \ {""} : print' = [as |-> "D", kind |-> kind]
    BY DEF ReadRecord
  <2>2. Chunk \in Seq(Pieces)
    BY <1>1, LineAfterRead, ChunkIs, TypesAre
  <2> HIDE DEF Chunk, parse_packet
  <2>3. kind \in Kinds
    BY <2>1, <2>2, ParseIs
  <2>4. print' \in [as : Kinds \ {"R", "?"}, kind : Kinds]
    <3>1. "D" \in Kinds \ {"R", "?"}
      BY DEF Kinds
    <3> HIDE DEF Kinds
    <3> QED BY <2>1, <2>3, <3>1
  <2> QED BY <1>1, <2>4, TypesAre DEF Reading, simple
<1>9. Remembering'
  BY <1>1, FaultIs, TypesAre DEF Remembering
<1>10. Counted'
  <2>1. request' = request /\ retry' <= wu_max_retry
    BY <1>1, <1>4
  <2>2. CASE IsLast(i')
    <3>1. Skip /\ request.count > 0 /\ i' = request.count
      BY <1>1, <1>2, <1>3, <2>2 DEF IsLast
    <3>2. script' = Tail(script) /\ Op \in Loops
      BY <1>1, <3>1, SkipKeeps, BusyIs, TypesAre DEF Loops
    <3>3. ~Contains(script, wu_read_data)'
      BY <1>1, <3>2, LoopIsOver, BusyIs, TypesAre
    <3> QED BY <1>3, <2>1, <3>1, <3>3 DEF Counted
  <2>3. CASE ~IsLast(i')
    <3>1. script' = script
      BY <1>1, <2>3
    <3>2. Contains(script, wu_read_data)'
      BY <1>2, <3>1
    <3>3. request.count > 0 => i' < request.count
      BY <1>2, <1>3, <2>3 DEF IsLast
    <3> QED BY <1>3, <2>1, <3>2, <3>3 DEF Counted
  <2> QED BY <2>2, <2>3
<1> QED BY <1>5, <1>6, <1>7, <1>8, <1>9, <1>10 DEF Followed, Typed


\* A log that is reset: the script goes on behind a stop, a clear and a start.
Restart == <<wu_stop_log, wu_clear, StartAgain>>

LEMMA RestartIs ==
  ASSUME Scripted, script # <<>>, Op = wu_read_data
  PROVE  /\ Restart \o script \in Seq(Steps) /\ Ordered(Restart \o script)
         /\ Resetting(Restart \o script) /\ Contains(Restart \o script, wu_read_data)
<1> DEFINE s == Restart \o script
           n == Len(script)
<1>0. script \in Seq(Steps) /\ Ordered(script) /\ (~reset => Closing(script)) /\ (reset => Resetting(script))
  BY DEF Scripted
<1>1. /\ wu_stop_log \in Steps /\ wu_clear \in Steps /\ StartAgain \in Steps
      /\ wu_stop_log \in Stops /\ StartAgain \in Starts /\ wu_read_data \in Loops
  BY DEF Steps, Exchanges, Stops, Starts, Loops
<1>2. Restart \in Seq(Steps) /\ Len(Restart) = 3
  <2> HIDE DEF Steps
  <2> QED BY <1>1 DEF Restart
<1>3. Restart[1] = wu_stop_log /\ Restart[2] = wu_clear /\ Restart[3] = StartAgain
  BY DEF Restart
<1>4. /\ s \in Seq(Steps) /\ n \in Nat /\ Len(s) = 3 + n
      /\ s[1] = wu_stop_log /\ s[2] = wu_clear /\ s[3] = StartAgain
      /\ \A k \in 1..n : s[3 + k] = script[k]
  <2> HIDE DEF Steps
  <2>1. /\ s \in Seq(Steps) /\ n \in Nat /\ Len(s) = Len(Restart) + n
        /\ \A k \in 1..Len(Restart) : s[k] = Restart[k]
        /\ \A k \in 1..n : s[Len(Restart) + k] = script[k]
    <3>1. script \in Seq(Steps)
      BY <1>0
    <3>2. /\ s \in Seq(Steps) /\ Len(script) \in Nat /\ Len(s) = Len(Restart) + Len(script)
          /\ \A k \in 1..Len(Restart) : s[k] = Restart[k]
          /\ \A k \in 1..Len(script) : s[Len(Restart) + k] = script[k]
      BY <1>2, <3>1, ConcatenationIs
    <3> HIDE DEF s
    <3> QED BY ONLY <3>2
  <2> HIDE DEF s, n
  <2>2. 1 \in 1..Len(Restart) /\ 2 \in 1..Len(Restart) /\ 3 \in 1..Len(Restart)
    BY <1>2
  <2> QED BY <1>2, <1>3, <2>1, <2>2
<1>5. n \in Nat \ {0} /\ script[1] = wu_read_data /\ s[4] = wu_read_data
  <2>1. n \in Nat \ {0} /\ script[1] = wu_read_data
    <3> HIDE DEF s
    <3>1. Head(script) = wu_read_data
      BY DEF Op
    <3> QED BY <1>0, <3>1, HeadAndTail
  <2> HIDE DEF s, n
  <2>2. s[3 + 1] = script[1] /\ 3 + 1 = 4
    BY <1>4, <2>1
  <2> QED BY <2>1, <2>2
<1> HIDE DEF s, n
<1>6. \A k \in 1..Len(s) : k = 1 \/ k = 2 \/ k = 3 \/ (k - 3 \in 1..n /\ s[k] = script[k - 3])
  <2> SUFFICES ASSUME NEW k \in 1..Len(s), k # 1, k # 2, k # 3
               PROVE  k - 3 \in 1..n /\ s[k] = script[k - 3]
    OBVIOUS
  <2>1. k - 3 \in 1..n /\ 3 + (k - 3) = k
    BY <1>4
  <2> QED BY <1>4, <2>1
<1>7. /\ wu_stop_log \notin Starts \cup Loops /\ wu_clear \notin Starts \cup Loops \cup Stops
      /\ StartAgain \notin Loops \cup Stops
  BY <1>1, StepsDiffer
<1>8. \A k \in 1..n : /\ script[k] \in Starts => k < n /\ script[k + 1] \in Loops
                      /\ script[k] \in Loops => k < n /\ script[k + 1] \in Stops
  BY <1>0 DEF Ordered, n
<1>9. \A k \in 1..n : script[k] \in Loops => k = 1
  <2>1. 1 \in 1..n /\ script[1] \in Loops
    BY <1>1, <1>5
  <2> QED BY <1>0, <2>1 DEF Ordered, n
<1>10. /\ \A k \in 1..Len(s) : s[k] \in Starts => k < Len(s) /\ s[k + 1] \in Loops
       /\ \A k \in 1..Len(s) : s[k] \in Loops => k < Len(s) /\ s[k + 1] \in Stops
       /\ \A k \in 1..Len(s) : s[k] \in Loops => k = 4
  <2> SUFFICES ASSUME NEW k \in 1..Len(s)
               PROVE  /\ s[k] \in Starts => k < Len(s) /\ s[k + 1] \in Loops
                      /\ s[k] \in Loops => k < Len(s) /\ s[k + 1] \in Stops
                      /\ s[k] \in Loops => k = 4
    OBVIOUS
  <2>1. CASE k = 1 \/ k = 2
    BY <1>4, <1>7, <2>1
  <2>2. CASE k = 3
    <3>1. k < Len(s) /\ k + 1 = 4
      BY <1>4, <1>5, <2>2
    <3> QED BY <1>1, <1>4, <1>5, <1>7, <2>2, <3>1
  <2>3. CASE k - 3 \in 1..n /\ s[k] = script[k - 3]
    <3> DEFINE m == k - 3
    <3>1. m \in 1..n /\ s[k] = script[m] /\ k = 3 + m
      BY <1>4, <2>3
    <3> HIDE DEF m
    <3>2. m < n => m + 1 \in 1..n /\ k + 1 = 3 + (m + 1) /\ k < Len(s)
      BY <1>4, <3>1
    <3>3. m < n => s[k + 1] = script[m + 1]
      BY <1>4, <3>2
    <3>4. m = 1 => k = 4
      BY <3>1
    <3> QED BY <1>8, <1>9, <3>1, <3>2, <3>3, <3>4
  <2> QED BY <1>6, <2>1, <2>2, <2>3
<1>11. \A k \in 1..n : script[k] # wu_show_mode /\ script[k] \in ResetSteps
  <2> SUFFICES ASSUME NEW k \in 1..n PROVE script[k] # wu_show_mode /\ script[k] \in ResetSteps
    OBVIOUS
  <2>1. wu_show_mode \notin ResetSteps
    <3>1. wu_show_mode \in EarlySteps /\ wu_show_mode \in Shows
      BY DEF EarlySteps, Shows
    <3> QED BY <1>1, <3>1, StepsDiffer DEF ResetSteps
  <2>2. CASE reset
    BY <1>0, <2>1, <2>2 DEF Resetting, n
  <2>3. CASE ~reset
    <3>1. 1 \in 1..n /\ 1 < n /\ script[2] \in Stops
      <4>1. 1 \in 1..n /\ script[1] \in Loops
        BY <1>1, <1>5
      <4> QED BY <1>8, <4>1
    <3>2. 2 \in 1..n
      BY <1>5, <3>1
    <3>3. n = 2
      BY <1>0, <2>3, <3>1, <3>2 DEF Closing, n
    <3>4. k = 1 \/ k = 2
      BY <3>3
    <3>5. script[1] \in ResetSteps /\ script[2] \in ResetSteps
      BY <1>5, <3>1 DEF ResetSteps
    <3> QED BY <2>1, <3>4, <3>5
  <2> QED BY <2>2, <2>3
<1>12. Resetting(s)
  <2>1. wu_stop_log \in ResetSteps /\ wu_clear \in ResetSteps /\ StartAgain \in ResetSteps
    BY DEF ResetSteps, Stops
  <2> QED BY <1>4, <1>6, <1>11, <2>1 DEF Resetting
<1>13. \A k \in 1..Len(s) : s[k] # wu_show_mode
  <2>1. wu_show_mode \notin ResetSteps
    <3>1. wu_show_mode \in EarlySteps /\ wu_show_mode \in Shows
      BY DEF EarlySteps, Shows
    <3> QED BY <1>1, <3>1, StepsDiffer DEF ResetSteps
  <2> QED BY <1>12, <2>1 DEF Resetting
<1>14. Ordered(s)
  BY <1>10, <1>13 DEF Ordered
<1>15. Contains(s, wu_read_data)
  <2>1. 4 \in 1..Len(s)
    BY <1>4, <1>5
  <2> QED BY <1>5, <2>1 DEF Contains
<1> QED BY <1>4, <1>12, <1>14, <1>15 DEF s


LEMMA ReadFailsFollowed ==
  ASSUME Followed, ReadFails
  PROVE  Followed'
<1>1. /\ pc = "read" /\ pc \in Busy /\ Op = wu_read_data /\ (NoFault \/ Fault)
      /\ (Arrived # <<>> /\ TakeChunk) \/ line' = line
      /\ retry' = retry + 1 /\ reset' = (reset \/ retry' = wu_max_retry)
      /\ \/ retry' < wu_max_retry /\ pc' = "pause" /\ script' = script
         \/ retry' = wu_max_retry /\ Run(Restart \o script)
         \/ retry' > wu_max_retry /\ retry' # wu_max_retry /\ Skip
      /\ UNCHANGED <<program, request, simple, fd, i, ret, print, log, settings, pending, owed, runs>>
  <2>1. /\ pc = "read" /\ Op = wu_read_data
        /\ (Arrived # <<>> /\ TakeChunk /\ NoFault) \/ TimesOut
        /\ retry' = retry + 1 /\ reset' = (reset \/ retry' = wu_max_retry)
        /\ IF retry' < wu_max_retry THEN pc' = "pause" /\ UNCHANGED script
           ELSE IF retry' = wu_max_retry THEN Run(Restart \o script) ELSE Skip
        /\ UNCHANGED <<program, request, simple, fd, i, ret, print, log, settings, pending, owed, runs>>
    BY DEF ReadFails, Restart, StartAgain
  <2>2. retry' \in Nat /\ wu_max_retry = 2
    BY <2>1, TypesAre DEF wu_max_retry
  <2>3. retry' < wu_max_retry \/ retry' = wu_max_retry \/ (retry' > wu_max_retry /\ retry' # wu_max_retry)
    BY <2>2
  <2> QED BY <2>1, <2>2, <2>3, TimesOutIs DEF Busy
<1>2. /\ retry \in 0..wu_max_retry /\ request.count \in Int /\ i \in Nat /\ Contains(script, wu_read_data)
      /\ request.count > 0 => i < request.count /\ i <= request.count
  BY <1>1, AtData, TypesAre
<1>3. retry' \in 0..(wu_max_retry + 1) /\ (retry' # wu_max_retry /\ retry' > wu_max_retry => retry' = wu_max_retry + 1)
  BY <1>1, <1>2 DEF wu_max_retry
<1>4. reset' \in BOOLEAN /\ (retry' # wu_max_retry => reset' = reset)
  BY <1>1, TypesAre DEF Remembering
<1>5. CASE retry' < wu_max_retry /\ pc' = "pause" /\ script' = script
  <2>1. reset' = reset
    BY <1>3, <1>4, <1>5 DEF wu_max_retry
  <2>2. Op' = Op /\ script' # <<>> /\ Op \in Loops
    BY <1>1, <1>5, BusyIs DEF Op, Loops
  <2>3. AtStep' /\ Scripted'
    BY <1>5, <2>1, <2>2, TypesAre DEF AtStep, Early, Scripted
  <2>4. Counted'
    <3>1. Contains(script, wu_read_data)'
      BY <1>2, <1>5
    <3>2. retry' <= wu_max_retry
      BY <1>3, <1>5 DEF wu_max_retry
    <3> QED BY <1>1, <1>2, <3>1, <3>2 DEF Counted
  <2> QED BY <1>1, <1>3, <1>4, <1>5, <2>3, <2>4, RunningStays, ReadingStays, LineAfterRead,
             MeteringStays, FaultIs, TypesAre DEF Followed, Typed, Busy
<1>6. CASE retry' = wu_max_retry /\ Run(Restart \o script)
  <2>1. /\ Restart \o script \in Seq(Steps) /\ Ordered(Restart \o script)
        /\ Resetting(Restart \o script) /\ Contains(Restart \o script, wu_read_data)
    BY <1>1, RestartIs, BusyIs, TypesAre
  <2>2. reset'
    BY <1>1, <1>6
  <2>3. Scripted' /\ AtStep' /\ pc' \in {"closed", "read", "write"} /\ script' = Restart \o script
    BY <1>6, <2>1, <2>2, RunKeeps
  <2>4. Counted'
    <3>1. Contains(script, wu_read_data)'
      BY <2>1, <2>3
    <3>2. retry' <= wu_max_retry
      BY <1>3, <1>6 DEF wu_max_retry
    <3> QED BY <1>1, <1>2, <3>1, <3>2 DEF Counted
  <2> QED BY <1>1, <1>3, <1>4, <2>3, <2>4, RunningStays, ReadingStays, LineAfterRead,
             MeteringStays, FaultIs, TypesAre DEF Followed, Typed, Busy
<1>7. CASE retry' > wu_max_retry /\ retry' # wu_max_retry /\ Skip
  <2>1. reset' = reset
    BY <1>4, <1>7
  <2>2. Scripted' /\ AtStep' /\ pc' \in {"closed", "read", "write"} /\ script' = Tail(script)
    BY <1>1, <1>7, <2>1, SkipKeeps, BusyIs, TypesAre
  <2>3. Counted'
    <3>1. ~Contains(script, wu_read_data)'
      BY <1>1, <2>2, LoopIsOver, BusyIs, TypesAre DEF Loops
    <3> QED BY <1>1, <1>2, <1>7, <3>1 DEF Counted
  <2> QED BY <1>1, <1>3, <1>4, <2>2, <2>3, RunningStays, ReadingStays, LineAfterRead,
             MeteringStays, FaultIs, TypesAre DEF Followed, Typed, Busy
<1> QED BY <1>1, <1>5, <1>6, <1>7

\* The pauses of both loops.
LEMMA PausesFollowed ==
  ASSUME Followed, SleepInterval \/ SleepHalf
  PROVE  Followed'
<1>1. /\ pc = "pause" /\ pc \in Busy /\ print' = Nothing /\ NoFault
      /\ \/ pc' = "read" /\ script' = script
         \/ Op = wu_read /\ Skip
      /\ UNCHANGED <<program, request, simple, fd, retry, i, ret, log, settings, pending, owed, line, runs, reset>>
  BY DEF SleepInterval, SleepHalf, past, meter, Busy
<1>2. Op \in Loops
  BY <1>1, TypesAre DEF AtStep
<1>3. Scripted' /\ AtStep' /\ pc' \in {"closed", "read", "write"}
  <2>1. CASE pc' = "read" /\ script' = script
    <3>1. Op' = Op /\ script' # <<>>
      BY <1>1, <2>1, BusyIs DEF Op
    <3> QED BY <1>1, <1>2, <2>1, <3>1, TypesAre DEF AtStep, Early, Scripted
  <2>2. CASE Skip
    BY <1>1, <2>2, SkipKeeps, BusyIs, TypesAre
  <2> QED BY <1>1, <2>1, <2>2
<1>4. Running' /\ Reading' /\ Metering' /\ Remembering'
  <2>1. pc' \in Busy \cup Early \cup {"closed", "refused", "crashed", "killed"}
    BY <1>3 DEF Busy
  <2> QED BY <1>1, <2>1, RunningStays, ReadingStays, MeteringStays, FaultIs, TypesAre DEF Remembering
<1>5. Counted'
  <2>1. CASE script' = script
    BY <1>1, <2>1, CountedStays, TypesAre
  <2>2. CASE Op = wu_read /\ Skip
    BY <1>1, <2>2, CountedSkips, BusyIs, TypesAre, LoopIs
  <2> QED BY <1>1, <2>1, <2>2
<1> QED BY <1>3, <1>4, <1>5 DEF Followed, Typed

\* What wattsup-simple does with a record that starts with a '#'.
LEMMA PrintsIs ==
  ASSUME NEW s \in Seq(Pieces), s # <<>>, Len(s) <= ReadMax, PrintsSimple(s)
  PROVE  /\ pc' \in {"rest", "pause"} /\ (pc' = "rest" => string' # <<>>)
         /\ string' \in Seq(Pieces) /\ Len(string') <= ReadMax
         /\ print' = print \/ print' \in [as : Kinds \ {"R", "?"}, kind : Kinds]
<1>1. CASE pc' = "rest" /\ string' = s /\ print' = print
  BY <1>1
<1>2. CASE pc' = "pause" /\ string' = <<>> /\ print' = [as |-> "D", kind |-> s[1].kind]
  <2>1. 1 \in 1..Len(s) /\ s[1] \in Pieces
    <3> HIDE DEF Pieces
    <3>1. Len(s) \in Nat \ {0}
      BY EmptyIs, PlacesOf
    <3> QED BY <3>1, PlacesOf
  <2>2. s[1].kind \in Kinds
    BY <2>1 DEF Pieces
  <2>3. "D" \in Kinds \ {"R", "?"}
    BY DEF Kinds
  <2>4. print' \in [as : Kinds \ {"R", "?"}, kind : Kinds]
    <3> HIDE DEF Kinds
    <3> QED BY <1>2, <2>2, <2>3
  <2>5. string' \in Seq(Pieces) /\ Len(string') <= ReadMax
    BY <1>2, EmptyIs, WattsupAssumption
  <2> QED BY <1>2, <2>4, <2>5
<1> QED BY <1>1, <1>2 DEF PrintsSimple

LEMMA SimpleKeeps ==
  ASSUME Followed, (pc = "read" /\ Op = wu_read) \/ pc = "rest",
         pc' \in {"rest", "pause"}, pc' = "rest" => string' # <<>>,
         UNCHANGED <<program, request, script, fd, retry, i, ret, runs, reset>>, NoFault
  PROVE  Scripted' /\ AtStep' /\ Running' /\ Remembering' /\ Counted'
<1>1. Op = wu_read /\ script # <<>> /\ pc \in Busy /\ pc' \in Busy
  BY TypesAre DEF AtStep, Busy
<1>2. Op' = Op
  BY DEF Op
<1>3. AtStep'
  BY <1>1, <1>2 DEF AtStep, Busy, Early, Loops
<1> QED BY <1>1, <1>3, RunningStays, FaultIs, CountedStays, TypesAre DEF Scripted, Remembering

LEMMA ReadSimpleFollowed ==
  ASSUME Followed, ReadSimple
  PROVE  Followed'
<1>1. /\ pc = "read" /\ Op = wu_read /\ line # <<>> /\ TakeChunk /\ got' = Len(Chunk)
      /\ PrintsSimple(Chunk) \/ (pc' = "pause" /\ UNCHANGED <<string, print>>)
      /\ NoFault
      /\ UNCHANGED <<program, request, done_running, script, fd, retry, i, ret, log, settings, pending, owed, runs, reset>>
  BY DEF ReadSimple, Arrived, past
<1>2. Chunk \in Seq(Pieces) /\ Chunk # <<>> /\ Len(Chunk) \in 1..ReadMax
  BY <1>1, ChunkIs, TypesAre
<1>3. Len(Chunk) <= ReadMax /\ Len(Chunk) \in 0..ReadMax
  BY <1>2, WattsupAssumption
<1>4. /\ pc' \in {"rest", "pause"} /\ (pc' = "rest" => string' # <<>>)
      /\ string' \in Seq(Pieces) /\ Len(string') <= ReadMax
      /\ print' = print \/ print' \in [as : Kinds \ {"R", "?"}, kind : Kinds]
  <2>1. CASE PrintsSimple(Chunk)
    <3> HIDE DEF Chunk
    <3> QED BY <1>2, <1>3, <2>1, PrintsIs
  <2>2. CASE pc' = "pause" /\ UNCHANGED <<string, print>>
    BY <2>2, TypesAre DEF Reading
  <2> QED BY <1>1, <2>1, <2>2
<1>5. Scripted' /\ AtStep' /\ Running' /\ Remembering' /\ Counted'
  BY <1>1, <1>4, SimpleKeeps
<1>6. Reading'
  BY <1>1, <1>3, <1>4, TypesAre DEF Reading
<1>7. Metering'
  <2>1. line' \in Seq(Pieces) /\ Len(line') <= Len(line)
    BY <1>1, TakenIs, TypesAre
  <2>2. Len(line') <= LineMax
    BY <2>1, TypesAre, PlacesOf, WattsupAssumption
  <2> QED BY <1>1, <2>1, <2>2, MeteringStays, TypesAre
<1> QED BY <1>5, <1>6, <1>7 DEF Followed, Typed

LEMMA ReadRestFollowed ==
  ASSUME Followed, ReadRest
  PROVE  Followed'
<1>1. /\ pc = "rest" /\ NoFault
      /\ UNCHANGED <<program, request, done_running, script, fd, retry, i, ret, log, settings, pending, owed, runs, reset>>
  BY DEF ReadRest, past
<1>2. /\ got \in 0..ReadMax /\ string \in Seq(Pieces) /\ string # <<>> /\ Len(string) <= ReadMax
      /\ line \in Seq(Pieces) /\ Len(line) <= LineMax /\ Len(line) \in Nat
  BY <1>1, TypesAre DEF AtStep, Reading
<1>3. CASE got = ReadMax
  <2>1. got' = 0 /\ UNCHANGED <<pc, string, print, line>>
    BY <1>3 DEF ReadRest
  <2>2. Scripted' /\ AtStep' /\ Running' /\ Remembering' /\ Counted'
    BY <1>1, <1>2, <2>1, SimpleKeeps
  <2>3. 0 \in 0..ReadMax
    BY WattsupAssumption
  <2>4. Reading' /\ Metering'
    BY <1>1, <1>2, <2>1, <2>3, MeteringStays, TypesAre DEF Reading
  <2> QED BY <2>2, <2>4 DEF Followed, Typed
<1>4. CASE got # ReadMax
  <2> DEFINE n == IF Len(line) < ReadMax - got THEN Len(line) ELSE ReadMax - got
             s == string \o SubSeq(line, 1, n)
  <2>1. /\ got' = n /\ line' = SubSeq(line, n + 1, Len(line))
        /\ IF Len(s) > ReadMax THEN pc' = "crashed" /\ string' = <<>> /\ UNCHANGED print
           ELSE PrintsSimple(s)
    BY <1>4 DEF ReadRest
  <2>2. n \in 0..ReadMax /\ n \in 0..Len(line)
    BY <1>2, WattsupAssumption
  <2> HIDE DEF n
  <2>3. line' \in Seq(Pieces) /\ Len(line') <= LineMax
    <3>1. line' \in Seq(Pieces) /\ Len(line') = Len(line) - n
      BY <1>2, <2>1, <2>2, RestIs
    <3> QED BY <1>2, <2>2, <3>1, WattsupAssumption
  <2>4. s \in Seq(Pieces) /\ s # <<>> /\ Len(s) \in Nat
    <3> DEFINE t == SubSeq(line, 1, n)
    <3>1. t \in Seq(Pieces)
      <4> HIDE DEF Pieces
      <4> QED BY <1>2, <2>2
    <3> HIDE DEF t
    <3>2. Len(string) \in Nat \ {0}
      BY <1>2, EmptyIs, PlacesOf
    <3>3. s \in Seq(Pieces) /\ Len(s) = Len(string) + Len(t) /\ Len(t) \in Nat
      BY <1>2, <3>1, ConcatenationIs DEF t
    <3> HIDE DEF s
    <3>4. Len(s) # 0 /\ Len(s) \in Nat
      BY <3>2, <3>3
    <3> QED BY <3>3, <3>4, EmptyIs
  <2> HIDE DEF s
  <2>5. Metering'
    BY <1>1, <2>3, MeteringStays, TypesAre
  <2>6. CASE Len(s) > ReadMax
    <3>1. pc' = "crashed" /\ string' = <<>> /\ print' = print
      BY <2>1, <2>6
    <3>2. Scripted' /\ AtStep'
      BY <1>1, <3>1, EndsThere, TypesAre
    <3>3. Running' /\ Remembering'
      BY <1>1, <3>1, RunningStays, FaultIs, TypesAre DEF Remembering
    <3>4. Counted'
      BY <1>1, <3>1, CountedStays, TypesAre DEF Busy
    <3>5. <<>> \in Seq(Pieces) /\ Len(<<>>) <= ReadMax
      BY EmptyIs, WattsupAssumption
    <3>6. Reading'
      BY <1>1, <2>1, <2>2, <3>1, <3>5, TypesAre DEF Reading
    <3> QED BY <2>5, <3>2, <3>3, <3>4, <3>6 DEF Followed, Typed
  <2>7. CASE ~(Len(s) > ReadMax)
    <3>1. Len(s) <= ReadMax /\ PrintsSimple(s)
      BY <2>1, <2>4, <2>7, WattsupAssumption
    <3>2. /\ pc' \in {"rest", "pause"} /\ (pc' = "rest" => string' # <<>>)
          /\ string' \in Seq(Pieces) /\ Len(string') <= ReadMax
          /\ print' = print \/ print' \in [as : Kinds \ {"R", "?"}, kind : Kinds]
      BY <2>4, <3>1, PrintsIs
    <3>3. Scripted' /\ AtStep' /\ Running' /\ Remembering' /\ Counted'
      BY <1>1, <3>2, SimpleKeeps
    <3>4. Reading'
      BY <1>1, <2>1, <2>2, <3>2, TypesAre DEF Reading
    <3> QED BY <2>5, <3>3, <3>4 DEF Followed, Typed
  <2> QED BY <2>6, <2>7
<1> QED BY <1>3, <1>4

\* The reads of a broken line, and the break.
LEMMA ReadBrokenFollowed ==
  ASSUME Followed, ReadBroken
  PROVE  Followed'
<1>1. /\ pc \in {"read", "rest"} /\ NoFault /\ got' = got
      /\ \/ pc = "read" /\ Op = wu_read /\ pc' = "pause" /\ UNCHANGED <<string, print>>
         \/ /\ pc = "rest" /\ string' = <<>>
            /\ \/ pc' = "pause" /\ print' = [as |-> "D", kind |-> string[1].kind]
               \/ pc' = "crashed" /\ UNCHANGED print
      /\ UNCHANGED <<program, request, done_running, script, fd, retry, i, ret, runs, reset>>
      /\ UNCHANGED <<log, settings, pending, owed, line>>
  BY DEF ReadBroken, meter, past
<1>2. Metering'
  BY <1>1, MeteringStays, TypesAre
<1>3. Reading'
  <2>1. <<>> \in Seq(Pieces) /\ Len(<<>>) <= ReadMax
    BY EmptyIs, WattsupAssumption
  <2>2. CASE pc = "read"
    BY <1>1, <2>2, TypesAre DEF Reading
  <2>3. CASE pc = "rest" /\ string' = <<>> /\ print' = print
    BY <1>1, <2>1, <2>3, TypesAre DEF Reading
  <2>4. CASE pc = "rest" /\ string' = <<>> /\ print' = [as |-> "D", kind |-> string[1].kind]
    <3>1. string \in Seq(Pieces) /\ string # <<>>
      BY <2>4, TypesAre DEF AtStep, Reading
    <3>2. Len(string) \in Nat /\ Len(string) # 0
      BY <3>1, EmptyIs, PlacesOf
    <3>3. 1 \in 1..Len(string)
      BY <3>2
    <3>4. string[1] \in Pieces
      BY <3>1, <3>3, PlacesOf
    <3>5. string[1].kind \in Kinds
      BY <3>4 DEF Pieces
    <3>6. "D" \in Kinds \ {"R", "?"}
      BY DEF Kinds
    <3>7. print' \in [as : Kinds \ {"R", "?"}, kind : Kinds]
      <4> HIDE DEF Kinds
      <4> QED BY <2>4, <3>5, <3>6
    <3> QED BY <1>1, <2>1, <2>4, <3>7, TypesAre DEF Reading
  <2> QED BY <1>1, <2>2, <2>3, <2>4
<1>4. CASE pc' = "pause"
  <2>1. Scripted' /\ AtStep' /\ Running' /\ Remembering' /\ Counted'
    BY <1>1, <1>4, SimpleKeeps
  <2> QED BY <1>2, <1>3, <2>1 DEF Followed, Typed
<1>5. CASE pc' = "crashed"
  <2>1. Scripted' /\ AtStep'
    BY <1>1, <1>5, EndsThere, TypesAre
  <2>2. Running' /\ Remembering'
    BY <1>1, <1>5, RunningStays, FaultIs, TypesAre DEF Remembering
  <2>3. Counted'
    BY <1>1, <1>5, CountedStays, TypesAre DEF Busy
  <2> QED BY <1>2, <1>3, <2>1, <2>2, <2>3 DEF Followed, Typed
<1> QED BY <1>1, <1>4, <1>5

LEMMA BreaksFollowed ==
  ASSUME Followed, Breaks
  PROVE  Followed'
<1>1. /\ fd' = "broken" /\ Fault
      /\ UNCHANGED <<program, request, simple, pc, script, retry, i, ret, print, runs, reset>>
      /\ UNCHANGED <<log, settings, pending, owed, line>>
  BY DEF Breaks, meter, past
<1>2. Running' /\ Scripted' /\ Reading'
  BY <1>1, ReadingStays, TypesAre DEF Running, Scripted
<1>3. Counted' /\ Remembering'
  BY <1>1, CountedStays, FaultIs, TypesAre DEF Remembering
<1>4. AtStep'
  BY <1>1, TypesAre DEF AtStep, Op, simple
<1>5. Metering'
  BY <1>1, TypesAre DEF Metering
<1> QED BY <1>2, <1>3, <1>4, <1>5 DEF Followed, Typed

\* ^C in wattsup-simple.
LEMMA CtrlcFollowed ==
  ASSUME Followed, ctrlc_handler
  PROVE  Followed'
<1>1. /\ program = "wattsup-simple" /\ done_running' = TRUE
      /\ \/ pc = "sleep" /\ Skip /\ UNCHANGED <<string, got>>
         \/ pc = "rest" /\ UNCHANGED <<pc, script>> /\ got' = 0
            /\ \E k \in {string[1].kind, "?"} : string' = [string EXCEPT ![1].kind = k]
         \/ pc \notin {"sleep", "rest"} /\ UNCHANGED <<pc, script, string, got>>
      /\ NoFault \/ Disturbs
      /\ UNCHANGED <<program, request, fd, retry, i, ret, print, log, settings, pending, owed, line, runs, reset>>
  BY DEF ctrlc_handler, past, meter
<1>2. Remembering' /\ Metering'
  BY <1>1, MeteringStays, TypesAre DEF Remembering, NoFault, Disturbs
<1>3. CASE pc = "sleep" /\ Skip /\ UNCHANGED <<string, got>>
  <2>1. pc \in Busy /\ Op # wu_read_data
    BY <1>3, TypesAre, MarkIs DEF AtStep, Busy, Loops
  <2>2. Scripted' /\ AtStep' /\ pc' \in {"closed", "read", "write"}
    BY <1>1, <1>3, <2>1, SkipKeeps, BusyIs, TypesAre
  <2>3. Running' /\ Reading'
    BY <1>1, <1>3, <2>2, RunningStays, TypesAre DEF Busy, Reading
  <2>4. Counted'
    BY <1>1, <1>3, <2>1, CountedSkips, BusyIs, TypesAre
  <2> QED BY <1>2, <2>2, <2>3, <2>4 DEF Followed, Typed
<1>4. CASE pc = "rest" /\ UNCHANGED <<pc, script>> /\ got' = 0
            /\ \E k \in {string[1].kind, "?"} : string' = [string EXCEPT ![1].kind = k]
  <2>1. string \in Seq(Pieces) /\ string # <<>> /\ Len(string) <= ReadMax
    BY <1>4, TypesAre DEF AtStep, Reading
  <2>2. Len(string) \in Nat \ {0}
    BY <2>1, EmptyIs, PlacesOf
  <2>3. 1 \in 1..Len(string)
    BY <2>2
  <2>4. string[1] \in Pieces
    BY <2>1, <2>3, PlacesOf
  <2>5. PICK k \in {string[1].kind, "?"} : string' = [string EXCEPT ![1] = [string[1] EXCEPT !.kind = k]]
    BY <1>4
  <2>6. [string[1] EXCEPT !.kind = k] \in Pieces
    <3>1. k \in Kinds
      BY <2>4, <2>5 DEF Pieces, Kinds
    <3> HIDE DEF Kinds
    <3> QED BY <2>4, <3>1 DEF Pieces
  <2>7. string' \in Seq(Pieces) /\ Len(string') = Len(string)
    <3> DEFINE p == [string[1] EXCEPT !.kind = k]
    <3>1. p \in Pieces /\ string' = [string EXCEPT ![1] = p]
      BY <2>5, <2>6
    <3> HIDE DEF p, Pieces
    <3> QED BY <2>1, <2>3, <3>1
  <2>8. string' # <<>>
    BY <2>2, <2>7, EmptyIs
  <2>9. Reading'
    BY <1>1, <1>4, <2>1, <2>7, WattsupAssumption, TypesAre DEF Reading
  <2>10. AtStep'
    BY <1>1, <1>4, <2>8, TypesAre DEF AtStep, Op, Busy, Early
  <2>11. Running' /\ Scripted' /\ Counted'
    BY <1>1, <1>4, CountedStays, TypesAre DEF Running, Scripted
  <2> QED BY <1>2, <2>9, <2>10, <2>11 DEF Followed, Typed
<1>5. CASE pc \notin {"sleep", "rest"} /\ UNCHANGED <<pc, script, string, got>>
  <2>1. Running' /\ Scripted' /\ Counted' /\ Reading'
    BY <1>1, <1>5, CountedStays, TypesAre DEF Running, Scripted, Reading
  <2>2. AtStep'
    BY <1>1, <1>5, TypesAre DEF AtStep, Op
  <2> QED BY <1>2, <2>1, <2>2 DEF Followed, Typed
<1> QED BY <1>1, <1>3, <1>4, <1>5

\* ^C in the others.
LEMMA InterruptFollowed ==
  ASSUME Followed, Interrupt
  PROVE  Followed'
<1>1. /\ pc' = "killed" /\ done_running' = FALSE /\ string' = <<>> /\ got' = 0
      /\ script' = <<>> /\ fd' = "none" /\ retry' = 0 /\ i' = 0 /\ ret' = 0
      /\ print' = Nothing /\ line' = <<>> /\ NoFault
      /\ UNCHANGED <<program, request, log, settings, pending, owed, runs, reset>>
  BY DEF Interrupt, past
<1>2. Scripted' /\ AtStep'
  BY <1>1, EndsThere, TypesAre
<1>3. 0 \in 0..(wu_max_retry + 1) /\ 0 \in Nat /\ 0 \in 0..ReadMax
  BY WattsupAssumption DEF wu_max_retry
<1>4. <<>> \in Seq(Pieces) /\ Len(<<>>) <= ReadMax /\ Len(<<>>) <= LineMax
  BY EmptyIs, WattsupAssumption
<1>5. Running' /\ Remembering'
  BY <1>1, <1>3, RunningStays, FaultIs, TypesAre DEF Remembering
<1>6. Reading'
  BY <1>1, <1>3, <1>4 DEF Reading
<1>7. Metering'
  BY <1>1, <1>4, MeteringStays, TypesAre
<1>8. Counted'
  <2>1. ~Contains(script, wu_read_data)'
    BY <1>1, NothingContained
  <2>2. request'.count > 0 => i' <= request'.count
    BY <1>1, TypesAre
  <2>3. pc' \notin Busy \cup {"closed"}
    BY <1>1 DEF Busy
  <2> QED BY <2>1, <2>2, <2>3 DEF Counted
<1> QED BY <1>2, <1>5, <1>6, <1>7, <1>8 DEF Followed, Typed

LEMMA RunAgainFollowed ==
  ASSUME Followed, RunAgain
  PROVE  Followed'
<1>1. /\ runs < MaxRuns /\ runs' = runs + 1 /\ line' = <<>>
      /\ program' \in Programs /\ request' \in Requests[program']
      /\ done_running' = FALSE /\ string' = <<>> /\ got' = 0
      /\ pc' = "args" /\ script' = <<>> /\ fd' = "none" /\ retry' = 0 /\ i' = 0 /\ ret' = 0
      /\ print' = Nothing /\ reset' = FALSE
      /\ calm' \in BOOLEAN
      /\ settings' = [c \in DOMAIN settings |->
                        IF settings[c].number = "asked" THEN UD("earlier") ELSE settings[c]]
      /\ UNCHANGED <<log, pending, owed, faults>>
  BY DEF RunAgain, StartsAfresh
<1>2. 0 \in 0..(wu_max_retry + 1) /\ 0 \in Nat /\ 0 \in 0..ReadMax
  BY WattsupAssumption DEF wu_max_retry
<1>3. <<>> \in Seq(Pieces) /\ Len(<<>>) <= ReadMax /\ Len(<<>>) <= LineMax
  BY EmptyIs, WattsupAssumption
<1>4. Running'
  <2>1. pc' \in Early
    BY <1>1 DEF Early
  <2>2. retry' \in 0..(wu_max_retry + 1) /\ i' \in Nat /\ ret' \in {0, -1}
    BY <1>1, <1>2
  <2> QED BY <1>1, <2>1, <2>2 DEF Running
<1>5. Reading'
  BY <1>1, <1>2, <1>3 DEF Reading
<1>6. Metering'
  <2>1. settings' \in [{"S", "M", "U"} -> Texts]
    <3>1. UD("earlier") \in Texts
      BY DEF UD, Texts
    <3>2. settings \in [{"S", "M", "U"} -> Texts]
      BY TypesAre DEF Metering
    <3> HIDE DEF Texts
    <3> QED BY <1>1, <3>1, <3>2
  <2>2. log \in BOOLEAN /\ owed \in Kinds \cup {""} /\ pending \in Seq(Exchanges)
    BY TypesAre DEF Metering
  <2> QED BY <1>1, <1>3, <2>1, <2>2 DEF Metering
<1>7. Remembering'
  <2>1. runs' \in 1..MaxRuns
    BY <1>1, TypesAre, WattsupAssumption DEF Remembering
  <2> QED BY <1>1, <2>1, TypesAre DEF Remembering
<1>8. Scripted'
  <2>1. script' \in Seq(Steps) /\ Len(script') = 0 /\ ~reset'
    BY <1>1, EmptyIs
  <2> QED BY <2>1 DEF Scripted, Ordered, Closing
<1>9. AtStep'
  BY <1>1 DEF AtStep, Busy
<1>10. Counted'
  <2>1. ~Contains(script, wu_read_data)'
    BY <1>1, NothingContained
  <2>2. request'.count \in Int /\ i' = 0
    BY <1>1, WattsupAssumption DEF wu_options
  <2>3. request'.count > 0 => i' <= request'.count
    BY <2>2
  <2>4. pc' \notin Busy \cup {"closed"}
    BY <1>1 DEF Busy
  <2> QED BY <2>1, <2>3, <2>4 DEF Counted
<1> QED BY <1>4, <1>5, <1>6, <1>7, <1>8, <1>9, <1>10 DEF Followed, Typed

\* The meter changes the line and itself.
LEMMA MeterStays ==
  ASSUME Followed, UNCHANGED <<program, request, simple, pc, script, fd, retry, i, ret, print, runs, reset>>,
         NoFault \/ Fault
  PROVE  Running' /\ Reading' /\ Scripted' /\ AtStep' /\ Counted' /\ Remembering'
<1>1. Running' /\ Scripted' /\ Reading'
  BY ReadingStays, TypesAre DEF Running, Scripted
<1>2. Counted' /\ Remembering'
  BY CountedStays, FaultIs, TypesAre DEF Remembering
<1>3. AtStep'
  BY TypesAre DEF AtStep, Op, simple
<1> QED BY <1>1, <1>2, <1>3

LEMMA ArrivesIs ==
  ASSUME line \in Seq(Pieces), Len(line) <= LineMax, NEW p \in Pieces, Arrives(p)
  PROVE  /\ line' \in Seq(Pieces) /\ Len(line') <= LineMax
         /\ line' = line \/ line' = Append(line, p)
<1>1. CASE fd = "meter" /\ Len(line) < LineMax
  <2>1. line' = Append(line, p)
    BY <1>1 DEF Arrives
  <2>2. Len(line) \in Nat
    BY PlacesOf
  <2>3. line' \in Seq(Pieces) /\ Len(line') = Len(line) + 1
    <3> HIDE DEF Pieces
    <3> QED BY <2>1
  <2>4. Len(line') <= LineMax
    BY <1>1, <2>2, <2>3, WattsupAssumption
  <2> QED BY <2>1, <2>3, <2>4
<1>2. CASE ~(fd = "meter" /\ Len(line) < LineMax)
  BY <1>2 DEF Arrives
<1> QED BY <1>1, <1>2

\* A record that is sent arrives as a whole, or its head does and the tail is owed.
LEMMA SendsIs ==
  ASSUME line \in Seq(Pieces), Len(line) <= LineMax, owed = "", NEW kind \in Kinds, Sends(kind)
  PROVE  /\ line' \in Seq(Pieces) /\ Len(line') <= LineMax /\ owed' \in {"", kind}
         /\ \E p \in Pieces : /\ p.kind = kind /\ Arrives(p)
                              /\ \/ p.part = "whole" /\ owed' = ""
                                 \/ p.part = "head" /\ owed' = kind
<1>1. [kind |-> kind, part |-> "whole"] \in Pieces /\ [kind |-> kind, part |-> "head"] \in Pieces
  <2> HIDE DEF Kinds
  <2> QED BY DEF Pieces
<1>2. CASE Arrives([kind |-> kind, part |-> "whole"]) /\ UNCHANGED owed
  <2> DEFINE p == [kind |-> kind, part |-> "whole"]
  <2>1. p \in Pieces /\ p.kind = kind /\ p.part = "whole" /\ Arrives(p) /\ owed' = ""
    BY <1>1, <1>2
  <2> HIDE DEF p
  <2>2. line' \in Seq(Pieces) /\ Len(line') <= LineMax /\ owed' \in {"", kind}
    BY <2>1, ArrivesIs
  <2>3. \E q \in Pieces : q.kind = kind /\ Arrives(q) /\ q.part = "whole" /\ owed' = ""
    BY <2>1
  <2> QED BY <2>2, <2>3
<1>3. CASE Arrives([kind |-> kind, part |-> "head"]) /\ owed' = kind
  <2> DEFINE p == [kind |-> kind, part |-> "head"]
  <2>1. p \in Pieces /\ p.kind = kind /\ p.part = "head" /\ Arrives(p) /\ owed' = kind
    BY <1>1, <1>3
  <2> HIDE DEF p
  <2>2. line' \in Seq(Pieces) /\ Len(line') <= LineMax
    BY <2>1, ArrivesIs
  <2> QED BY <2>1, <2>2
<1> QED BY <1>2, <1>3 DEF Sends

LEMMA ObeysIs ==
  ASSUME Followed, MeterObeys
  PROVE  /\ pending # <<>> /\ Head(pending) \in Exchanges /\ owed = "" /\ pending' = Tail(pending)
         /\ pending' \in Seq(Exchanges) /\ (NoFault \/ Fault)
         /\ \/ /\ log' = IF Head(pending).cmd = "L" THEN Head(pending).sub = "W" ELSE log
               /\ settings' = IF Head(pending).sub = "W" /\ Head(pending).cmd \in DOMAIN settings
                              THEN [settings EXCEPT ![Head(pending).cmd] = Head(pending).field] ELSE settings
               /\ Sends(Head(pending).cmd) \/ UNCHANGED <<line, owed>>
            \/ UNCHANGED <<log, settings, line, owed>>
         /\ UNCHANGED <<program, simple, request, pc, script, fd, retry, i, ret, print, runs, reset>>
<1>1. pending # <<>> /\ pending \in Seq(Exchanges)
  BY TypesAre DEF MeterObeys
<1>2. Head(pending) \in Exchanges /\ Tail(pending) \in Seq(Exchanges)
  <2> HIDE DEF Exchanges
  <2> QED BY <1>1
<1> QED BY <1>1, <1>2 DEF MeterObeys, past

LEMMA ObeysFollowed ==
  ASSUME Followed, MeterObeys
  PROVE  Followed'
<1> DEFINE c == Head(pending)
<1>1. /\ c \in Exchanges /\ owed = "" /\ pending' \in Seq(Exchanges)
      /\ log' \in {log, c.sub = "W"}
      /\ \/ settings' = settings
         \/ c.cmd \in DOMAIN settings /\ settings' = [settings EXCEPT ![c.cmd] = c.field]
      /\ Sends(c.cmd) \/ UNCHANGED <<line, owed>>
      /\ NoFault \/ Fault
      /\ UNCHANGED <<program, simple, request, pc, script, fd, retry, i, ret, print, runs, reset>>
  BY ObeysIs
<1> HIDE DEF c
<1>2. c.cmd \in Kinds /\ c.field \in Texts
  BY <1>1, ExchangeIs DEF Kinds
<1>3. line' \in Seq(Pieces) /\ Len(line') <= LineMax /\ owed' \in Kinds \cup {""}
  BY <1>1, <1>2, SendsIs, TypesAre
<1>4. settings' \in [{"S", "M", "U"} -> Texts]
  <2>1. settings \in [{"S", "M", "U"} -> Texts]
    BY TypesAre DEF Metering
  <2> HIDE DEF Texts
  <2> QED BY <1>1, <1>2, <2>1
<1>5. log' \in BOOLEAN
  BY <1>1, TypesAre DEF Metering
<1>6. Metering'
  BY <1>1, <1>3, <1>4, <1>5 DEF Metering
<1> QED BY <1>1, <1>6, MeterStays DEF Followed, Typed

LEMMA SamplesFollowed ==
  ASSUME Followed, MeterSamples
  PROVE  Followed'
<1>1. /\ owed = "" /\ (Sends("D") \/ Sends("?")) /\ (NoFault \/ Fault)
      /\ UNCHANGED <<program, simple, request, pc, script, fd, retry, i, ret, print, log, settings, pending, runs, reset>>
  BY DEF MeterSamples, past
<1>2. "D" \in Kinds /\ "?" \in Kinds
  BY DEF Kinds
<1>3. line' \in Seq(Pieces) /\ Len(line') <= LineMax /\ owed' \in Kinds \cup {""}
  BY <1>1, <1>2, SendsIs, TypesAre
<1>4. Metering'
  BY <1>1, <1>3, TypesAre DEF Metering
<1> QED BY <1>1, <1>4, MeterStays DEF Followed, Typed

LEMMA SendsRestFollowed ==
  ASSUME Followed, MeterSendsRest
  PROVE  Followed'
<1>1. /\ owed # "" /\ Arrives([kind |-> owed, part |-> "tail"]) /\ owed' = "" /\ NoFault
      /\ UNCHANGED <<program, simple, request, pc, script, fd, retry, i, ret, print, log, settings, pending, runs, reset>>
  BY DEF MeterSendsRest, past
<1>2. [kind |-> owed, part |-> "tail"] \in Pieces
  <2>1. owed \in Kinds
    BY <1>1, TypesAre DEF Metering
  <2> HIDE DEF Kinds
  <2> QED BY <2>1 DEF Pieces
<1>3. line' \in Seq(Pieces) /\ Len(line') <= LineMax
  BY <1>1, <1>2, ArrivesIs, TypesAre
<1>4. Metering'
  BY <1>1, <1>3, TypesAre DEF Metering
<1> QED BY <1>1, <1>4, MeterStays DEF Followed, Typed

LEMMA NothingFollowed ==
  ASSUME Followed, UNCHANGED vars
  PROVE  Followed'
<1>1. /\ UNCHANGED <<program, request, simple, pc, script, fd, retry, i, ret, print, runs, reset>>
      /\ UNCHANGED <<log, settings, pending, owed, line, faults, calm>>
  BY DEF vars, meter, past
<1>2. Metering'
  BY <1>1, TypesAre DEF Metering
<1> QED BY <1>1, <1>2, MeterStays DEF Followed, Typed, NoFault

LEMMA FollowedNext == Followed /\ [Next]_vars => Followed'
<1> SUFFICES ASSUME Followed, [Next]_vars PROVE Followed'
  OBVIOUS
<1>1. CASE Program
  BY <1>1, OpensFollowed, SetupFollowed, StoreFailsFollowed, WriteFollowed, WriteFailsFollowed,
     ClearBetterFollowed, SleepFollowed, ReadReplyFollowed, ReadRecordFollowed, ReadFailsFollowed,
     PausesFollowed, ReadSimpleFollowed, ReadRestFollowed DEF Program
<1>2. CASE Meter
  BY <1>2, ObeysFollowed, SamplesFollowed, SendsRestFollowed DEF Meter
<1> QED BY <1>1, <1>2, ReadBrokenFollowed, BreaksFollowed, CtrlcFollowed, InterruptFollowed,
           RunAgainFollowed, NothingFollowed DEF Next, Done

LEMMA AlwaysFollowed == Spec => []Followed
  BY FollowedInit, FollowedNext, PTL DEF Spec

\* A program is always at a step its script has, with what the C types hold of the meter's
\* records and retries (wattsup.c:1750-1881).
THEOREM WattsupTypeCorrect == Spec => []TypeOK
<1>1. Followed => TypeOK
  BY TypedIs DEF Followed
<1> QED BY <1>1, AlwaysFollowed, PTL

\* A run that ends well has printed as many records as it was asked for, or has reset
\* the log once and given up; never more (wattsup.c:896-920).
THEOREM CountsArePrinted == Spec => []CountIsPrinted
<1>1. Followed => CountIsPrinted
  <2> SUFFICES ASSUME Followed PROVE CountIsPrinted
    OBVIOUS
  <2>1. pc = "closed" => ~Contains(script, wu_read_data)
    BY TypesAre, NothingContained DEF AtStep
  <2> QED BY <2>1, TypesAre DEF Counted, CountIsPrinted
<1> QED BY <1>1, AlwaysFollowed, PTL

-----------------------------------------------------------------------------
(***************************************************************************)
(* What a calm run finds in the line.                                      *)
(***************************************************************************)
Owes == owed # ""
Idle == pending = <<>> /\ ~Owes /\ ~log /\ line = <<>>

\* A program in its loop has its device; wattsup-simple reads no reply.
Known ==
  /\ pc \in Busy \cup {"setup"} => fd # "none"
  /\ program = "wattsup-simple" => \A k \in 1..Len(script) : script[k] \in Starts \cup Stops \cup {wu_read}

\* A meter that was idle has at most the command it was just sent.
Obedient ==
  /\ pc \in Early \/ fd = "stdin" => Idle
  /\ pc \in {"write", "rest", "pause", "closed"} => pending = <<>>
  /\ pc = "write" /\ log => Op \in Stops
  /\ pc \in {"sleep", "read"} /\ pending # <<>> => Op \in Exchanges /\ pending = <<Op>>
  /\ pc = "read" /\ pending # <<>> => Op = wu_show_mode
  /\ pc \in {"sleep", "read"} /\ Op \in Exchanges /\ log =>
       IF pending = <<>> THEN Op \in Starts ELSE Op \in Stops
  /\ pc = "read" /\ Op \in Exchanges => ~log
  /\ pc = "closed" => ~log
  /\ pc \in {"sleep", "read"} => Op # wu_write_user

\* The pieces of a reply that a read may have left over.
Spare == IF Contains(script, wu_show_mode) THEN 0 ELSE 1
Weight == Len(line) + (IF Owes THEN 1 ELSE 0)
OnlyTails == \A k \in 1..Len(line) : line[k].part = "tail"
Settled == Weight <= Spare /\ OnlyTails
Answered ==
  /\ Weight <= Spare + 2 /\ (Owes => owed = Op.cmd)
  /\ \A k \in 1..Len(line) : line[k].part # "tail" => k <= Spare + 1 /\ line[k].kind = Op.cmd
AllData == \A k \in 1..Len(line) : line[k].part # "tail" => line[k].kind = "D"

Asking == Shows \cup Stores \cup {wu_clear}

Replied ==
  /\ pc = "write" /\ Op \in Asking \cup Starts \cup Failures => Settled
  /\ pc \in {"sleep", "read"} /\ Op \in Asking => IF pending = <<>> THEN Answered ELSE Settled
  /\ pc = "read" /\ Op \in Exchanges /\ Op # wu_show_mode /\ Owes => owed \in {"D", "?"}
  /\ pc \in {"sleep", "read"} /\ Op \in Stores => Settled
  /\ pc \in {"sleep", "read"} /\ Op \in Starts => IF pending = <<>> THEN AllData ELSE Settled
  /\ pc \in Busy /\ Op \in Loops => AllData
  /\ pc = "rest" => string[1].part # "tail" /\ string[1].kind = "D"

\* The settings asked for in this run are the meter's or still to be written.
Setting ==
  pc \in Busy \cup {"closed"} /\ ret = 0 =>
    /\ request.interval = "valued" => settings["S"] = UD("asked") \/ Contains(script, wu_write_interval)
    /\ request.mode = "valued" => settings["M"] = UD("asked") \/ Contains(script, wu_write_mode)
SettingNow ==
  pc = "sleep" /\ pending = <<>> =>
    /\ Op = wu_write_interval => settings["S"] = UD("asked")
    /\ Op = wu_write_mode => settings["M"] = UD("asked")

Calmly ==
  /\ Obedient
  /\ ~reset /\ fd = "meter" => Replied
  /\ fd = "meter" => Setting /\ SettingNow

Served == Known /\ (calm => fd # "broken" /\ Calmly) /\ RepliesAreOwn /\ DataIsData
-----------------------------------------------------------------------------
(***************************************************************************)
(* The first step of a script and the next.                                *)
(***************************************************************************)
LEMMA ClassesDiffer ==
  /\ \A x \in Starts : x \notin Stops \cup Loops \cup Asking \cup Failures
  /\ \A x \in Stops : x \notin Starts \cup Loops \cup Asking \cup Failures
  /\ \A x \in Loops : x \notin Starts \cup Stops \cup Asking \cup Failures \cup Exchanges
  /\ \A x \in Failures : x \notin Starts \cup Stops \cup Asking \cup Loops \cup Exchanges
  /\ \A x \in Exchanges : x \in Starts \cup Stops \cup Asking
  /\ Shows \subseteq Asking /\ Stores \subseteq Asking /\ wu_clear \in Asking /\ Shows \cap Stores = {}
  /\ wu_clear \notin Shows \cup Stores /\ wu_show_mode \in Shows
  /\ wu_write_interval \in Stores /\ wu_write_mode \in Stores /\ wu_write_user \in Stores
  /\ wu_read_data \in Loops /\ wu_read \in Loops /\ wu_stop_log \in Stops
  /\ Asking \subseteq Exchanges /\ Starts \subseteq Exchanges /\ Stops \subseteq Exchanges
<1>1. /\ Asking \subseteq Exchanges /\ Starts \subseteq Exchanges /\ Stops \subseteq Exchanges
      /\ \A x \in Exchanges : x \in Starts \cup Stops \cup Asking
      /\ Shows \subseteq Asking /\ Stores \subseteq Asking /\ wu_clear \in Asking
  BY DEF Asking, Exchanges
<1>2. \A x \in Failures \cup Loops : x \notin Exchanges
  BY MarkIs
<1>3. /\ wu_show_mode \in Shows /\ wu_read_data \in Loops /\ wu_read \in Loops /\ wu_stop_log \in Stops
      /\ wu_write_interval \in Stores /\ wu_write_mode \in Stores /\ wu_write_user \in Stores
  BY DEF Shows, Stores, Loops, Stops
<1>4. /\ Asking \cap (Starts \cup Stops \cup Loops) = {} /\ Starts \cap (Stops \cup Loops) = {} /\ Stops \cap Loops = {}
      /\ Failures \cap (Starts \cup Stops \cup Loops) = {} /\ Shows \cap Stores = {} /\ Asking \cap Failures = {}
      /\ wu_clear \notin Shows \cup Stores
  BY StepsDiffer DEF EarlySteps, Asking
<1> QED BY <1>1, <1>2, <1>3, <1>4

LEMMA SkipLeads ==
  ASSUME Followed, pc \in Busy, Skip, reset' = reset
  PROVE  /\ pc' \in {"closed", "read", "write"} /\ (pc' = "read" => Op' \in Loops)
         /\ Op \in Starts => pc' = "read"
         /\ Op \in Loops => pc' = "write" /\ Op' \in Stops
         /\ Op \in Stops /\ ~reset => pc' = "closed"
         /\ \A x : Contains(script, x) <=> x = Op \/ Contains(script', x)
         /\ Op # wu_show_mode => Spare' = Spare
         /\ Op = wu_show_mode => Spare = 0 /\ Spare' = 1
         /\ script # <<>> /\ script' = Tail(script)
<1>1. script # <<>> /\ script \in Seq(Steps) /\ Ordered(script) /\ Op = script[1] /\ Len(script) \in Nat \ {0}
      /\ Scripted
  BY BusyIs, TypesAre DEF Scripted
<1>2. /\ pc' \in {"closed", "read", "write"} /\ script' = Tail(script)
      /\ \A x : Contains(script, x) <=> x = Op \/ Contains(script', x)
  BY <1>1, SkipKeeps
<1>3. pc' = IF script' = <<>> THEN "closed" ELSE IF Head(script') \in {wu_read_data, wu_read} THEN "read" ELSE "write"
  BY <1>2 DEF Skip, Run
<1>4. Op' = Head(script')
  BY DEF Op
<1>5. pc' = "read" => Op' \in Loops
  BY <1>3, <1>4 DEF Loops
<1>6. /\ Tail(script) \in Seq(Steps) /\ Len(Tail(script)) = Len(script) - 1
      /\ \A k \in 1..(Len(script) - 1) : Tail(script)[k] = script[k + 1]
  BY <1>1, HeadAndTail
<1>7. ASSUME 1 < Len(script) PROVE script' # <<>> /\ Op' = script[2]
  <2>1. Len(script') # 0 /\ 1 \in 1..(Len(script) - 1) /\ 1 + 1 = 2
    BY <1>1, <1>2, <1>6, <1>7
  <2>2. script' # <<>>
    BY <2>1, EmptyIs
  <2>3. Head(script') = script'[1]
    BY <1>2, <1>6, <2>2, HeadAndTail
  <2>4. script'[1] = script[2]
    BY <1>2, <1>6, <2>1
  <2> QED BY <1>4, <2>2, <2>3, <2>4
<1>8. 1 \in 1..Len(script) /\ 1 + 1 = 2
  BY <1>1
<1>9. ASSUME Op \in Starts PROVE pc' = "read"
  <2>1. 1 < Len(script) /\ script[2] \in Loops
    BY <1>1, <1>8, <1>9 DEF Ordered
  <2> QED BY <1>3, <1>4, <1>7, <2>1 DEF Loops
<1>10. ASSUME Op \in Loops PROVE pc' = "write" /\ Op' \in Stops
  <2>1. 1 < Len(script) /\ script[2] \in Stops
    BY <1>1, <1>8, <1>10 DEF Ordered
  <2>2. script[2] \notin {wu_read_data, wu_read}
    BY <2>1, ClassesDiffer
  <2> QED BY <1>3, <1>4, <1>7, <2>1, <2>2
<1>11. ASSUME Op \in Stops, ~reset PROVE pc' = "closed"
  <2>1. Len(script) = 1
    BY <1>1, <1>8, <1>11 DEF Scripted, Closing
  <2>2. Len(Tail(script)) = 0
    BY <1>6, <2>1
  <2>3. script' = <<>>
    <3> DEFINE t == Tail(script)
    <3>1. t \in Seq(Steps) /\ Len(t) = 0
      BY <1>6, <2>2
    <3> HIDE DEF t
    <3>2. t = <<>>
      BY <3>1
    <3> QED BY <1>2, <3>2 DEF t
  <2> QED BY <1>3, <2>3
<1>12. Op = wu_show_mode => ~Contains(script', wu_show_mode)
  <2> SUFFICES ASSUME Op = wu_show_mode, Contains(script', wu_show_mode) PROVE FALSE
    OBVIOUS
  <2>1. PICK k \in 1..(Len(script) - 1) : script[k + 1] = wu_show_mode
    BY <1>2, <1>6 DEF Contains
  <2>2. k + 1 \in 1..Len(script) /\ k + 1 # 1
    BY <1>1
  <2> QED BY <1>1, <1>8, <2>1, <2>2 DEF Ordered
<1>13. Contains(script, wu_show_mode)' <=> Contains(script', wu_show_mode)
  OBVIOUS
<1> QED BY <1>1, <1>2, <1>5, <1>9, <1>10, <1>11, <1>12, <1>13 DEF Spare

LEMMA RunLeads ==
  ASSUME NEW s, Run(s)
  PROVE  pc' \in {"closed", "read", "write"} /\ (pc' = "read" => Op' \in Loops) /\ script' = s
  BY DEF Run, Op, Loops

LEMMA KnownInit == Init => Known
<1> SUFFICES ASSUME Init PROVE Known
  OBVIOUS
<1>1. pc = "args" /\ script = <<>> /\ Len(script) = 0
  BY EmptyIs DEF Init
<1> QED BY <1>1 DEF Known, Busy

LEMMA KnownStays ==
  ASSUME Followed, Known, UNCHANGED <<program, fd>>,
         pc' \in Busy \cup {"setup"} => pc \in Busy \cup {"setup"},
         script' \in {script, <<>>} \/ (script # <<>> /\ script' = Tail(script))
  PROVE  Known'
<1>1. pc' \in Busy \cup {"setup"} => fd' # "none"
  BY DEF Known
<1>2. ASSUME program' = "wattsup-simple"
      PROVE  \A k \in 1..Len(script') : script'[k] \in Starts \cup Stops \cup {wu_read}
  <2>1. script \in Seq(Steps) /\ \A k \in 1..Len(script) : script[k] \in Starts \cup Stops \cup {wu_read}
    BY <1>2, TypesAre DEF Known
  <2>2. CASE script' = script
    BY <2>1, <2>2
  <2>3. CASE script' = <<>>
    BY <2>3, EmptyIs
  <2>4. CASE script # <<>> /\ script' = Tail(script)
    <3>1. /\ Len(script) \in Nat \ {0} /\ Len(script') = Len(script) - 1
          /\ \A k \in 1..(Len(script) - 1) : script'[k] = script[k + 1]
      BY <2>1, <2>4, HeadAndTail
    <3>2. \A k \in 1..(Len(script) - 1) : k + 1 \in 1..Len(script)
      BY <3>1
    <3> QED BY <2>1, <3>1, <3>2
  <2> QED BY <2>2, <2>3, <2>4
<1> QED BY <1>1, <1>2 DEF Known

LEMMA KnownEnds ==
  ASSUME script' = <<>>, pc' \notin Busy \cup {"setup"} \/ fd' # "none"
  PROVE  Known'
<1>1. Len(script') = 0
  BY EmptyIs
<1> QED BY <1>1 DEF Known

LEMMA SimpleHasNoData ==
  ASSUME Followed, Known, pc \in Busy, program = "wattsup-simple"
  PROVE  Op \in Starts \cup Stops \cup {wu_read} /\ Op # wu_read_data
<1>1. Op = script[1] /\ 1 \in 1..Len(script)
  BY BusyIs
<1>2. Op \in Starts \cup Stops \cup {wu_read}
  BY <1>1 DEF Known
<1> QED BY <1>2, ClassesDiffer, LoopIs

LEMMA KnownNext ==
  ASSUME Followed, Known, [Next]_vars
  PROVE  Known'
<1>1. CASE parse_args \/ parse_args_better \/ open_device \/ open_device_better \/ open_device_simple
  <2>1. script = <<>>
    BY <1>1, TypesAre DEF AtStep, Early, parse_args, parse_args_better, ParseArgs, open_device,
          open_device_better, open_device_simple
  <2>2. /\ script' = script /\ pc' \in {"open", "setup", "crashed", "refused"}
        /\ pc' = "setup" => fd' \in {"meter", "stdin"}
    BY <1>1 DEF parse_args, parse_args_better, ParseArgs, open_device, open_device_better, open_device_simple
  <2> QED BY <2>1, <2>2, KnownEnds DEF Busy
<1>2. CASE setup_serial_device
  <2>1. /\ pc = "setup" /\ UNCHANGED <<program, fd>> /\ fd # "none"
        /\ Run(Main(program, request)) \/ CloseOnError
    BY <1>2 DEF setup_serial_device, Known
  <2>2. CASE CloseOnError
    BY <2>1, <2>2, KnownEnds DEF CloseOnError
  <2>3. CASE Run(Main(program, request))
    <3>1. script' = Main(program, request)
      BY <2>3 DEF Run
    <3>2. ASSUME program = "wattsup-simple"
          PROVE  \A k \in 1..Len(script') : script'[k] \in Starts \cup Stops \cup {wu_read}
      <4>1. script' = SimpleMain
        BY <3>1, <3>2 DEF Main
      <4>2. /\ Len(SimpleMain) = 3 /\ SimpleMain[1] = wu_start_log /\ SimpleMain[2] = wu_read
            /\ SimpleMain[3] = wu_stop_external_log
        BY DEF SimpleMain
      <4>3. wu_start_log \in Starts /\ wu_stop_external_log \in Stops
        BY DEF Starts, Stops
      <4>4. \A k \in 1..3 : k = 1 \/ k = 2 \/ k = 3
        OBVIOUS
      <4> QED BY <4>1, <4>2, <4>3, <4>4
    <3> QED BY <2>1, <3>2 DEF Known
  <2> QED BY <2>1, <2>2, <2>3
<1>3. CASE StoreFails \/ WriteFails
  <2>1. /\ pc \in Busy /\ UNCHANGED <<program, fd>>
        /\ CloseOnError \/ script' = script \/ Skip \/ Run(<<>>)
    BY <1>3 DEF StoreFails, WriteFails, Busy
  <2> QED BY <2>1, KnownStays, BusyIs DEF CloseOnError, Skip, Run
<1>4. CASE wu_write \/ wu_clear_better \/ SleepInterval \/ ReadSimple \/ ReadRest \/ ReadBroken \/ ReadRecord
           \/ ReadReply \/ Sleep \/ SleepHalf
  <2>1. /\ pc \in Busy /\ UNCHANGED <<program, fd>> /\ (script' = script \/ Skip)
    BY <1>4 DEF wu_write, wu_clear_better, SleepInterval, ReadSimple, ReadRest, ReadBroken, ReadRecord,
                ReadReply, Sleep, SleepHalf, Busy
  <2> QED BY <2>1, KnownStays, BusyIs DEF Skip, Run
<1>5. CASE ctrlc_handler
  <2>1. UNCHANGED <<program, fd>> /\ ((script' = script /\ pc' = pc) \/ (pc \in Busy /\ Skip))
    BY <1>5 DEF ctrlc_handler, Busy
  <2>2. CASE script' = script /\ pc' = pc
    BY <2>1, <2>2, KnownStays
  <2>3. CASE pc \in Busy /\ Skip
    <3>1. script # <<>> /\ script' = Tail(script)
      BY <2>3, BusyIs DEF Skip, Run
    <3> QED BY <2>1, <2>3, <3>1, KnownStays
  <2> QED BY <2>1, <2>2, <2>3
<1>6. CASE ReadFails
  <2>1. /\ pc \in Busy /\ Op = wu_read_data /\ UNCHANGED <<program, fd>>
    BY <1>6 DEF ReadFails, Busy
  <2>2. program' # "wattsup-simple" /\ fd' # "none"
    BY <2>1, SimpleHasNoData DEF Known
  <2> QED BY <2>2 DEF Known
<1>7. CASE Interrupt \/ RunAgain
  BY <1>7, KnownEnds DEF Interrupt, RunAgain, StartsAfresh, Busy
<1>8. CASE Meter \/ UNCHANGED vars
  <2>1. UNCHANGED <<program, fd, script, pc>>
    BY <1>8 DEF Meter, MeterObeys, MeterSamples, MeterSendsRest, vars
  <2> QED BY <2>1, KnownStays
<1>9. CASE Breaks
  BY <1>9 DEF Breaks, Known
<1> QED BY <1>1, <1>2, <1>3, <1>4, <1>5, <1>6, <1>7, <1>8, <1>9 DEF Next, Program, Done

\* A line that is broken is a fault of the run.
LEMMA WholeNext ==
  ASSUME calm => fd # "broken", [Next]_vars, calm'
  PROVE  fd' # "broken"
<1>1. CASE parse_args \/ parse_args_better \/ open_device \/ open_device_better \/ open_device_simple
  <2>1. fd' \in {fd, "meter", "stdin"} /\ calm' = calm
    BY <1>1 DEF parse_args, parse_args_better, open_device, open_device_better, open_device_simple,
                ParseArgs, NoFault
  <2> QED BY <2>1
<1>2. CASE Interrupt \/ RunAgain
  BY <1>2 DEF Interrupt, RunAgain, StartsAfresh
<1>3. CASE Breaks
  BY <1>3 DEF Breaks, Fault
<1>4. CASE setup_serial_device \/ StoreFails \/ wu_clear_better \/ SleepInterval \/ SleepHalf \/ ReadSimple
           \/ ReadRest \/ ReadBroken \/ MeterSendsRest \/ UNCHANGED vars
  <2>1. fd' = fd /\ (NoFault \/ calm' = calm)
    BY <1>4, Zenon DEF setup_serial_device, StoreFails, wu_clear_better, SleepInterval, SleepHalf, ReadSimple,
                       ReadRest, ReadBroken, MeterSendsRest, vars
  <2> QED BY ONLY calm', calm => fd # "broken", <2>1, Zenon DEF NoFault
<1>5. CASE wu_write \/ WriteFails \/ Sleep \/ ReadReply \/ ReadRecord \/ ReadFails \/ ctrlc_handler \/ MeterSamples
           \/ MeterObeys
  <2>1. CASE wu_write \/ WriteFails \/ Sleep
    BY <1>5, <2>1, Zenon DEF wu_write, WriteFails, Sleep, NoFault, Fault
  <2>2. CASE ReadReply \/ ReadRecord \/ ReadFails
    BY <1>5, <2>2, Zenon DEF ReadReply, ReadRecord, ReadFails, TimesOut, NoFault, Fault
  <2>3. CASE ctrlc_handler
    BY <2>3, Zenon DEF ctrlc_handler, Disturbs, NoFault
  <2>4. CASE MeterSamples \/ MeterObeys
    BY <2>4, Zenon DEF MeterSamples, MeterObeys, NoFault, Fault
  <2> QED BY <1>5, <2>1, <2>2, <2>3, <2>4
<1> QED BY <1>1, <1>2, <1>3, <1>4, <1>5 DEF Next, Program, Meter, Done

-----------------------------------------------------------------------------
(***************************************************************************)
(* Going on in a calm run.                                                 *)
(***************************************************************************)
LEMMA ObedientAfter ==
  ASSUME pc' \in {"closed", "read", "write"}, pc' = "read" => Op' \in Loops, fd' = "stdin" => Idle',
         pending' = <<>>, log' => pc' = "read" \/ (pc' = "write" /\ Op' \in Stops)
  PROVE  Obedient'
<1>1. pc' = "read" => Op' \notin Exchanges /\ Op' # wu_write_user
  BY ClassesDiffer
<1> QED BY <1>1 DEF Obedient, Early

LEMMA RepliedAfter ==
  ASSUME pc' \in {"closed", "read", "write"}, pc' = "read" => Op' \in Loops,
         pc' = "closed" \/ Settled' \/ (AllData' /\ (pc' = "read" \/ Op' \in Stops))
  PROVE  Replied'
<1>1. pc' = "read" => Op' \notin Exchanges \cup Asking \cup Starts \cup Stores
  BY ClassesDiffer
<1>2. Op' \in Stops => Op' \notin Asking \cup Starts \cup Failures \cup Loops
  BY ClassesDiffer
<1>3. Settled' => AllData'
  BY DEF Settled, OnlyTails, AllData
<1> QED BY <1>1, <1>2, <1>3 DEF Replied, Busy

LEMMA SettingAfter ==
  ASSUME Setting, pc \in Busy, UNCHANGED <<request, settings>>, ret' = 0 => ret = 0,
         \A x \in {wu_write_interval, wu_write_mode} :
           Contains(script, x) => Contains(script', x)
                                  \/ (x = Op /\ pc = "sleep" /\ pending = <<>> /\ SettingNow)
  PROVE  Setting'
<1>1. wu_write_interval.cmd # wu_write_mode.cmd
  BY DEF wu_write_interval, wu_write_mode, Exchange
<1>2. Contains(script, wu_write_interval)' <=> Contains(script', wu_write_interval)
  OBVIOUS
<1>3. Contains(script, wu_write_mode)' <=> Contains(script', wu_write_mode)
  OBVIOUS
<1> QED BY <1>1, <1>2, <1>3 DEF Setting, SettingNow

LEMMA QuietIs == Quiet => pending = <<>> /\ (Owes => owed \in {"D", "?"})
  BY Zenon DEF Quiet, Owes

LEMMA NotAsleep == pc' # "sleep" => SettingNow'
  BY DEF SettingNow

LEMMA DeviceIs ==
  ASSUME Followed, Known, fd # "broken", pc \in Busy
  PROVE  fd \in {"meter", "stdin"}
  BY TypesAre DEF Known

\* A line without pieces is settled.
LEMMA EmptyIsSettled ==
  ASSUME Len(line') = 0, ~Owes'
  PROVE  Settled'
<1>1. Weight' = 0
  BY DEF Weight
<1>2. Spare' \in {0, 1}
  BY DEF Spare
<1>3. OnlyTails'
  BY DEF OnlyTails
<1> QED BY <1>1, <1>2, <1>3 DEF Settled

LEMMA OpensCalmly ==
  ASSUME Followed, Served, calm',
         parse_args \/ parse_args_better \/ open_device \/ open_device_better \/ open_device_simple
  PROVE  Calmly'
<1>1. /\ pc \in {"args", "open"} /\ pc' \in {"open", "setup", "crashed", "refused"}
      /\ calm /\ UNCHANGED <<log, pending, owed, line>>
  BY DEF parse_args, parse_args_better, open_device, open_device_better, open_device_simple, ParseArgs,
         NoFault, meter
<1>2. Idle
  BY <1>1 DEF Served, Calmly, Obedient, Early
<1>3. Idle'
  BY <1>1, <1>2 DEF Idle, Owes
<1>4. Obedient'
  BY <1>1, <1>3 DEF Obedient
<1>5. Replied' /\ Setting' /\ SettingNow'
  BY <1>1 DEF Replied, Setting, SettingNow, Busy
<1> QED BY <1>4, <1>5 DEF Calmly

LEMMA SetupCalmly ==
  ASSUME Followed, Served, calm', setup_serial_device
  PROVE  Calmly'
<1>1. /\ pc = "setup" /\ calm /\ ((Run(Main(program, request)) /\ ret' = ret) \/ CloseOnError)
      /\ line' = (IF fd = "meter" THEN <<>> ELSE line)
      /\ UNCHANGED <<program, request, log, pending, owed, settings>>
  BY DEF setup_serial_device, NoFault
<1>2. Idle
  BY <1>1 DEF Served, Calmly, Obedient, Early
<1>3. Idle'
  BY <1>1, <1>2 DEF Idle, Owes
<1>4. pc' \in {"closed", "read", "write"} /\ (pc' = "read" => Op' \in Loops)
  BY <1>1, RunLeads DEF CloseOnError
<1>5. Obedient'
  BY <1>3, <1>4, ObedientAfter DEF Idle
<1>6. Settled'
  <2>1. Len(line') = 0 /\ ~Owes'
    BY <1>3, EmptyIs DEF Idle
  <2> QED BY <2>1, EmptyIsSettled
<1>7. Replied'
  BY <1>4, <1>6, RepliedAfter
<1>8. Setting'
  <2>1. CASE CloseOnError
    BY <2>1 DEF CloseOnError, Setting
  <2>2. CASE Run(Main(program, request))
    <3>1. script' = Main(program, request)
      BY <2>2 DEF Run
    <3>2. MainPromises(Main(program, request), request)
      BY MainIs, TypesAre
    <3>3. /\ request'.interval = "valued" => Contains(script', wu_write_interval)
          /\ request'.mode = "valued" => Contains(script', wu_write_mode)
      BY <1>1, <3>1, <3>2 DEF MainPromises
    <3>4. Contains(script, wu_write_interval)' <=> Contains(script', wu_write_interval)
      OBVIOUS
    <3>5. Contains(script, wu_write_mode)' <=> Contains(script', wu_write_mode)
      OBVIOUS
    <3> QED BY <3>3, <3>4, <3>5 DEF Setting
  <2> QED BY <1>1, <2>1, <2>2
<1>9. SettingNow'
  BY <1>4, NotAsleep
<1> QED BY <1>5, <1>7, <1>8, <1>9 DEF Calmly

\* What does not change the meter leaves what is known of it.
LEMMA MeterKeeps ==
  ASSUME UNCHANGED <<pending, owed, log, line>>
  PROVE  /\ Idle' = Idle /\ Owes' = Owes /\ Weight' = Weight /\ OnlyTails' = OnlyTails /\ AllData' = AllData
         /\ Spare' = Spare => Settled' = Settled
<1>1. Idle' = Idle /\ Owes' = Owes
  BY DEF Idle, Owes
<1>2. Weight' = Weight
  BY <1>1 DEF Weight
<1>3. OnlyTails' = OnlyTails /\ AllData' = AllData
  BY DEF OnlyTails, AllData
<1> QED BY <1>1, <1>2, <1>3 DEF Settled

LEMMA StoreFailsCalmly ==
  ASSUME Followed, Served, calm', StoreFails
  PROVE  Calmly'
<1>1. /\ pc = "write" /\ pc \in Busy /\ calm /\ Op \in Failures
      /\ \/ CloseOnError
         \/ pc' = "crashed" /\ UNCHANGED <<script, ret>>
         \/ Op = Overrun /\ Skip /\ ret' = ret
      /\ UNCHANGED <<request, fd, log, settings, pending, owed, line, reset>>
  BY DEF StoreFails, past, meter, Busy, NoFault, Failures
<1>2. /\ pending = <<>> /\ ~log /\ (fd = "stdin" => Idle)
      /\ ~reset /\ fd = "meter" => Settled
      /\ fd = "meter" => Setting
      /\ fd \in {"meter", "stdin"}
  BY <1>1, ClassesDiffer, DeviceIs DEF Served, Calmly, Obedient, Replied
<1>3. Idle' = Idle
  BY <1>1, MeterKeeps
<1>4. CASE CloseOnError
  <2>1. pc' = "closed" /\ script' = <<>> /\ ret' = -1
    BY <1>4 DEF CloseOnError
  <2>2. Obedient' /\ Replied'
    BY <1>1, <1>2, <1>3, <2>1, ObedientAfter, RepliedAfter
  <2>3. Setting' /\ SettingNow'
    BY <2>1 DEF Setting, SettingNow
  <2> QED BY <2>2, <2>3 DEF Calmly
<1>5. CASE pc' = "crashed" /\ UNCHANGED <<script, ret>>
  <2>1. Obedient'
    BY <1>1, <1>2, <1>3, <1>5 DEF Obedient, Early
  <2>2. Replied' /\ Setting' /\ SettingNow'
    BY <1>5 DEF Replied, Setting, SettingNow, Busy
  <2> QED BY <2>1, <2>2 DEF Calmly
<1>6. CASE Op = Overrun /\ Skip /\ ret' = ret
  <2>1. Op \notin Stores /\ Op # wu_show_mode /\ Op # wu_write_interval /\ Op # wu_write_mode
    BY <1>1, ClassesDiffer
  <2>2. /\ pc' \in {"closed", "read", "write"} /\ (pc' = "read" => Op' \in Loops) /\ Spare' = Spare
        /\ \A x : Contains(script, x) <=> x = Op \/ Contains(script', x)
    BY <1>1, <1>6, <2>1, SkipLeads
  <2>3. Settled' = Settled
    BY <1>1, <2>2, MeterKeeps
  <2>4. Obedient'
    BY <1>1, <1>2, <1>3, <2>2, ObedientAfter
  <2>5. ~reset' /\ fd' = "meter" => Replied'
    BY <1>1, <1>2, <2>2, <2>3, RepliedAfter
  <2>6. fd' = "meter" => Setting' /\ SettingNow'
    BY <1>1, <1>2, <1>6, <2>1, <2>2, SettingAfter, NotAsleep
  <2> QED BY <2>4, <2>5, <2>6 DEF Calmly
<1> QED BY <1>1, <1>4, <1>5, <1>6

LEMMA WriteCalmly ==
  ASSUME Followed, Served, calm', wu_write
  PROVE  Calmly'
<1>1. /\ pc = "write" /\ pc \in Busy /\ Exchanging /\ calm
      /\ pending' = (IF fd = "meter" THEN Append(pending, Op) ELSE pending)
      /\ Op # wu_write_user /\ pc' = (IF Op.sleeps THEN "sleep" ELSE "read")
      /\ UNCHANGED <<request, script, fd, ret, log, settings, owed, line, reset>>
  BY DEF wu_write, Fault, past, Busy
<1>2. Op \in Exchanges /\ (~Op.sleeps <=> Op = wu_show_mode) /\ Op.sleeps \in BOOLEAN
  BY <1>1, BusyIs, KindsOfExchange, ExchangeIs
<1>3. /\ pending = <<>> /\ (log => Op \in Stops) /\ (fd = "stdin" => Idle)
      /\ ~reset /\ fd = "meter" /\ Op \in Asking \cup Starts => Settled
      /\ fd = "meter" => Setting
      /\ fd \in {"meter", "stdin"}
  BY <1>1, DeviceIs DEF Served, Calmly, Obedient, Replied
<1>4. Op' = Op /\ Spare' = Spare
  BY <1>1 DEF Op, Spare
<1>5. /\ pc' \in {"sleep", "read"} /\ (pc' = "read" => Op = wu_show_mode)
  BY <1>1, <1>2
<1>6. CASE fd = "meter"
  <2>1. pending' = <<Op>> /\ pending' # <<>>
    BY <1>1, <1>3, <1>6
  <2>2. Obedient'
    <3>1. wu_show_mode \notin Stops
      BY ClassesDiffer
    <3> QED BY <1>1, <1>2, <1>3, <1>4, <1>5, <1>6, <2>1, <3>1 DEF Obedient, Early
  <2>3. Settled' = Settled
    BY <1>1, <1>4 DEF Settled, Weight, OnlyTails, Owes
  <2>4. ASSUME ~reset' PROVE Replied'
    <3>1. Op' \in Asking \cup Starts => Settled'
      BY <1>1, <1>3, <1>4, <1>6, <2>3, <2>4
    <3>2. Op' \notin Loops /\ (Op' \in Stores => Op' \in Asking)
      BY <1>2, <1>4, ClassesDiffer
    <3> QED BY <1>4, <1>5, <2>1, <3>1, <3>2 DEF Replied
  <2>5. Setting'
    BY <1>1, <1>3, <1>6, SettingAfter
  <2>6. SettingNow'
    BY <2>1 DEF SettingNow
  <2> QED BY <2>2, <2>4, <2>5, <2>6 DEF Calmly
<1>7. CASE fd = "stdin"
  <2>1. Idle /\ pending' = pending
    BY <1>1, <1>3, <1>7
  <2>2. Idle'
    BY <1>1, <2>1, MeterKeeps
  <2>3. Obedient'
    BY <1>1, <1>4, <1>5, <2>2 DEF Obedient, Early, Idle
  <2> QED BY <1>1, <1>7, <2>3 DEF Calmly
<1> QED BY <1>3, <1>6, <1>7

LEMMA ClearBetterCalmly ==
  ASSUME Followed, Served, calm', wu_clear_better
  PROVE  Calmly'
<1>1. /\ pc = "write" /\ pc \in Busy /\ Op = wu_clear /\ calm /\ line' = <<>> /\ log' \in {log, FALSE}
      /\ UNCHANGED <<request, pc, script, fd, ret, settings, pending, owed, reset>>
  BY DEF wu_clear_better, past, Busy, NoFault
<1>2. /\ pending = <<>> /\ (log => Op \in Stops) /\ (fd = "stdin" => Idle)
      /\ ~reset /\ fd = "meter" => Settled
      /\ fd = "meter" => Setting
      /\ Op \notin Stops \cup Loops
  BY <1>1, ClassesDiffer DEF Served, Calmly, Obedient, Replied
<1>3. Op' = Op /\ Spare' = Spare /\ Owes' = Owes
  BY <1>1 DEF Op, Spare, Owes
<1>4. Idle => Idle'
  BY <1>1, <1>3 DEF Idle
<1>5. Obedient'
  <2>1. ~log'
    BY <1>1, <1>2, Zenon
  <2>2. pc' = "write" /\ pending' = <<>> /\ (fd' = "stdin" => Idle')
    BY <1>1, <1>2, <1>4
  <2> QED BY <2>1, <2>2 DEF Obedient, Early
<1>6. ASSUME Settled PROVE Settled'
  <2>1. Len(line) \in Nat /\ Len(line') = 0
    BY <1>1, TypesAre, EmptyIs
  <2> HIDE <1>1
  <2>2. Weight' <= Weight /\ Weight \in Nat /\ Weight' \in Nat
    BY <1>3, <2>1 DEF Weight
  <2>3. Spare \in Nat
    BY DEF Spare
  <2>4. OnlyTails'
    BY <2>1 DEF OnlyTails
  <2>5. Weight <= Spare
    BY <1>6 DEF Settled
  <2>6. Weight' <= Spare'
    BY <1>3, <2>2, <2>3, <2>5
  <2> QED BY <2>4, <2>6 DEF Settled
<1>7. ~reset' /\ fd' = "meter" => Replied'
  BY <1>1, <1>2, <1>3, <1>6 DEF Replied
<1>8. fd' = "meter" => Setting' /\ SettingNow'
  BY <1>1, <1>2, SettingAfter, NotAsleep
<1> QED BY <1>5, <1>7, <1>8 DEF Calmly

\* A step that waited for the meter is over: from a sleep, or a wu_clear of no reply.
LEMMA OverCalmly ==
  ASSUME Followed, Known, Calmly, pc = "sleep", pending = <<>>, fd = "stdin" => Idle, Skip,
         Op \notin Shows \cup {wu_clear},
         UNCHANGED <<request, fd, ret, log, settings, pending, owed, line, reset>>
  PROVE  Calmly'
<1>1. pc \in Busy /\ Op \in Exchanges
  BY TypesAre DEF AtStep, Busy
<1>2. /\ Op \in Stores \cup Starts \cup Stops /\ Op # wu_show_mode /\ Op \notin Loops
      /\ Op \in Stores => Op \in Asking
  BY <1>1, ClassesDiffer DEF Asking
<1>3. log => Op \in Starts
  BY <1>1 DEF Calmly, Obedient
<1>4. /\ pc' \in {"closed", "read", "write"} /\ (pc' = "read" => Op' \in Loops) /\ Spare' = Spare
      /\ Op \in Starts => pc' = "read"
      /\ Op \in Stops /\ ~reset => pc' = "closed"
      /\ \A x : Contains(script, x) <=> x = Op \/ Contains(script', x)
  BY <1>1, <1>2, SkipLeads
<1>5. Idle' = Idle /\ Settled' = Settled /\ AllData' = AllData
  BY <1>4, MeterKeeps
<1>6. Obedient'
  BY <1>3, <1>4, <1>5, ObedientAfter
<1>7. ASSUME ~reset', fd' = "meter" PROVE Replied'
  <2>1. Replied
    BY <1>7 DEF Calmly
  <2>2. Op \in Stores => Settled
    BY <2>1 DEF Replied
  <2>3. Op \in Starts => AllData
    BY <2>1 DEF Replied
  <2> QED BY <1>2, <1>4, <1>5, <1>7, <2>2, <2>3, RepliedAfter
<1>8. ASSUME fd' = "meter" PROVE Setting' /\ SettingNow'
  <2>1. Setting /\ SettingNow
    BY <1>8 DEF Calmly
  <2> QED BY <1>1, <1>4, <2>1, SettingAfter, NotAsleep
<1> QED BY <1>6, <1>7, <1>8 DEF Calmly

LEMMA SleepCalmly ==
  ASSUME Followed, Served, calm', Sleep
  PROVE  Calmly'
<1>1. /\ pc = "sleep" /\ pc \in Busy /\ calm /\ (fd = "meter" => Quiet)
      /\ IF Op.reads THEN pc' = "read" /\ UNCHANGED script ELSE Skip
      /\ UNCHANGED <<request, fd, ret, log, settings, pending, owed, line, reset>>
  BY DEF Sleep, past, meter, Busy, NoFault, Fault
<1>2. Calmly /\ Known /\ fd \in {"meter", "stdin"} /\ (fd = "stdin" => Idle)
  BY <1>1, DeviceIs DEF Served, Calmly, Obedient
<1>3. pending = <<>> /\ (fd = "meter" /\ Owes => owed \in {"D", "?"})
  BY <1>1, <1>2, QuietIs DEF Idle
<1>4. Op \in Exchanges /\ (Op \in Shows \cup {wu_clear} => Op.reads) /\ (Op \in Stores \cup Starts => ~Op.reads)
  <2>1. Op \in Exchanges
    BY <1>1, TypesAre DEF AtStep
  <2>2. wu_clear.reads
    BY DEF wu_clear, Exchange
  <2> QED BY <2>1, <2>2, KindsOfExchange
<1>5. CASE ~Op.reads
  <2>1. Skip /\ Op \notin Shows \cup {wu_clear}
    BY <1>1, <1>4, <1>5
  <2> QED BY <1>1, <1>2, <1>3, <2>1, OverCalmly
<1>6. CASE Op.reads
  <2>1. pc' = "read" /\ script' = script /\ Op \notin Stores \cup Starts
    BY <1>1, <1>4, <1>6
  <2>2. Op' = Op /\ Spare' = Spare
    BY <2>1 DEF Op, Spare
  <2>3. Idle' = Idle /\ Settled' = Settled /\ Owes' = Owes /\ Weight' = Weight
    BY <1>1, <2>2, MeterKeeps
  <2>4. Answered' = Answered
    BY <1>1, <2>2, <2>3 DEF Answered
  <2>5. ~log
    BY <1>1, <1>2, <1>3, <1>4, <2>1 DEF Calmly, Obedient
  <2>6. Op # wu_write_user
    BY <2>1, ClassesDiffer
  <2>7. Obedient'
    BY <1>1, <1>2, <1>3, <2>1, <2>2, <2>3, <2>5, <2>6 DEF Obedient, Early
  <2>8. ASSUME ~reset', fd' = "meter" PROVE Replied'
    <3>1. Replied
      BY <1>1, <1>2, <2>8 DEF Calmly
    <3>2. Op \in Asking => Answered
      BY <1>1, <1>3, <3>1 DEF Replied
    <3>3. Op \notin Loops
      BY <1>4, ClassesDiffer
    <3> QED BY <1>1, <1>3, <2>1, <2>2, <2>3, <2>4, <2>8, <3>2, <3>3 DEF Replied
  <2>9. fd' = "meter" => Setting' /\ SettingNow'
    BY <1>1, <1>2, <2>1, SettingAfter, NotAsleep DEF Calmly
  <2> QED BY <2>7, <2>8, <2>9 DEF Calmly
<1> QED BY <1>1, <1>4, <1>5, <1>6, ExchangeIs

-----------------------------------------------------------------------------
(***************************************************************************)
(* The reads.  A read takes at least two pieces when there are two.        *)
(***************************************************************************)
LEMMA TakenOfChunk ==
  ASSUME line \in Seq(Pieces), line # <<>>, TakeChunk, ReadMax >= 2
  PROVE  /\ Len(line) \in Nat \ {0} /\ Len(line') \in Nat
         /\ Len(line') = 0 \/ Len(line') <= Len(line) - 2
         /\ \A k \in 1..Len(line') : \E m \in 1..Len(line) : m >= k + 2 /\ line'[k] = line[m]
         /\ \A k \in 1..Len(Chunk) : k \in 1..Len(line) /\ Chunk[k] = line[k]
<1>1. /\ Len(Chunk) \in 1..ReadMax /\ Len(Chunk) <= Len(line)
      /\ Len(Chunk) = IF Len(line) < ReadMax THEN Len(line) ELSE ReadMax
      /\ \A k \in 1..Len(Chunk) : Chunk[k] = line[k]
  BY ChunkIs
<1>2. /\ Len(line') = Len(line) - Len(Chunk)
      /\ \A k \in 1..Len(line') : k + Len(Chunk) \in 1..Len(line) /\ line'[k] = line[k + Len(Chunk)]
  BY TakenIs
<1> DEFINE n == Len(Chunk)
           o == Len(line)
<1>3. n \in 1..ReadMax /\ n <= o /\ n = (IF o < ReadMax THEN o ELSE ReadMax) /\ Len(line') = o - n
  BY <1>1, <1>2
<1>4. o \in Nat \ {0}
  BY PlacesOf, EmptyIs
<1>5. \A k \in 1..Len(line') : k + n \in 1..o /\ line'[k] = line[k + n]
  BY <1>2
<1>6. \A k \in 1..n : Chunk[k] = line[k]
  BY <1>1
<1> HIDE DEF n, o, Chunk
<1>7. Len(line') = 0 \/ (n >= 2 /\ Len(line') <= o - 2)
  BY <1>3, <1>4, WattsupAssumption
<1>8. Len(line') \in Nat
  BY <1>3, <1>4, WattsupAssumption
<1>9. \A k \in 1..Len(line') : k + n \in 1..o /\ k + n >= k + 2 /\ line'[k] = line[k + n]
  BY <1>3, <1>5, <1>7, <1>8
<1>10. \A k \in 1..n : k \in 1..o
  BY <1>3, <1>4
<1> QED BY <1>4, <1>6, <1>7, <1>8, <1>9, <1>10 DEF n, o

\* What is left of a line in which only data begins a record is such a line.
LEMMA DataLeft ==
  ASSUME line \in Seq(Pieces), line # <<>>, TakeChunk, AllData
  PROVE  AllData'
<1>1. \A k \in 1..Len(line') : k + Len(Chunk) \in 1..Len(line) /\ line'[k] = line[k + Len(Chunk)]
  BY TakenIs
<1> HIDE DEF Chunk
<1> QED BY <1>1 DEF AllData

\* The reply to a request is read as a whole, but for a tail when the next does not wait.
LEMMA ReplyIsTaken ==
  ASSUME line \in Seq(Pieces), line # <<>>, TakeChunk, ReadMax >= 2, Answered, owed' = owed,
         \/ ~Owes /\ Spare' = Spare
         \/ Spare = 0 /\ Spare' = 1
  PROVE  Settled'
<1>1. /\ Len(line) \in Nat \ {0} /\ Len(line') \in Nat
      /\ Len(line') = 0 \/ Len(line') <= Len(line) - 2
      /\ \A k \in 1..Len(line') : \E m \in 1..Len(line) : m >= k + 2 /\ line'[k] = line[m]
  BY TakenOfChunk
<1>2. /\ Weight <= Spare + 2
      /\ \A k \in 1..Len(line) : line[k].part # "tail" => k <= Spare + 1
  BY DEF Answered
<1>3. Spare \in {0, 1}
  BY DEF Spare
<1>4. Weight = Len(line) + (IF Owes THEN 1 ELSE 0) /\ Weight' = Len(line') + (IF Owes THEN 1 ELSE 0)
  BY DEF Weight, Owes
<1>5. Weight' <= Spare'
  BY <1>1, <1>2, <1>3, <1>4
<1>6. OnlyTails'
  <2> SUFFICES ASSUME NEW k \in 1..Len(line'), line'[k].part # "tail" PROVE FALSE
    BY DEF OnlyTails
  <2>1. PICK m \in 1..Len(line) : m >= k + 2 /\ line'[k] = line[m]
    BY <1>1
  <2>2. m <= Spare + 1
    BY <1>2, <2>1
  <2> QED BY <1>1, <1>3, <2>1, <2>2
<1> QED BY <1>5, <1>6 DEF Settled

LEMMA ReadReplyCalmly ==
  ASSUME Followed, Served, calm', ReadReply, ReadMax >= 2
  PROVE  Calmly'
<1>1. /\ pc = "read" /\ pc \in Busy /\ Exchanging /\ calm /\ Skip
      /\ \/ Arrived # <<>> /\ TakeChunk
         \/ Arrived = <<>> /\ (fd = "meter" => Quiet) /\ line' = line
      /\ UNCHANGED <<request, fd, ret, log, settings, pending, owed, reset>>
  BY DEF ReadReply, TimesOut, past, Busy, NoFault, Fault
<1>2. Calmly /\ Known /\ fd \in {"meter", "stdin"} /\ (fd = "stdin" => Idle)
  BY <1>1, DeviceIs DEF Served, Calmly, Obedient
<1>3. Op \in Exchanges /\ Op.reads /\ Op \notin Loops
  BY <1>1, BusyIs, ClassesDiffer, TypesAre DEF AtStep
<1>4. Op \in Shows \cup Stops \cup {wu_clear} /\ Op \notin Stores /\ (Op \in Shows \cup {wu_clear} => Op \in Asking)
  BY <1>3, ClassesDiffer, KindsOfExchange DEF Asking
<1>5. ~log /\ (pending # <<>> => Op = wu_show_mode)
  BY <1>1, <1>2, <1>3 DEF Calmly, Obedient
<1>6. /\ pc' \in {"closed", "read", "write"} /\ (pc' = "read" => Op' \in Loops)
      /\ Op \in Stops /\ ~reset => pc' = "closed"
      /\ Op # wu_show_mode => Spare' = Spare
      /\ Op = wu_show_mode => Spare = 0 /\ Spare' = 1
      /\ \A x : Contains(script, x) <=> x = Op \/ Contains(script', x)
  BY <1>1, SkipLeads
<1>7. line \in Seq(Pieces)
  BY TypesAre
<1>8. /\ Arrived # <<>> => fd = "meter" /\ line # <<>>
      /\ Arrived = <<>> /\ fd = "meter" => line = <<>>
  BY DEF Arrived
\* Nothing arrived for a show that was not asked yet.
<1>9. pending = <<>>
  <2> SUFFICES ASSUME pending # <<>> PROVE FALSE
    OBVIOUS
  <2>1. Op = wu_show_mode
    BY <1>5
  <2>2. ~reset
    <3>1. Op = script[1] /\ 1 \in 1..Len(script)
      BY <1>1, BusyIs
    <3>2. wu_show_mode \notin ResetSteps
      BY ClassesDiffer DEF ResetSteps, Starts
    <3> QED BY <2>1, <3>1, <3>2, TypesAre DEF Scripted, Resetting
  <2>3. fd = "meter"
    BY <1>2 DEF Idle
  <2>4. Arrived # <<>>
    BY <1>1, <2>3, QuietIs
  <2>5. Settled
    BY <1>1, <1>2, <1>4, <2>1, <2>2, <2>3, ClassesDiffer DEF Calmly, Replied
  <2>6. Len(line) \in Nat \ {0}
    BY <1>7, <1>8, <2>4, PlacesOf, EmptyIs
  <2>7. Weight <= 0
    BY <1>6, <2>1, <2>5 DEF Settled
  <2> QED BY <2>6, <2>7 DEF Weight
<1>10. fd = "stdin" => Idle'
  <2> SUFFICES ASSUME fd = "stdin" PROVE Idle'
    OBVIOUS
  <2>1. line' = line
    BY <1>1, <1>8
  <2> QED BY <1>1, <1>2, <2>1, MeterKeeps
<1>11. Obedient'
  BY <1>1, <1>5, <1>6, <1>9, <1>10, ObedientAfter
<1>12. ASSUME ~reset', fd' = "meter" PROVE Replied'
  <2>1. Replied
    BY <1>1, <1>2, <1>12 DEF Calmly
  <2>2. CASE Op \in Stops
    BY <1>1, <1>6, <1>12, <2>2, RepliedAfter
  <2>3. CASE Op \in Asking
    <3>1. Answered
      BY <1>1, <1>9, <2>1, <2>3 DEF Replied
    <3>2. Op.cmd \notin {"D", "?"}
      BY <1>3, ExchangeIs
    <3>3. Op # wu_show_mode => ~Owes
      BY <1>1, <1>3, <2>1, <3>1, <3>2 DEF Answered, Replied
    <3>4. Settled'
      <4>1. CASE Arrived # <<>>
        BY <1>1, <1>6, <1>7, <1>8, <3>1, <3>3, <4>1, ReplyIsTaken
      <4>2. CASE Arrived = <<>>
        <5>1. line = <<>> /\ line' = line /\ (Owes => owed \in {"D", "?"})
          BY <1>1, <1>8, <1>12, <4>2, QuietIs
        <5>2. ~Owes
          BY <3>1, <3>2, <5>1 DEF Answered
        <5>3. ~Owes'
          BY <1>1, <5>2 DEF Owes
        <5>4. Len(line') = 0
          BY <5>1, EmptyIs
        <5> QED BY <5>3, <5>4, EmptyIsSettled
      <4> QED BY <4>1, <4>2
    <3> QED BY <1>6, <3>4, RepliedAfter
  <2> QED BY <1>4, <2>2, <2>3
<1>13. fd' = "meter" => Setting' /\ SettingNow'
  <2>1. Op # wu_write_interval /\ Op # wu_write_mode
    BY <1>4, ClassesDiffer
  <2> QED BY <1>1, <1>2, <1>6, <2>1, SettingAfter, NotAsleep DEF Calmly
<1> QED BY <1>11, <1>12, <1>13 DEF Calmly

-----------------------------------------------------------------------------
(***************************************************************************)
(* The loops.                                                              *)
(***************************************************************************)
LEMMA InLoop ==
  ASSUME Followed, Known, Calmly, pc \in Busy, Op \in Loops
  PROVE  /\ pending = <<>> /\ (fd = "stdin" => Idle)
         /\ ~reset /\ fd = "meter" => AllData
<1>1. Op \notin Exchanges
  BY ClassesDiffer
<1>2. pc # "sleep"
  BY <1>1, TypesAre DEF AtStep
<1>3. pending = <<>>
  BY <1>1, <1>2 DEF Calmly, Obedient, Busy
<1> QED BY <1>3 DEF Calmly, Obedient, Replied

LEMMA LoopStays ==
  ASSUME Followed, Known, Calmly, pc \in Busy, Op \in Loops, script' = script, pc' \in {"read", "pause", "rest"},
         UNCHANGED <<request, fd, ret, log, settings, pending, owed, reset>>,
         fd = "stdin" => line' = line,
         AllData => AllData' /\ (pc' = "rest" => string'[1].part # "tail" /\ string'[1].kind = "D")
  PROVE  Calmly'
<1>1. Op' = Op /\ Op \notin Exchanges \cup Asking \cup Starts \cup Stores /\ Op # wu_write_user
  BY ClassesDiffer DEF Op
<1>2. /\ pending = <<>> /\ (fd = "stdin" => Idle) /\ (~reset /\ fd = "meter" => AllData)
  BY InLoop
<1>3. fd = "stdin" => Idle'
  BY <1>2, MeterKeeps
<1>4. Obedient'
  BY <1>1, <1>2, <1>3 DEF Obedient, Early
<1>5. ~reset' /\ fd' = "meter" => Replied'
  BY <1>1, <1>2 DEF Replied
<1>6. fd' = "meter" => Setting' /\ SettingNow'
  BY SettingAfter, NotAsleep DEF Calmly
<1> QED BY <1>4, <1>5, <1>6 DEF Calmly

LEMMA LoopEnds ==
  ASSUME Followed, Known, Calmly, pc \in Busy, Op \in Loops, Skip,
         UNCHANGED <<request, fd, ret, log, settings, pending, owed, reset>>,
         fd = "stdin" => line' = line,
         AllData => AllData'
  PROVE  Calmly'
<1>1. /\ pc' = "write" /\ Op' \in Stops
      /\ \A x : Contains(script, x) <=> x = Op \/ Contains(script', x)
  BY SkipLeads
<1>2. /\ pending = <<>> /\ (fd = "stdin" => Idle) /\ (~reset /\ fd = "meter" => AllData)
  BY InLoop
<1>3. fd = "stdin" => Idle'
  BY <1>2, MeterKeeps
<1>4. Obedient'
  BY <1>1, <1>2, <1>3, ObedientAfter
<1>5. ~reset' /\ fd' = "meter" => Replied'
  BY <1>1, <1>2, RepliedAfter
<1>6. fd' = "meter" => Setting' /\ SettingNow'
  <2>1. Op # wu_write_interval /\ Op # wu_write_mode
    BY ClassesDiffer
  <2> QED BY <1>1, <2>1, SettingAfter, NotAsleep DEF Calmly
<1> QED BY <1>4, <1>5, <1>6 DEF Calmly

LEMMA ReadRecordCalmly ==
  ASSUME Followed, Served, calm', ReadRecord
  PROVE  Calmly'
<1>1. /\ pc \in Busy /\ Op = wu_read_data /\ Op \in Loops /\ Arrived # <<>> /\ TakeChunk /\ calm
      /\ Skip \/ (pc' = "pause" /\ script' = script)
      /\ UNCHANGED <<request, fd, ret, log, settings, pending, owed, reset>>
  BY DEF ReadRecord, past, Busy, NoFault, Loops
<1>2. fd = "meter" /\ line # <<>>
  BY <1>1 DEF Arrived
<1>3. AllData => AllData'
  BY <1>1, <1>2, DataLeft, TypesAre
<1>4. Calmly /\ Known
  BY <1>1 DEF Served
<1>5. CASE Skip
  BY <1>1, <1>2, <1>3, <1>4, <1>5, LoopEnds
<1>6. CASE pc' = "pause" /\ script' = script
  BY <1>1, <1>2, <1>3, <1>4, <1>6, LoopStays
<1> QED BY <1>1, <1>5, <1>6

LEMMA ReadFailsCalmly ==
  ASSUME Followed, Served, calm', ReadFails
  PROVE  Calmly'
<1>1. /\ pc \in Busy /\ Op = wu_read_data /\ Op \in Loops /\ calm
      /\ (Arrived # <<>> /\ TakeChunk) \/ line' = line
      /\ \/ reset' = reset /\ pc' = "pause" /\ script' = script
         \/ reset' /\ Run(Restart \o script)
         \/ reset' = reset /\ Skip
      /\ UNCHANGED <<request, fd, ret, log, settings, pending, owed>>
  <2>1. /\ pc \in Busy /\ Op = wu_read_data /\ Op \in Loops /\ calm
        /\ (Arrived # <<>> /\ TakeChunk) \/ line' = line
        /\ retry' = retry + 1 /\ reset' = (reset \/ retry' = wu_max_retry)
        /\ IF retry' < wu_max_retry THEN pc' = "pause" /\ UNCHANGED script
           ELSE IF retry' = wu_max_retry THEN Run(Restart \o script) ELSE Skip
        /\ UNCHANGED <<request, fd, ret, log, settings, pending, owed>>
    BY DEF ReadFails, TimesOut, Fault, NoFault, Busy, Loops, Restart, StartAgain
  <2>2. retry' < wu_max_retry => retry' # wu_max_retry
    BY <2>1, TypesAre DEF wu_max_retry
  <2>3. retry' # wu_max_retry => reset' = reset
    BY <2>1, TypesAre DEF Remembering
  <2> QED BY <2>1, <2>2, <2>3
<1>2. Arrived # <<>> => fd = "meter" /\ line # <<>>
  BY DEF Arrived
<1>3. fd = "stdin" => line' = line
  BY <1>1, <1>2
<1>4. AllData => AllData'
  <2>1. CASE Arrived # <<>> /\ TakeChunk
    BY <1>2, <2>1, DataLeft, TypesAre
  <2>2. CASE line' = line
    BY <2>2 DEF AllData
  <2> QED BY <1>1, <2>1, <2>2
<1>5. Calmly /\ Known
  BY <1>1 DEF Served
<1>6. CASE reset' = reset /\ Skip
  BY <1>1, <1>3, <1>4, <1>5, <1>6, LoopEnds
<1>7. CASE reset' = reset /\ pc' = "pause" /\ script' = script
  BY <1>1, <1>3, <1>4, <1>5, <1>7, LoopStays
<1>8. CASE reset' /\ Run(Restart \o script)
  <2>1. script \in Seq(Steps) /\ script # <<>> /\ Restart \in Seq(Steps) /\ Restart # <<>> /\ Head(Restart) = wu_stop_log
    <3>1. wu_stop_log \in Steps /\ wu_clear \in Steps /\ StartAgain \in Steps
      BY DEF Steps, Exchanges, Stops, Starts
    <3>2. Restart \in Seq(Steps) /\ Restart # <<>> /\ Head(Restart) = wu_stop_log
      <4> HIDE DEF Steps
      <4> QED BY <3>1 DEF Restart
    <3> QED BY <1>1, <3>2, BusyIs, TypesAre
  <2> DEFINE s == Restart \o script
  <2>2. s # <<>> /\ Head(s) = wu_stop_log /\ \A x : Contains(script, x) => Contains(s, x)
    <3>1. \A x : Contains(script, x) => Contains(s, x)
      BY <2>1, ContainsConcat
    <3>2. s # <<>> /\ Head(s) = wu_stop_log
      <4> HIDE DEF Steps, Restart
      <4> QED BY <2>1
    <3> QED BY <3>1, <3>2
  <2> HIDE DEF s
  <2>3. script' = s /\ pc' = "write" /\ Op' \in Stops
    <3>1. wu_stop_log \in Stops /\ wu_stop_log \notin {wu_read_data, wu_read}
      BY ClassesDiffer
    <3> QED BY <1>8, <2>2, <3>1 DEF Run, Op, s
  <2>4. pending = <<>> /\ (fd = "stdin" => Idle)
    BY <1>1, <1>5, InLoop
  <2>5. fd = "stdin" => Idle'
    BY <1>1, <1>3, <2>4, MeterKeeps
  <2>6. Obedient'
    BY <1>1, <2>3, <2>4, <2>5, ObedientAfter
  <2>7. fd' = "meter" => Setting' /\ SettingNow'
    BY <1>1, <1>5, <2>2, <2>3, SettingAfter, NotAsleep DEF Calmly
  <2> QED BY <1>8, <2>6, <2>7 DEF Calmly
<1> QED BY <1>1, <1>6, <1>7, <1>8

LEMMA PausesCalmly ==
  ASSUME Followed, Served, calm', SleepInterval \/ SleepHalf
  PROVE  Calmly'
<1>1. /\ pc \in Busy /\ Op \in Loops /\ calm
      /\ Skip \/ (pc' = "read" /\ script' = script)
      /\ UNCHANGED <<request, fd, ret, log, settings, pending, owed, line, reset>>
  BY DEF SleepInterval, SleepHalf, past, meter, Busy, NoFault, Loops
<1>2. AllData' = AllData
  BY <1>1, MeterKeeps
<1>3. Calmly /\ Known
  BY <1>1 DEF Served
<1>4. CASE Skip
  BY <1>1, <1>2, <1>3, <1>4, LoopEnds
<1>5. CASE pc' = "read" /\ script' = script
  BY <1>1, <1>2, <1>3, <1>5, LoopStays
<1> QED BY <1>1, <1>4, <1>5

\* A record that starts in the chunk is data.
LEMMA RecordIsData ==
  ASSUME NEW s \in Seq(Pieces), s # <<>>, s[1].part # "tail" /\ s[1].kind = "D", PrintsSimple(s)
  PROVE  /\ pc' = "rest" => string'[1].part # "tail" /\ string'[1].kind = "D"
         /\ print' = print \/ (print'.as = "D" /\ print'.kind = "D")
<1>1. CASE pc' = "rest" /\ string' = s /\ print' = print
  BY <1>1
<1>2. CASE pc' = "pause" /\ string' = <<>> /\ print' = [as |-> "D", kind |-> s[1].kind]
  <2>1. print'.as = "D" /\ print'.kind = "D"
    BY <1>2
  <2> QED BY <1>2, <2>1
<1> QED BY <1>1, <1>2 DEF PrintsSimple

LEMMA ReadSimpleCalmly ==
  ASSUME Followed, Served, calm', ReadSimple
  PROVE  /\ Calmly'
         /\ ~reset => print' = print \/ (print'.as = "D" /\ print'.kind = "D")
<1>1. /\ pc \in Busy /\ Op = wu_read /\ Op \in Loops /\ calm /\ fd = "meter" /\ line # <<>> /\ TakeChunk
      /\ \/ Chunk[1].part # "tail" /\ PrintsSimple(Chunk)
         \/ pc' = "pause" /\ UNCHANGED <<string, print>>
      /\ UNCHANGED <<request, script, fd, ret, log, settings, pending, owed, reset>>
  BY DEF ReadSimple, Arrived, past, Busy, NoFault, Loops
<1>2. Calmly /\ Known
  BY <1>1 DEF Served
<1>3. fd = "meter" /\ (~reset => AllData)
  BY <1>1, <1>2, InLoop
<1>4. Chunk \in Seq(Pieces) /\ Chunk # <<>> /\ Chunk[1] = line[1] /\ 1 \in 1..Len(line)
  <2>1. /\ Chunk \in Seq(Pieces) /\ Chunk # <<>> /\ Len(Chunk) \in 1..ReadMax /\ Len(Chunk) <= Len(line)
        /\ \A k \in 1..Len(Chunk) : Chunk[k] = line[k]
    BY <1>1, ChunkIs, TypesAre
  <2> HIDE DEF Chunk
  <2>2. 1 \in 1..Len(Chunk) /\ 1 \in 1..Len(line)
    BY <2>1, TypesAre, WattsupAssumption
  <2> QED BY <2>1, <2>2
<1>5. pc' \in {"rest", "pause"}
  BY <1>1 DEF PrintsSimple
<1>6. AllData => AllData'
  BY <1>1, DataLeft, TypesAre
<1>7. ASSUME AllData
      PROVE  /\ pc' = "rest" => string'[1].part # "tail" /\ string'[1].kind = "D"
             /\ print' = print \/ (print'.as = "D" /\ print'.kind = "D")
  <2>1. CASE Chunk[1].part # "tail" /\ PrintsSimple(Chunk)
    <3>1. Chunk[1].kind = "D"
      BY <1>4, <1>7, <2>1 DEF AllData
    <3> QED BY <1>4, <2>1, <3>1, RecordIsData
  <2>2. CASE pc' = "pause" /\ UNCHANGED <<string, print>>
    BY <2>2
  <2> QED BY <1>1, <2>1, <2>2
<1>8. Calmly'
  BY <1>1, <1>2, <1>3, <1>5, <1>6, <1>7, LoopStays
<1> QED BY <1>3, <1>7, <1>8

LEMMA ReadRestCalmly ==
  ASSUME Followed, Served, calm', ReadRest
  PROVE  /\ Calmly'
         /\ ~reset => print' = print \/ (print'.as = "D" /\ print'.kind = "D")
<1>1. /\ pc = "rest" /\ pc \in Busy /\ calm
      /\ UNCHANGED <<request, script, fd, ret, log, settings, pending, owed, reset>>
  BY DEF ReadRest, past, Busy, NoFault
<1>2. Calmly /\ Known
  BY <1>1 DEF Served
<1>3. Op = wu_read /\ Op \in Loops /\ string # <<>> /\ string \in Seq(Pieces)
  BY <1>1, TypesAre DEF AtStep, Loops, Reading
<1>4. /\ pending = <<>> /\ (fd = "stdin" => Idle)
      /\ ~reset /\ fd = "meter" => AllData /\ string[1].part # "tail" /\ string[1].kind = "D"
  BY <1>1, <1>2, <1>3, InLoop DEF Calmly, Replied
<1>5. CASE got = ReadMax
  <2>1. UNCHANGED <<pc, string, print, line>>
    BY <1>5 DEF ReadRest
  <2>2. AllData' = AllData
    BY <1>1, <2>1, MeterKeeps
  <2>3. Obedient' /\ Replied' = Replied /\ (fd = "meter" => Setting' /\ SettingNow')
    <3>1. Op' = Op /\ Idle' = Idle
      BY <1>1, <2>1, MeterKeeps DEF Op
    <3>2. Obedient'
      BY <1>1, <1>2, <2>1, <3>1 DEF Calmly, Obedient
    <3>3. Replied' = Replied
      <4>1. Op \notin Exchanges /\ Op \notin Asking \cup Starts \cup Failures \cup Stores
        BY <1>3, ClassesDiffer
      <4> QED BY <1>1, <1>3, <2>1, <2>2, <3>1, <4>1 DEF Replied
    <3>4. fd = "meter" => Setting' /\ SettingNow'
      BY <1>1, <1>2, <2>1, SettingAfter, NotAsleep DEF Calmly
    <3> QED BY <3>2, <3>3, <3>4
  <2>4. Calmly'
    BY <1>1, <1>2, <2>3 DEF Calmly
  <2> QED BY <2>1, <2>4
<1>6. CASE got # ReadMax
  <2> DEFINE n == IF Len(line) < ReadMax - got THEN Len(line) ELSE ReadMax - got
             s == string \o SubSeq(line, 1, n)
  <2>1. /\ fd = "meter" /\ line # <<>> /\ line' = SubSeq(line, n + 1, Len(line))
        /\ \/ pc' = "crashed" /\ string' = <<>> /\ UNCHANGED print
           \/ PrintsSimple(s)
    BY <1>6 DEF ReadRest, Arrived
  <2>2. fd = "meter"
    BY <2>1
  <2>3. n \in 0..Len(line)
    BY <1>6, TypesAre, PlacesOf, WattsupAssumption DEF Reading
  <2> HIDE DEF n
  <2>4. AllData => AllData'
    <3>1. /\ Len(line') = Len(line) - n /\ Len(line) \in Nat
          /\ \A k \in 1..(Len(line) - n) : line'[k] = line[k + n]
      BY <2>1, <2>3, RestIs, TypesAre
    <3>2. \A k \in 1..Len(line') : k + n \in 1..Len(line) /\ line'[k] = line[k + n]
      BY <2>3, <3>1
    <3> QED BY <3>2 DEF AllData
  <2>5. s \in Seq(Pieces) /\ s # <<>> /\ s[1] = string[1]
    <3> DEFINE t == SubSeq(line, 1, n)
    <3>1. t \in Seq(Pieces)
      <4> HIDE DEF Pieces
      <4> QED BY <2>3, TypesAre
    <3> HIDE DEF t
    <3>2. Len(string) \in Nat \ {0}
      BY <1>3, EmptyIs, PlacesOf
    <3>3. /\ s \in Seq(Pieces) /\ Len(s) = Len(string) + Len(t) /\ Len(t) \in Nat
          /\ \A k \in 1..Len(string) : s[k] = string[k]
      BY <1>3, <3>1, ConcatenationIs DEF t
    <3> HIDE DEF s
    <3>4. 1 \in 1..Len(string) /\ Len(s) # 0
      BY <3>2, <3>3
    <3> QED BY <3>3, <3>4, EmptyIs
  <2> HIDE DEF s
  <2>6. CASE pc' = "crashed" /\ string' = <<>> /\ UNCHANGED print
    <3>1. Obedient' /\ Replied' /\ Setting' /\ SettingNow'
      BY <1>1, <2>2, <2>6 DEF Obedient, Replied, Setting, SettingNow, Early, Busy
    <3> QED BY <2>6, <3>1 DEF Calmly
  <2>7. CASE PrintsSimple(s)
    <3>1. pc' \in {"rest", "pause"}
      BY <2>7 DEF PrintsSimple
    <3>2. ASSUME string[1].part # "tail" /\ string[1].kind = "D"
          PROVE  /\ pc' = "rest" => string'[1].part # "tail" /\ string'[1].kind = "D"
                 /\ print' = print \/ (print'.as = "D" /\ print'.kind = "D")
      <4>1. s[1].part # "tail" /\ s[1].kind = "D"
        BY <2>5, <3>2
      <4> QED BY <2>5, <2>7, <4>1, RecordIsData
    <3>3. CASE reset
      <4>1. FALSE
        <5>1. Op = script[1] /\ 1 \in 1..Len(script)
          BY <1>1, BusyIs
        <5>2. wu_read \notin ResetSteps
          BY ClassesDiffer, LoopIs DEF ResetSteps, Starts
        <5> QED BY <1>3, <3>3, <5>1, <5>2, TypesAre DEF Scripted, Resetting
      <4> QED BY <4>1
    <3>4. CASE ~reset
      <4>1. string[1].part # "tail" /\ string[1].kind = "D"
        BY <1>4, <2>2, <3>4
      <4>2. Calmly'
        BY <1>1, <1>2, <1>3, <2>2, <2>4, <3>1, <3>2, <4>1, LoopStays
      <4> QED BY <3>2, <4>1, <4>2
    <3> QED BY <3>3, <3>4
  <2> QED BY <2>1, <2>6, <2>7
<1> QED BY <1>5, <1>6

-----------------------------------------------------------------------------
(***************************************************************************)
(* ^C, and the runs that come after one another.                           *)
(***************************************************************************)
LEMMA CalmlyStays ==
  ASSUME Calmly,
         UNCHANGED <<request, pc, script, fd, ret, string, log, settings, pending, owed, line, reset>>
  PROVE  Calmly'
<1>1. Op' = Op /\ Spare' = Spare
  BY DEF Op, Spare
<1>2. Idle' = Idle /\ Owes' = Owes /\ AllData' = AllData /\ Weight' = Weight /\ Settled' = Settled
  BY <1>1, MeterKeeps
<1>3. Answered' = Answered
  BY <1>1, <1>2 DEF Answered
<1>4. Obedient' = Obedient
  BY <1>1, <1>2 DEF Obedient
<1>5. Replied' = Replied
  BY <1>1, <1>2, <1>3 DEF Replied
<1>6. Setting' = Setting /\ SettingNow' = SettingNow
  <2>1. SettingNow' = SettingNow
    BY <1>1 DEF SettingNow
  <2>2. Contains(script, wu_write_interval)' <=> Contains(script, wu_write_interval)
    OBVIOUS
  <2>3. Contains(script, wu_write_mode)' <=> Contains(script, wu_write_mode)
    OBVIOUS
  <2> QED BY <2>1, <2>2, <2>3 DEF Setting
<1> QED BY <1>4, <1>5, <1>6 DEF Calmly

LEMMA CtrlcCalmly ==
  ASSUME Followed, Served, calm', ctrlc_handler
  PROVE  Calmly'
<1>1. /\ program = "wattsup-simple" /\ calm
      /\ \/ pc = "sleep" /\ Skip /\ UNCHANGED string /\ Quiet
         \/ UNCHANGED <<pc, script, string>>
      /\ UNCHANGED <<request, fd, ret, log, settings, pending, owed, line, reset>>
  BY DEF ctrlc_handler, past, meter, NoFault, Disturbs
<1>2. Calmly /\ Known
  BY <1>1 DEF Served
<1>3. CASE UNCHANGED <<pc, script, string>>
  BY <1>1, <1>2, <1>3, CalmlyStays
<1>4. CASE pc = "sleep" /\ Skip /\ Quiet
  <2>1. pending = <<>> /\ pc \in Busy
    BY <1>4, QuietIs DEF Busy
  <2>2. Op \notin Shows \cup {wu_clear}
    BY <1>1, <1>2, <2>1, SimpleHasNoData, ClassesDiffer
  <2>3. fd = "stdin" => Idle
    BY <1>2 DEF Calmly, Obedient
  <2> QED BY <1>1, <1>2, <1>4, <2>1, <2>2, <2>3, OverCalmly
<1> QED BY <1>1, <1>3, <1>4

LEMMA InterruptCalmly ==
  ASSUME Interrupt
  PROVE  Calmly'
<1>1. pc' = "killed" /\ fd' = "none"
  BY DEF Interrupt
<1> QED BY <1>1 DEF Calmly, Obedient, Early

LEMMA RunAgainCalmly ==
  ASSUME RunAgain, calm'
  PROVE  Calmly'
<1>1. /\ pc' = "args" /\ fd' = "none" /\ line' = <<>>
      /\ ~log /\ pending = <<>> /\ owed = ""
      /\ UNCHANGED <<log, pending, owed>>
  BY Zenon DEF RunAgain, StartsAfresh
<1>2. ~Owes'
  BY <1>1, Zenon DEF Owes
<1>3. Idle'
  BY <1>1, <1>2, Zenon DEF Idle
<1> HIDE <1>1
<1>4. pc' = "args" /\ fd' = "none"
  BY DEF RunAgain, StartsAfresh
<1> QED BY <1>3, <1>4 DEF Calmly, Obedient
-----------------------------------------------------------------------------
(***************************************************************************)
(* The meter.                                                              *)
(***************************************************************************)
LEMMA AppendIs ==
  ASSUME line \in Seq(Pieces), NEW p \in Pieces, line' = line \/ line' = Append(line, p)
  PROVE  /\ Len(line) \in Nat /\ Len(line') \in Nat /\ Len(line') <= Len(line) + 1
         /\ \A k \in 1..Len(line') : \/ k \in 1..Len(line) /\ line'[k] = line[k]
                                     \/ k = Len(line) + 1 /\ line'[k] = p
<1>1. Len(line) \in Nat
  BY PlacesOf
<1>2. CASE line' = line
  <2>1. Len(line') = Len(line) /\ \A k \in 1..Len(line) : line'[k] = line[k]
    BY <1>2
  <2> QED BY <1>1, <2>1
<1>3. CASE line' = Append(line, p)
  <2>1. /\ Len(line') = Len(line) + 1 /\ line'[Len(line) + 1] = p
        /\ \A k \in 1..Len(line) : line'[k] = line[k]
    <3> HIDE DEF Pieces
    <3> QED BY <1>3
  <2>2. \A k \in 1..(Len(line) + 1) : k \in 1..Len(line) \/ k = Len(line) + 1
    BY <1>1
  <2> QED BY <1>1, <2>1, <2>2
<1> QED BY <1>2, <1>3

LEMMA SendsRestCalmly ==
  ASSUME Followed, Served, calm', MeterSendsRest
  PROVE  Calmly'
<1>1. /\ Arrives([kind |-> owed, part |-> "tail"]) /\ calm
      /\ UNCHANGED <<request, pc, script, fd, ret, string, log, settings, pending, reset>>
  BY DEF MeterSendsRest, past, simple, NoFault
<1>2. Owes /\ ~Owes'
  BY Zenon DEF MeterSendsRest, Owes
<1>3. Calmly
  BY <1>1 DEF Served
<1>4. Op' = Op /\ Spare' = Spare
  BY <1>1 DEF Op, Spare
<1>5. PICK p \in Pieces : p.part = "tail" /\ (line' = line \/ line' = Append(line, p))
  <2> DEFINE p == [kind |-> owed, part |-> "tail"]
  <2>1. owed \in Kinds
    BY <1>2, TypesAre, Zenon DEF Metering, Owes
  <2>2. p \in Pieces /\ p.part = "tail"
    <3> HIDE DEF Kinds
    <3> QED BY <2>1 DEF Pieces
  <2>3. line' = line \/ line' = Append(line, p)
    BY <1>1, <2>2, ArrivesIs, TypesAre
  <2> HIDE DEF p
  <2> QED BY <2>2, <2>3
<1>6. /\ Len(line) \in Nat /\ Len(line') \in Nat /\ Len(line') <= Len(line) + 1
      /\ \A k \in 1..Len(line') : \/ k \in 1..Len(line) /\ line'[k] = line[k]
                                  \/ line'[k].part = "tail"
  BY <1>5, AppendIs, TypesAre
<1>7. Weight' <= Weight /\ Weight \in Nat /\ Weight' \in Nat
  BY <1>2, <1>6 DEF Weight
<1>8. Spare \in Nat
  BY DEF Spare
<1>9. Settled => Settled'
  <2>1. OnlyTails => OnlyTails'
    BY <1>6 DEF OnlyTails
  <2>2. Weight <= Spare => Weight' <= Spare'
    BY <1>4, <1>7, <1>8
  <2> QED BY <2>1, <2>2 DEF Settled
<1>10. AllData => AllData'
  BY <1>6 DEF AllData
<1>11. Answered => Answered'
  <2>1. Weight <= Spare + 2 => Weight' <= Spare' + 2
    BY <1>4, <1>7, <1>8
  <2>2. (\A k \in 1..Len(line) : line[k].part # "tail" => k <= Spare + 1 /\ line[k].kind = Op.cmd)
        => \A k \in 1..Len(line') : line'[k].part # "tail" => k <= Spare + 1 /\ line'[k].kind = Op.cmd
    BY <1>6
  <2> QED BY <1>2, <1>4, <2>1, <2>2 DEF Answered
<1>12. ~(pc \in Early \/ fd = "stdin")
  BY <1>2, <1>3 DEF Calmly, Obedient, Idle
<1>13. Obedient'
  BY <1>1, <1>3, <1>4, <1>12 DEF Calmly, Obedient
<1>14. Replied => Replied'
  BY <1>1, <1>2, <1>4, <1>9, <1>10, <1>11 DEF Replied
<1>15. SettingNow => SettingNow'
  BY <1>1, <1>4 DEF SettingNow
<1>16. Setting => Setting'
  <2>1. Contains(script, wu_write_interval)' <=> Contains(script, wu_write_interval)
    BY <1>1
  <2>2. Contains(script, wu_write_mode)' <=> Contains(script, wu_write_mode)
    BY <1>1
  <2> QED BY <1>1, <2>1, <2>2 DEF Setting
<1> QED BY <1>1, <1>3, <1>13, <1>14, <1>15, <1>16 DEF Calmly

LEMMA SamplesCalmly ==
  ASSUME Followed, Served, calm', MeterSamples
  PROVE  Calmly'
<1>1. /\ log /\ pending = <<>> /\ calm /\ Sends("D")
      /\ UNCHANGED <<request, pc, script, fd, ret, string, log, settings, pending, reset>>
  BY DEF MeterSamples, past, simple, NoFault, Fault
<1>2. owed = "" /\ ~Owes
  BY Zenon DEF MeterSamples, Owes
<1>3. Calmly
  BY <1>1 DEF Served
<1>4. Op' = Op /\ Spare' = Spare
  BY <1>1 DEF Op, Spare
<1>5. PICK p \in Pieces : p.kind = "D" /\ (line' = line \/ line' = Append(line, p))
  <2>1. "D" \in Kinds
    BY DEF Kinds
  <2>2. PICK p \in Pieces : p.kind = "D" /\ Arrives(p)
    BY <1>1, <1>2, <2>1, SendsIs, TypesAre
  <2> QED BY <2>2, ArrivesIs, TypesAre
<1> HIDE <1>2
<1>6. AllData => AllData'
  <2>1. \A k \in 1..Len(line') : \/ k \in 1..Len(line) /\ line'[k] = line[k]
                                 \/ line'[k].kind = "D"
    BY <1>5, AppendIs, TypesAre
  <2> QED BY <2>1 DEF AllData
<1>7. /\ ~(pc \in Early \/ fd = "stdin") /\ pc # "closed" /\ (pc = "write" => Op \in Stops)
      /\ pc \in {"sleep", "read"} /\ Op \in Exchanges => Op \in Starts
      /\ pc = "read" => Op \notin Exchanges
  BY <1>1, <1>3 DEF Calmly, Obedient, Idle
<1>8. Obedient'
  BY <1>1, <1>3, <1>4, <1>7 DEF Calmly, Obedient
<1>9. Replied => Replied'
  <2>1. pc = "write" => Op \notin Asking \cup Starts \cup Failures
    BY <1>7, ClassesDiffer
  <2>2. pc \in {"sleep", "read"} => Op \notin Asking /\ Op \notin Stores
    BY <1>7, ClassesDiffer
  <2> QED BY <1>1, <1>4, <1>6, <1>7, <2>1, <2>2 DEF Replied
<1>10. SettingNow => SettingNow'
  BY <1>1, <1>4 DEF SettingNow
<1>11. Setting => Setting'
  <2>1. Contains(script, wu_write_interval)' <=> Contains(script, wu_write_interval)
    BY <1>1
  <2>2. Contains(script, wu_write_mode)' <=> Contains(script, wu_write_mode)
    BY <1>1
  <2> QED BY <1>1, <2>1, <2>2 DEF Setting
<1> QED BY <1>1, <1>3, <1>8, <1>9, <1>10, <1>11 DEF Calmly

LEMMA ObeysCalmly ==
  ASSUME Followed, Served, calm', MeterObeys
  PROVE  Calmly'
<1> DEFINE c == Head(pending)
<1>1. /\ pending # <<>> /\ pending \in Seq(Exchanges) /\ pending' = Tail(pending) /\ calm
      /\ log' = IF c.cmd = "L" THEN c.sub = "W" ELSE log
      /\ settings' = IF c.sub = "W" /\ c.cmd \in DOMAIN settings
                     THEN [settings EXCEPT ![c.cmd] = c.field] ELSE settings
      /\ \/ (c.sub = "R" \/ c.cmd = "R") /\ Sends(c.cmd)
         \/ c.sub = "W" /\ UNCHANGED <<line, owed>>
      /\ UNCHANGED <<request, pc, script, fd, ret, string, reset>>
  BY TypesAre DEF MeterObeys, past, simple, NoFault, Fault
<1>2. owed = "" /\ ~Owes
  BY Zenon DEF MeterObeys, Owes
<1>3. Calmly
  BY <1>1 DEF Served
<1>4. Op' = Op /\ Spare' = Spare
  BY <1>1 DEF Op, Spare
\* What arrives is of the kind that was asked for.
<1>5. ASSUME c.cmd \in Kinds, Sends(c.cmd)
      PROVE  \E p \in Pieces : p.kind = c.cmd /\ (line' = line \/ line' = Append(line, p)) /\ (Owes' => owed' = c.cmd)
  <2>1. PICK p \in Pieces : /\ p.kind = c.cmd /\ Arrives(p)
                            /\ \/ p.part = "whole" /\ owed' = ""
                               \/ p.part = "head" /\ owed' = c.cmd
    BY <1>2, <1>5, SendsIs, TypesAre
  <2>2. Owes' => owed' = c.cmd
    BY <2>1, Zenon DEF Owes
  <2>3. line' = line \/ line' = Append(line, p)
    BY <2>1, ArrivesIs, TypesAre
  <2>4. p.kind = c.cmd
    BY <2>1
  <2> HIDE <1>2, <2>1
  <2> QED BY <2>2, <2>3, <2>4
<1>6. ~Owes
  BY <1>2
<1> HIDE <1>2
<1>7. /\ ~(pc \in Early \/ fd = "stdin") /\ pc \notin {"write", "rest", "pause", "closed"}
      /\ pc \in {"sleep", "read"} => Op \in Exchanges /\ pending = <<Op>> /\ Op # wu_write_user
      /\ pc = "read" => Op = wu_show_mode
      /\ pc \in {"sleep", "read"} /\ log => Op \in Stops
  BY <1>1, <1>3 DEF Calmly, Obedient, Idle
<1>8. CASE pc \notin {"sleep", "read"}
  <2>1. pc \notin Busy
    BY <1>7, <1>8 DEF Busy
  <2>2. Obedient'
    BY <1>1, <1>7, <1>8 DEF Obedient
  <2>3. Replied' /\ Setting' /\ SettingNow'
    BY <1>1, <1>7, <1>8, <2>1 DEF Replied, Setting, SettingNow, Busy
  <2> QED BY <2>2, <2>3 DEF Calmly
<1>9. CASE pc \in {"sleep", "read"}
  <2>1. c = Op /\ pending' = <<>> /\ Op \in Exchanges
    BY <1>1, <1>7, <1>9
  <2> HIDE DEF c
  <2>2. /\ Op.cmd \in Kinds \ {"D", "?"}
        /\ Op.cmd = "L" /\ Op.sub = "W" <=> Op \in Starts
        /\ Op \in Stops => Op.cmd = "L"
    BY <2>1, ExchangeIs, KindsOfExchange DEF Kinds
  <2>3. log' => Op \in Starts
    <3>1. CASE Op.cmd = "L"
      BY <1>1, <2>1, <2>2, <3>1
    <3>2. CASE Op.cmd # "L"
      BY <1>1, <1>7, <1>9, <2>1, <2>2, <3>2
    <3> QED BY <3>1, <3>2
  <2>4. pc = "read" => ~log'
    BY <1>7, <2>3, ClassesDiffer
  <2>5. Obedient'
    BY <1>1, <1>4, <1>7, <1>9, <2>1, <2>3, <2>4 DEF Obedient
  <2>6. Settled => Answered'
    <3> SUFFICES ASSUME Settled PROVE Answered'
      OBVIOUS
    <3>1. /\ Weight <= Spare /\ Weight = Len(line) /\ Len(line) \in Nat /\ Spare \in {0, 1}
          /\ \A k \in 1..Len(line) : line[k].part = "tail"
      BY <1>6, TypesAre DEF Settled, Weight, OnlyTails, Spare
    <3>2. CASE UNCHANGED <<line, owed>>
      <4>1. ~Owes' /\ Weight' = Weight
        BY <1>6, <3>2 DEF Owes, Weight
      <4>2. Weight' <= Spare' + 2
        BY <1>4, <3>1, <4>1
      <4> QED BY <3>1, <3>2, <4>1, <4>2 DEF Answered
    <3>3. CASE Sends(c.cmd)
      <4>1. PICK p \in Pieces : /\ p.kind = Op.cmd /\ (line' = line \/ line' = Append(line, p))
                                /\ Owes' => owed' = Op.cmd
        BY <1>5, <2>1, <2>2, <3>3
      <4>2. /\ Len(line') \in Nat /\ Len(line') <= Len(line) + 1
            /\ \A k \in 1..Len(line') : \/ k \in 1..Len(line) /\ line'[k] = line[k]
                                        \/ k = Len(line) + 1 /\ line'[k] = p
        BY <4>1, AppendIs, TypesAre
      <4>3. Weight' <= Spare' + 2
        <5>1. Weight' \in {Len(line'), Len(line') + 1}
          BY DEF Weight
        <5> QED BY <1>4, <3>1, <4>2, <5>1
      <4>4. \A k \in 1..Len(line') : line'[k].part # "tail" => k <= Spare' + 1 /\ line'[k].kind = Op'.cmd
        BY <1>4, <3>1, <4>1, <4>2
      <4> QED BY <1>4, <4>1, <4>3, <4>4 DEF Answered
    <3> QED BY <1>1, <3>2, <3>3
  <2>7. ASSUME Op \in Stores \cup Starts PROVE UNCHANGED <<line, owed>>
    <3>1. Op.cmd # "R"
      BY <2>1, <2>7, KindsOfExchange
    <3>2. Op.sub = "W"
      <4>1. wu_write_interval.sub = "W" /\ wu_write_mode.sub = "W"
        BY DEF wu_write_interval, wu_write_mode, Exchange
      <4> QED BY <1>7, <1>9, <2>2, <2>7, <4>1 DEF Stores
    <3> QED BY <1>1, <2>1, <3>1, <3>2
  <2>8. ASSUME Op \in Stores \cup Starts, Settled PROVE Settled' /\ AllData'
    <3>1. UNCHANGED <<line, owed>>
      BY <2>7, <2>8
    <3>2. Settled'
      BY <1>4, <2>8, <3>1 DEF Settled, Weight, OnlyTails, Owes
    <3> QED BY <3>2 DEF Settled, OnlyTails, AllData
  <2>9. Replied => Replied'
    <3>1. pc = "read" => Op # wu_write_user /\ Op = wu_show_mode
      BY <1>7
    <3>2. Op \notin Loops /\ (Op \in Stores => Op \in Asking)
      BY <2>1, ClassesDiffer
    <3> SUFFICES ASSUME Replied PROVE Replied'
      OBVIOUS
    <3>3. /\ Op \in Asking => Settled
          /\ Op \in Starts => Settled
      BY <1>1, <1>9 DEF Replied
    <3>4. /\ Op \in Asking => Answered'
          /\ Op \in Stores => Settled'
          /\ Op \in Starts => AllData'
      BY <2>6, <2>8, <3>2, <3>3
    <3> QED BY <1>1, <1>4, <1>9, <2>1, <3>1, <3>2, <3>4 DEF Replied, Busy
  <2>10. /\ DOMAIN settings = {"S", "M", "U"}
         /\ \A x \in {"S", "M"} : settings[x] = UD("asked") => settings'[x] = UD("asked")
         /\ Op.sub = "W" /\ Op.cmd \in {"S", "M"} => settings'[Op.cmd] = UD("asked")
    <3>1. settings \in [{"S", "M", "U"} -> Texts]
      BY TypesAre DEF Metering
    <3>2. Op.sub = "W" /\ Op.cmd \in {"S", "M", "U"} => Op.field = UD("asked")
      BY <2>1, KindsOfExchange
    <3> QED BY <1>1, <2>1, <3>1, <3>2
  <2>11. Setting => Setting'
    <3>1. Contains(script, wu_write_interval)' <=> Contains(script, wu_write_interval)
      BY <1>1
    <3>2. Contains(script, wu_write_mode)' <=> Contains(script, wu_write_mode)
      BY <1>1
    <3> QED BY <1>1, <2>10, <3>1, <3>2 DEF Setting
  <2>12. SettingNow'
    <3>1. /\ wu_write_interval.sub = "W" /\ wu_write_interval.cmd = "S"
          /\ wu_write_mode.sub = "W" /\ wu_write_mode.cmd = "M"
      BY DEF wu_write_interval, wu_write_mode, Exchange
    <3> QED BY <1>4, <2>10, <3>1 DEF SettingNow
  <2> QED BY <1>1, <1>3, <2>5, <2>9, <2>11, <2>12 DEF Calmly
<1> QED BY <1>8, <1>9

-----------------------------------------------------------------------------
(***************************************************************************)
(* What is printed.                                                        *)
(***************************************************************************)
LEMMA NothingIs == Nothing.as \notin {"D"} /\ Nothing.kind = Nothing.as
  BY Zenon DEF Nothing

LEMMA PrintsTheSame ==
  ASSUME RepliesAreOwn, DataIsData, calm' => calm, reset => reset', print' = print \/ print' = Nothing
  PROVE  RepliesAreOwn' /\ DataIsData'
  BY NothingIs DEF RepliesAreOwn, DataIsData

LEMMA ReadReplyPrints ==
  ASSUME Followed, Served, ReadReply, ReadMax >= 2
  PROVE  RepliesAreOwn' /\ DataIsData'
<1>1. /\ pc = "read" /\ pc \in Busy /\ Exchanging /\ (calm' => calm) /\ reset' = reset
  BY DEF ReadReply, TimesOut, past, Busy, NoFault, Fault
<1>2. CASE print' = print
  BY <1>1, <1>2, PrintsTheSame DEF Served
<1>3. CASE print' # print
  <2>1. PICK kind \in parse_packet(Chunk) :
           /\ Arrived # <<>>
           /\ print' = IF kind = "" \/ Op = wu_clear \/ (Op = wu_stop_log /\ ~request.final)
                       THEN print ELSE [as |-> Op.cmd, kind |-> kind]
    BY <1>3 DEF ReadReply
  <2>2. kind # "" /\ Op # wu_clear /\ print' = [as |-> Op.cmd, kind |-> kind]
    BY <1>3, <2>1
  <2>3. fd = "meter" /\ line # <<>>
    BY <2>1 DEF Arrived
  <2>4. /\ Chunk \in Seq(Pieces) /\ Len(Chunk) <= Len(line) /\ \A k \in 1..Len(Chunk) : Chunk[k] = line[k]
    BY <2>3, ChunkIs, TypesAre
  <2>5. PICK m \in 1..Len(Chunk) : Chunk[m].part # "tail" /\ Chunk[m].kind = kind
    <3> HIDE DEF Chunk, parse_packet
    <3> QED BY <2>1, <2>2, <2>4, ParseIs
  <2>6. m \in 1..Len(line) /\ line[m].part # "tail" /\ line[m].kind = kind
    <3>1. Len(line) \in Nat /\ Len(Chunk) \in Nat
      BY <2>4, TypesAre, PlacesOf
    <3> HIDE DEF Chunk
    <3> QED BY <2>4, <2>5, <3>1
  <2> HIDE <2>1, <2>2
  <2>7. print'.as = Op.cmd /\ print'.kind = kind /\ Op # wu_clear
    BY <2>2, Zenon
  <2>8. Op \in Exchanges /\ Op.reads /\ Op.cmd # "D"
    BY <1>1, BusyIs, ClassesDiffer, TypesAre, ExchangeIs DEF AtStep
  <2>9. DataIsData'
    BY <2>7, <2>8 DEF DataIsData
  <2>10. ASSUME calm', Op.cmd # "L" PROVE kind = Op.cmd
    <3>1. Op \notin Stops \cup Starts /\ Op \in Asking
      BY <2>8, <2>10, KindsOfExchange, ClassesDiffer
    <3>2. ~reset
      <4>1. Op = script[1] /\ 1 \in 1..Len(script)
        BY <1>1, BusyIs
      <4>2. Op \notin ResetSteps
        BY <2>7, <2>8, <3>1, ClassesDiffer DEF ResetSteps, Starts
      <4> QED BY <4>1, <4>2, TypesAre DEF Scripted, Resetting
    <3>3. Calmly /\ Replied /\ Known
      BY <1>1, <2>3, <2>10, <3>2 DEF Served, Calmly
    <3>4. pending = <<>>
      <4> SUFFICES ASSUME pending # <<>> PROVE FALSE
        OBVIOUS
      <4>1. Op = wu_show_mode
        BY <1>1, <3>3 DEF Calmly, Obedient
      <4>2. Settled
        BY <1>1, <3>1, <3>3 DEF Replied
      <4>3. OnlyTails
        BY <4>2 DEF Settled
      <4> QED BY <2>6, <4>3 DEF OnlyTails
    <3>5. Answered
      BY <1>1, <3>1, <3>3, <3>4 DEF Replied
    <3> QED BY <2>6, <3>5 DEF Answered
  <2>11. RepliesAreOwn'
    BY <2>7, <2>10 DEF RepliesAreOwn
  <2> QED BY <2>9, <2>11
<1> QED BY <1>2, <1>3

LEMMA ReadRecordPrints ==
  ASSUME Followed, Served, ReadRecord
  PROVE  RepliesAreOwn' /\ DataIsData'
<1>1. /\ pc \in Busy /\ Op = wu_read_data /\ Op \in Loops /\ Arrived # <<>> /\ (calm' => calm) /\ reset' = reset
  BY DEF ReadRecord, past, Busy, NoFault, Loops
<1>2. PICK kind \in parse_packet(Chunk) : kind # "" /\ print' = [as |-> "D", kind |-> kind]
  BY DEF ReadRecord
<1>3. fd = "meter" /\ line # <<>>
  BY <1>1 DEF Arrived
<1>4. /\ Chunk \in Seq(Pieces) /\ Len(Chunk) <= Len(line) /\ \A k \in 1..Len(Chunk) : Chunk[k] = line[k]
  BY <1>3, ChunkIs, TypesAre
<1>5. PICK m \in 1..Len(Chunk) : Chunk[m].part # "tail" /\ Chunk[m].kind = kind
  <2> HIDE DEF Chunk, parse_packet
  <2> QED BY <1>2, <1>4, ParseIs
<1>6. m \in 1..Len(line) /\ line[m].part # "tail" /\ line[m].kind = kind
  <2>1. Len(line) \in Nat /\ Len(Chunk) \in Nat
    BY <1>4, TypesAre, PlacesOf
  <2> HIDE DEF Chunk
  <2> QED BY <1>4, <1>5, <2>1
<1>7. print'.as = "D" /\ print'.kind = kind
  BY <1>2, Zenon
<1> HIDE <1>2
<1>8. ASSUME calm', ~reset' PROVE kind = "D"
  <2>1. AllData
    BY <1>1, <1>3, <1>8, InLoop DEF Served
  <2> QED BY <1>6, <2>1 DEF AllData
<1> QED BY <1>7, <1>8 DEF RepliesAreOwn, DataIsData

LEMMA SimplePrints ==
  ASSUME Followed, Served, ReadSimple \/ ReadRest
  PROVE  RepliesAreOwn' /\ DataIsData'
<1>1. (calm' => calm) /\ reset' = reset /\ pc \in Busy
  BY DEF ReadSimple, ReadRest, NoFault, past, Busy
<1>2. ASSUME calm', ~reset PROVE print' = print \/ (print'.as = "D" /\ print'.kind = "D")
  BY <1>2, ReadSimpleCalmly, ReadRestCalmly
<1>3. ~reset
  <2>1. Op = script[1] /\ 1 \in 1..Len(script)
    BY <1>1, BusyIs
  <2>2. Op = wu_read
    BY TypesAre DEF ReadSimple, ReadRest, AtStep
  <2>3. wu_read \notin ResetSteps
    BY ClassesDiffer, LoopIs DEF ResetSteps, Starts
  <2> QED BY <2>1, <2>2, <2>3, TypesAre DEF Scripted, Resetting
<1> QED BY <1>1, <1>2, <1>3 DEF Served, RepliesAreOwn, DataIsData

LEMMA Prints ==
  ASSUME Followed, Served, [Next]_vars, ReadMax >= 2
  PROVE  RepliesAreOwn' /\ DataIsData'
<1>1. CASE ReadReply \/ ReadRecord \/ ReadSimple \/ ReadRest
  BY <1>1, ReadReplyPrints, ReadRecordPrints, SimplePrints
<1>2. CASE Interrupt \/ RunAgain
  <2>1. print' = Nothing
    BY <1>2 DEF Interrupt, RunAgain, StartsAfresh
  <2> QED BY <2>1, NothingIs DEF RepliesAreOwn, DataIsData
<1>3. ASSUME ~(ReadReply \/ ReadRecord \/ ReadSimple \/ ReadRest), ~ReadBroken, ~(Interrupt \/ RunAgain)
      PROVE  (calm' => calm) /\ (reset => reset') /\ (print' = print \/ print' = Nothing)
  <2>1. CASE parse_args \/ parse_args_better \/ open_device \/ open_device_better \/ open_device_simple
    BY <2>1 DEF parse_args, parse_args_better, open_device, open_device_better, open_device_simple,
                ParseArgs, NoFault, past
  <2>2. CASE setup_serial_device \/ StoreFails \/ wu_write \/ WriteFails \/ wu_clear_better \/ Sleep
    <3>1. CASE setup_serial_device \/ StoreFails \/ wu_clear_better
      <4>1. NoFault /\ print' = print /\ past' = past
        BY <3>1, Zenon DEF setup_serial_device, StoreFails, wu_clear_better
      <4> QED BY ONLY <4>1 DEF NoFault, past
    <3>2. CASE wu_write
      <4>1. (calm' => calm)
        BY <3>2, Zenon DEF wu_write, Fault
      <4>2. print' = Nothing
        BY <3>2, Zenon DEF wu_write
      <4>3. past' = past
        BY <3>2, Zenon DEF wu_write
      <4>4. reset' = reset
        BY ONLY <4>3 DEF past
      <4> QED BY <4>1, <4>2, <4>4
    <3>3. CASE WriteFails
      <4>1. NoFault \/ Fault
        BY <3>3, Zenon DEF WriteFails
      <4>2. print' = Nothing /\ past' = past
        BY <3>3, Zenon DEF WriteFails
      <4>3. reset' = reset
        BY ONLY <4>2 DEF past
      <4> QED BY <4>1, <4>2, <4>3 DEF NoFault, Fault
    <3>4. CASE Sleep
      BY <3>4 DEF Sleep, NoFault, Fault, past
    <3> QED BY <2>2, <3>1, <3>2, <3>3, <3>4
  <2>3. CASE ReadFails \/ SleepInterval \/ SleepHalf \/ ctrlc_handler
    <3>1. CASE ReadFails
      <4>1. (NoFault \/ Fault) /\ print' = print
        BY <3>1, TimesOutIs DEF ReadFails
      <4>2. reset => reset'
        BY <3>1, Zenon DEF ReadFails
      <4> QED BY <4>1, <4>2 DEF NoFault, Fault
    <3>2. CASE SleepInterval \/ SleepHalf
      BY <3>2 DEF SleepInterval, SleepHalf, NoFault, past
    <3>3. CASE ctrlc_handler
      BY <3>3 DEF ctrlc_handler, Disturbs, NoFault, past
    <3> QED BY <2>3, <3>1, <3>2, <3>3
  <2>4. CASE Meter
    <3>1. CASE MeterObeys
      <4>1. NoFault \/ Fault
        BY <3>1, ObeysIs, Zenon
      <4>2. print' = print /\ reset' = reset
        BY <3>1, ObeysIs, Zenon
      <4> QED BY <4>1, <4>2 DEF NoFault, Fault
    <3>2. CASE MeterSamples
      <4>1. NoFault \/ Fault
        BY <3>2, Zenon DEF MeterSamples
      <4>2. print' = print /\ past' = past
        BY <3>2, Zenon DEF MeterSamples
      <4>3. reset' = reset
        BY ONLY <4>2 DEF past
      <4> QED BY <4>1, <4>2, <4>3 DEF NoFault, Fault
    <3>3. CASE MeterSendsRest
      BY <3>3 DEF MeterSendsRest, NoFault, past
    <3> QED BY <2>4, <3>1, <3>2, <3>3 DEF Meter
  <2>5. CASE UNCHANGED vars
    BY <2>5 DEF vars, past
  <2>6. CASE Breaks
    BY <2>6 DEF Breaks, Fault, past
  <2> QED BY <1>3, <2>1, <2>2, <2>3, <2>4, <2>5, <2>6 DEF Next, Program, Done
<1>4. CASE ReadBroken
  <2>1. fd = "broken" /\ calm' = calm
    BY <1>4, Zenon DEF ReadBroken, NoFault
  <2>2. ~calm'
    BY <2>1 DEF Served
  <2> QED BY <2>2 DEF RepliesAreOwn, DataIsData
<1> QED BY <1>1, <1>2, <1>3, <1>4, PrintsTheSame DEF Served

LEMMA ServedInit == Init => Served
<1> SUFFICES ASSUME Init PROVE Served
  OBVIOUS
<1>1. Known
  BY KnownInit
<1>2. RepliesAreOwn /\ DataIsData
  <2>1. print = Nothing
    BY DEF Init
  <2> QED BY <2>1, NothingIs DEF RepliesAreOwn, DataIsData
<1>3. Calmly /\ fd # "broken"
  <2>1. Idle
    BY Zenon DEF Init, Idle, Owes
  <2>2. pc = "args" /\ fd = "none"
    BY DEF Init
  <2> QED BY <2>1, <2>2 DEF Calmly, Obedient
<1> QED BY <1>1, <1>2, <1>3 DEF Served

LEMMA ServedNext ==
  ASSUME Followed, Served, [Next]_vars, ReadMax >= 2
  PROVE  Served'
<1>1. Known'
  BY KnownNext DEF Served
<1>2. RepliesAreOwn' /\ DataIsData'
  BY Prints
<1>3. ASSUME calm' PROVE Calmly'
  <2>1. CASE parse_args \/ parse_args_better \/ open_device \/ open_device_better \/ open_device_simple
    BY <1>3, <2>1, OpensCalmly
  <2>2. CASE setup_serial_device \/ StoreFails \/ wu_write \/ wu_clear_better \/ Sleep
    BY <1>3, <2>2, SetupCalmly, StoreFailsCalmly, WriteCalmly, ClearBetterCalmly, SleepCalmly
  <2>3. CASE WriteFails \/ ReadBroken \/ Breaks
    <3>1. ~calm'
      <4>1. CASE WriteFails
        BY <4>1, Zenon DEF WriteFails, Fault, NoFault, Served
      <4>2. CASE ReadBroken
        BY <4>2, Zenon DEF ReadBroken, NoFault, Served
      <4>3. CASE Breaks
        BY <4>3, Zenon DEF Breaks, Fault
      <4> QED BY <2>3, <4>1, <4>2, <4>3
    <3> QED BY <1>3, <3>1
  <2>4. CASE ReadReply \/ ReadRecord \/ ReadFails \/ SleepInterval \/ SleepHalf \/ ReadSimple \/ ReadRest
    BY <1>3, <2>4, ReadReplyCalmly, ReadRecordCalmly, ReadFailsCalmly, PausesCalmly,
       ReadSimpleCalmly, ReadRestCalmly
  <2>5. CASE ctrlc_handler \/ Interrupt \/ RunAgain
    BY <1>3, <2>5, CtrlcCalmly, InterruptCalmly, RunAgainCalmly
  <2>6. CASE Meter
    BY <1>3, <2>6, ObeysCalmly, SamplesCalmly, SendsRestCalmly DEF Meter
  <2>7. CASE UNCHANGED vars
    <3>1. UNCHANGED <<request, pc, script, fd, ret, string, log, settings, pending, owed, line, reset, calm>>
      BY <2>7 DEF vars, simple, meter, past
    <3>2. Calmly
      BY <1>3, <3>1 DEF Served
    <3> QED BY <3>1, <3>2, CalmlyStays
  <2> QED BY <2>1, <2>2, <2>3, <2>4, <2>5, <2>6, <2>7 DEF Next, Program, Done
<1>4. ASSUME calm' PROVE fd' # "broken"
  BY <1>4, WholeNext DEF Served
<1> QED BY <1>1, <1>2, <1>3, <1>4 DEF Served

LEMMA AlwaysServed ==
  ASSUME ReadMax >= 2
  PROVE  Spec => [](Followed /\ Served)
<1>1. Init => Followed /\ Served
  BY FollowedInit, ServedInit
<1>2. Followed /\ Served /\ [Next]_vars => (Followed /\ Served)'
  BY FollowedNext, ServedNext
<1> QED BY <1>1, <1>2, PTL DEF Spec

\* What a calm run prints as the reply to a request is that reply, though the programs
\* compare nothing: the only reply that is not waited for finds the line empty, and the
\* others are read as a whole (wattsup.c:642-820).
THEOREM RepliesAreTheirOwn ==
  ASSUME ReadMax >= 2
  PROVE  Spec => []RepliesAreOwn
<1>1. Followed /\ Served => RepliesAreOwn
  BY DEF Served
<1> QED BY <1>1, AlwaysServed, PTL

\* What a calm run that has not reset the log prints as data is data (wattsup.c:860-925).
THEOREM RecordsAreData ==
  ASSUME ReadMax >= 2
  PROVE  Spec => []DataIsData
<1>1. Followed /\ Served => DataIsData
  BY DEF Served
<1> QED BY <1>1, AlwaysServed, PTL

\* A calm run that ends by itself has stopped the log, and the meter has obeyed before the
\* program is gone (wattsup.c:1871-1878).
THEOREM LogsAreStopped ==
  ASSUME ReadMax >= 2
  PROVE  Spec => []LogIsStopped
<1>1. Followed /\ Served => LogIsStopped
  BY DEF Served, Calmly, Obedient, LogIsStopped
<1> QED BY <1>1, AlwaysServed, PTL

\* When a calm run ends well the meter holds the interval and the mode this run was asked
\* for, in the text "%ud" makes of each: the number and a 'd' (wattsup.c:958-1060).
THEOREM SettingsAreTaken ==
  ASSUME ReadMax >= 2
  PROVE  Spec => []SettingsTaken
<1>1. Followed /\ Served => SettingsTaken
  <2> SUFFICES ASSUME Followed, Served, pc = "closed", ret = 0, calm, fd = "meter"
               PROVE  /\ request.interval = "valued" => settings["S"] = UD("asked")
                      /\ request.mode = "valued" => settings["M"] = UD("asked")
    BY DEF SettingsTaken
  <2>1. script = <<>>
    BY TypesAre DEF AtStep
  <2>2. ~Contains(script, wu_write_interval) /\ ~Contains(script, wu_write_mode)
    BY <2>1, NothingContained
  <2> QED BY <2>2 DEF Served, Calmly, Setting
<1> QED BY <1>1, AlwaysServed, PTL

=============================================================================
