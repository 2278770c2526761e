-------------------------- MODULE DaqCaptureProofs --------------------------
(***************************************************************************)
(* Theorems about DaqCapture for every ring size, number of channels and   *)
(* bound, whatever fails and at whatever speed the threads run.            *)
(***************************************************************************)
EXTENDS DaqCapture, TLAPS

\* The parts of the ring in quarters, the form the provers reason about.
LEMMA Quarters ==
    /\ Quarter \in Nat \ {0}
    /\ NumPoints = 4 * Quarter
    /\ Half = 2 * Quarter
    /\ Allocated = 8 * Quarter
    /\ NumChannels \in 1 .. Half
  BY NumPointsAssumption, NumChannelsAssumption DEF Quarter, Half, Allocated

-----------------------------------------------------------------------------
(* Type correctness and memory safety.                                     *)

\* What TypeOK lacks to be inductive: the index is wrapped before the next
\* transfer starts there, and a line is begun inside the half.
Confined ==
    /\ rpc # "wrap" => currIndex < NumPoints
    /\ mpc = "write" => /\ currentChan <= currentData
                        /\ currentData - currentChan < Half

SafeInv == TypeOK /\ Confined

LEMMA InitSafe == Init => SafeInv
<1> SUFFICES ASSUME Init PROVE SafeInv
  OBVIOUS
<1>1. data \in [Cells -> Nat]
  BY DEF Init
<1>2. out \in Seq([chan : 0 .. NumChannels - 1, sample : Nat])
  BY DEF Init
<1>3. rpc \in {"none", "sleep"} /\ faulted \subseteq FaultKinds
  BY DEF Init, FaultKinds
<1>4. thread_alive \in BOOLEAN /\ done \in BOOLEAN /\ polled \in BOOLEAN
  BY Zenon DEF Init
<1>5. Confined
  BY Quarters DEF Init, Confined
<1>6. TypeOK
  BY <1>1, <1>2, <1>3, <1>4, Quarters, BoundsAssumption DEF Init, TypeOK
<1> QED
  BY <1>5, <1>6 DEF SafeInv

\* No step of the reader thread breaks the bounds.
LEMMA ReaderSafe == SafeInv /\ Reader => SafeInv'
<1> SUFFICES ASSUME TypeOK, Confined, Reader
             PROVE  TypeOK' /\ Confined'
  BY DEF SafeInv
<1> USE Quarters, BoundsAssumption DEF TypeOK, Confined, readerVars, mainVars, failVars
<1>1. CASE SubmitTransfer
  BY <1>1 DEF SubmitTransfer
<1>2. CASE SampleArrives
  <2>1. data' = [data EXCEPT ![currIndex + got] = sent + 1]
    BY <1>2 DEF SampleArrives
  <2>2. data \in [Cells -> Nat] /\ sent + 1 \in Nat
    OBVIOUS
  <2>3. data' \in [Cells -> Nat]
    BY ONLY <2>1, <2>2
  <2> QED
    BY <2>3, <1>2 DEF SampleArrives
<1>3. CASE TransferCompletes
  BY <1>3 DEF TransferCompletes
<1>4. CASE TransferFallsShort
  BY <1>4 DEF TransferFallsShort, FaultKinds
<1>5. CASE TransferRefused
  BY <1>5 DEF TransferRefused, FaultKinds
<1>6. CASE AdvanceIndex
  <2>1. /\ currIndex \in Nat
        /\ currIndex < NumPoints
        /\ currIndex' = currIndex + transferred \div 2
    BY <1>6 DEF AdvanceIndex
  <2>2. currIndex' \in 0 .. NumPoints + Quarter - 1
    <3>1. transferred \div 2 \in 0 .. Quarter
      OBVIOUS
    <3> QED
      BY ONLY <3>1, <2>1, Quarters
  <2>3. polled' \in BOOLEAN
    BY <1>6, Zenon DEF AdvanceIndex
  <2> QED
    BY <2>2, <2>3, <1>6 DEF AdvanceIndex
<1>7. CASE WrapIndex
  BY <1>7 DEF WrapIndex
<1>8. CASE CheckAlive
  BY <1>8 DEF CheckAlive
<1> QED
  BY <1>1, <1>2, <1>3, <1>4, <1>5, <1>6, <1>7, <1>8 DEF Reader

\* Nor does one of the main thread: the pass that runs over the end of its half
\* stops within the line.
LEMMA MainSafe == SafeInv /\ Main => SafeInv'
<1> SUFFICES ASSUME TypeOK, Confined, Main
             PROVE  TypeOK' /\ Confined'
  BY DEF SafeInv
<1> USE Quarters, BoundsAssumption DEF TypeOK, Confined, readerVars, mainVars, failVars
<1>1. CASE LoopTest
  BY <1>1 DEF LoopTest
<1>2. CASE PollBuffer
  <2>1. CASE FirstHalfReady \/ SecondHalfReady
    BY <2>1, <1>2 DEF PollBuffer
  <2>2. CASE ~(FirstHalfReady \/ SecondHalfReady)
    BY <2>2, <1>2 DEF PollBuffer
  <2> QED
    BY <2>1, <2>2
<1>3. CASE WriteSample
  <2>1. start + currentData \in Cells
    BY <1>3 DEF WriteSample, Cells
  <2>2. out' \in Seq([chan : 0 .. NumChannels - 1, sample : Nat])
    BY <2>1, <1>3 DEF WriteSample
  <2>3. /\ currentData' \in 0 .. Half + NumChannels
        /\ currentChan' \in 0 .. NumChannels - 1
        /\ Confined'
    BY <1>3 DEF WriteSample, EndOfPass
  <2> QED
    BY <2>2, <2>3, <1>3 DEF WriteSample
<1>4. CASE StopContinuousTransfer
  BY <1>4 DEF StopContinuousTransfer
<1>5. CASE JoinThread
  BY <1>5 DEF JoinThread
<1> QED
  BY <1>1, <1>2, <1>3, <1>4, <1>5 DEF Main

LEMMA NextSafe == SafeInv /\ [Next]_vars => SafeInv'
<1> SUFFICES ASSUME SafeInv, [Next]_vars
             PROVE  SafeInv'
  OBVIOUS
<1>1. CASE Reader
  BY <1>1, ReaderSafe
<1>2. CASE Main
  BY <1>2, MainSafe
<1>3. CASE Interrupt
  BY <1>3 DEF Interrupt, SafeInv, TypeOK, Confined, readerVars, mainVars, failVars
<1>4. CASE UNCHANGED vars
  BY <1>4 DEF vars, SafeInv, TypeOK, Confined, readerVars, mainVars, failVars
<1> QED
  BY <1>1, <1>2, <1>3, <1>4 DEF Next, Finished

\* Every behaviour of the capture keeps its types, whatever fails.
THEOREM TypeCorrect == SafetySpec => []TypeOK
<1>1. SafetySpec => []SafeInv
  BY InitSafe, NextSafe, PTL DEF SafetySpec
<1>2. SafeInv => TypeOK
  BY DEF SafeInv
<1> QED
  BY <1>1, <1>2, PTL

\* No transfer and no pass leaves the block that was allocated, for any ring,
\* any number of channels up to half of it, and any sequence of failures.
THEOREM MemorySafe == SafetySpec => []InBounds
<1>1. SafetySpec => []SafeInv
  BY InitSafe, NextSafe, PTL DEF SafetySpec
<1>2. SafeInv => InBounds
  BY Quarters DEF SafeInv, TypeOK, Confined, InBounds
<1> QED
  BY <1>1, <1>2, PTL

-----------------------------------------------------------------------------
(* The capture that keeps up implements DaqStream. The invariant has four  *)
(* parts: where the index may stand and how many samples are behind it,    *)
(* what the cells hold, how the output stands to the columns, and how far  *)
(* the two threads may be apart in each phase of the main thread.          *)

Counted ==
    /\ faulted \subseteq {"create"}
    /\ currIndex \in {0, Quarter, 2 * Quarter, 3 * Quarter, 4 * Quarter}
    /\ currIndex = 4 * Quarter => rpc = "wrap"
    /\ rpc \notin {"transfer", "advance"} => got = 0
    /\ rpc = "advance" => got = Quarter /\ transferred = 2 * Quarter
    /\ sent = lap + currIndex + got

\* The cells up to the index and the transfer in flight hold this lap, the
\* others the lap before.
Contents ==
    \A c \in 0 .. NumPoints - 1 :
        /\ c < currIndex + got => data[c] = lap + c + 1
        /\ c >= currIndex + got /\ lap > 0 => data[c] = lap - NumPoints + c + 1

InColumns ==
    /\ mpc # "write" => Len(out) % NumChannels = 0
    /\ mpc = "write" => /\ Len(out) % NumChannels = currentChan
                        /\ currentData % NumChannels = currentChan
                        /\ currentData < Half

\* Between two passes the index is short of the place that starts the next one,
\* or main has not looked at it since it got there.
Waiting ==
    mpc \in {"loop", "poll", "stop"} =>
        IF lastHalfRead = "SECONDHALF"
          THEN /\ Len(out) = lap
               /\ currIndex < 4 * Quarter
               /\ currIndex = 3 * Quarter => ~polled
          ELSE \/ /\ Len(out) = lap + Half
                  /\ currIndex \in {3 * Quarter, 4 * Quarter}
               \/ /\ Len(out) + Half = lap
                  /\ currIndex \in {0, Quarter}
                  /\ currIndex = Quarter => ~polled

\* During a pass the index advances at most once, and the transfer submitted
\* then brings nothing before the pass ends.
Passing ==
    /\ mpc = "write" /\ start = 0 =>
          /\ lastHalfRead = "SECONDHALF"
          /\ \/ /\ Len(out) = lap + currentData
                /\ currIndex = 3 * Quarter
             \/ /\ Len(out) = lap + currentData
                /\ currIndex = 4 * Quarter
                /\ ~polled
             \/ /\ Len(out) + NumPoints = lap + currentData
                /\ currIndex = 0
                /\ got = 0
                /\ ~polled
    /\ mpc = "write" /\ start = Half =>
          /\ lastHalfRead = "FIRSTHALF"
          /\ Len(out) + Half = lap + currentData
          /\ \/ currIndex = 0 /\ polled
             \/ currIndex = Quarter /\ (polled \/ got = 0)
             \/ currIndex = 2 * Quarter /\ ~polled /\ got = 0

\* After stopContinuousTransfer the reader ends the turn it is in.
Stopping ==
    mpc \in {"join", "exit", "crash"} =>
        /\ ~thread_alive
        /\ IF lastHalfRead = "SECONDHALF"
             THEN \/ Len(out) = lap
                  \/ /\ Len(out) + NumPoints = lap
                     /\ currIndex = 0
                     /\ rpc \in {"check", "done"}
             ELSE \/ /\ Len(out) = lap + Half
                     /\ currIndex \in {3 * Quarter, 4 * Quarter}
                  \/ /\ Len(out) + Half = lap
                     /\ currIndex \in {0, Quarter, 2 * Quarter}
                     /\ currIndex = 2 * Quarter => rpc \in {"wrap", "check", "done"}

StreamInv ==
    SafeInv /\ Counted /\ Contents /\ InColumns /\ Waiting /\ Passing /\ Stopping

\* The hypotheses: the threads keep their schedule, no transfer fails, and the
\* channels divide half the ring.
KeepsUp == Timely /\ Faults \subseteq {"create"} /\ Half % NumChannels = 0

\* Division with remainder: a number has one.
LEMMA Division ==
    ASSUME NEW x \in Nat
    PROVE  /\ x = NumChannels * (x \div NumChannels) + (x % NumChannels)
           /\ x % NumChannels \in 0 .. NumChannels - 1
           /\ x \div NumChannels \in Nat
  BY Quarters

LEMMA Remainder ==
    ASSUME NEW x \in Nat, NEW q \in Nat, NEW r \in 0 .. NumChannels - 1,
           x = NumChannels * q + r
    PROVE  x % NumChannels = r
  BY Quarters

\* The column after the last one is the first.
LEMMA NextColumn ==
    ASSUME NEW x \in Nat
    PROVE  (x + 1) % NumChannels = IF (x % NumChannels) + 1 = NumChannels
                                     THEN 0
                                     ELSE (x % NumChannels) + 1
<1> DEFINE q == x \div NumChannels
           r == x % NumChannels
<1>1. x = NumChannels * q + r /\ r \in 0 .. NumChannels - 1 /\ q \in Nat
  BY Division
<1> HIDE DEF q, r
<1>2. CASE r + 1 = NumChannels
  <2>1. x + 1 = NumChannels * (q + 1) + 0
    BY <1>1, <1>2, Quarters
  <2>2. (x + 1) % NumChannels = 0
    BY <2>1, <1>1, Remainder, Quarters
  <2> QED
    BY <2>2, <1>2 DEF r
<1>3. CASE r + 1 # NumChannels
  <2>1. x + 1 = NumChannels * q + (r + 1) /\ r + 1 \in 0 .. NumChannels - 1
    BY <1>1, <1>3, Quarters
  <2>2. (x + 1) % NumChannels = r + 1
    BY <2>1, <1>1, Remainder, Quarters
  <2> QED
    BY <2>2, <1>3 DEF r
<1> QED
  BY <1>2, <1>3

\* A pass that has not come to the end of a line has not come to the end of the
\* half: the half is a whole number of lines.
LEMMA HalfIsLines ==
    ASSUME Half % NumChannels = 0, NEW x \in Nat, x < Half,
           (x % NumChannels) + 1 # NumChannels
    PROVE  x + 1 < Half
<1>1. SUFFICES ASSUME x + 1 = Half PROVE FALSE
  BY Quarters
<1>2. (x + 1) % NumChannels = (x % NumChannels) + 1
  BY NextColumn
<1>3. x % NumChannels \in 0 .. NumChannels - 1
  BY Division
<1> QED
  BY <1>1, <1>2, <1>3, Quarters

LEMMA InitStream == KeepsUp /\ Init => StreamInv
<1> SUFFICES ASSUME KeepsUp, Init PROVE StreamInv
  OBVIOUS
<1>1. SafeInv
  BY InitSafe
<1>2. Counted
  BY Quarters DEF Init, Counted
<1>3. Contents
  BY Quarters DEF Init, Contents
<1>4. InColumns
  BY Quarters DEF Init, InColumns
<1>5. Waiting /\ Passing /\ Stopping
  BY Quarters DEF Init, Waiting, Passing, Stopping
<1> QED
  BY <1>1, <1>2, <1>3, <1>4, <1>5 DEF StreamInv

\* The reader thread: it counts and stores what arrives ...
LEMMA ReaderCounts == KeepsUp /\ StreamInv /\ Reader => Counted'
<1> SUFFICES ASSUME KeepsUp, SafeInv, Counted, Reader PROVE Counted'
  BY DEF StreamInv
<1> USE Quarters DEF SafeInv, TypeOK, Confined, Counted, failVars
<1>1. CASE SubmitTransfer
  BY <1>1 DEF SubmitTransfer
<1>2. CASE SampleArrives
  BY <1>2 DEF SampleArrives
<1>3. CASE TransferCompletes
  BY <1>3 DEF TransferCompletes
<1>4. CASE TransferFallsShort \/ TransferRefused
  BY <1>4 DEF TransferFallsShort, TransferRefused, KeepsUp
<1>5. CASE AdvanceIndex
  <2>1. transferred \div 2 = Quarter /\ got = Quarter /\ currIndex < 4 * Quarter
    BY <1>5 DEF AdvanceIndex
  <2>2. currIndex' = currIndex + Quarter /\ got' = 0 /\ rpc' = "wrap"
    BY <2>1, <1>5 DEF AdvanceIndex
  <2> QED
    BY <2>1, <2>2, <1>5 DEF AdvanceIndex
<1>6. CASE WrapIndex
  <2>1. /\ rpc' = "check"
        /\ got = 0
        /\ UNCHANGED <<got, sent, faulted>>
    BY <1>6 DEF WrapIndex
  <2>2. CASE currIndex = 4 * Quarter
    <3>1. currIndex' = 0 /\ lap' = lap + NumPoints
      BY <1>6, <2>2 DEF WrapIndex
    <3> QED
      BY <2>1, <2>2, <3>1
  <2>3. CASE currIndex # 4 * Quarter
    <3>1. UNCHANGED <<currIndex, lap>>
      BY <1>6, <2>3 DEF WrapIndex
    <3> QED
      BY <2>1, <2>3, <3>1
  <2> QED
    BY <2>2, <2>3
<1>7. CASE CheckAlive
  BY <1>7 DEF CheckAlive
<1> QED
  BY <1>1, <1>2, <1>3, <1>4, <1>5, <1>6, <1>7 DEF Reader

LEMMA ReaderStores == KeepsUp /\ StreamInv /\ Reader => Contents'
<1> SUFFICES ASSUME KeepsUp, SafeInv, Counted, Contents, Reader,
                    NEW c \in 0 .. NumPoints - 1
             PROVE  /\ c < currIndex' + got' => data'[c] = lap' + c + 1
                    /\ c >= currIndex' + got' /\ lap' > 0 =>
                          data'[c] = lap' - NumPoints + c + 1
  BY DEF StreamInv, Contents
<1> USE Quarters DEF SafeInv, TypeOK, Confined, Counted
<1>0. /\ c < currIndex + got => data[c] = lap + c + 1
      /\ c >= currIndex + got /\ lap > 0 => data[c] = lap - NumPoints + c + 1
  BY DEF Contents
<1>1. CASE SubmitTransfer
  BY <1>0, <1>1 DEF SubmitTransfer
<1>2. CASE SampleArrives
  <2>1. c \in Cells /\ currIndex + got \in 0 .. NumPoints - 1
    BY <1>2 DEF SampleArrives, Cells
  <2>2. data'[c] = IF c = currIndex + got THEN sent + 1 ELSE data[c]
    BY <2>1, <1>2 DEF SampleArrives
  <2>3. UNCHANGED <<currIndex, lap>> /\ got' = got + 1
    BY <1>2 DEF SampleArrives
  <2>4. CASE c = currIndex + got
    BY <2>2, <2>3, <2>4
  <2>5. CASE c < currIndex + got
    BY <1>0, <2>2, <2>3, <2>5
  <2>6. CASE c > currIndex + got
    BY <1>0, <2>2, <2>3, <2>6
  <2> QED
    BY <2>1, <2>4, <2>5, <2>6
<1>3. CASE TransferCompletes
  BY <1>0, <1>3 DEF TransferCompletes
<1>4. CASE TransferFallsShort \/ TransferRefused
  BY <1>4 DEF TransferFallsShort, TransferRefused, KeepsUp
<1>5. CASE AdvanceIndex
  <2>1. transferred \div 2 = Quarter /\ got = Quarter
    BY <1>5 DEF AdvanceIndex
  <2>2. currIndex' + got' = currIndex + got /\ UNCHANGED <<data, lap>>
    BY <2>1, <1>5 DEF AdvanceIndex
  <2> QED
    BY <1>0, <2>2
<1>6. CASE WrapIndex
  BY <1>0, <1>6 DEF WrapIndex
<1>7. CASE CheckAlive
  BY <1>0, <1>7 DEF CheckAlive
<1> QED
  BY <1>1, <1>2, <1>3, <1>4, <1>5, <1>6, <1>7 DEF Reader

\* ... and stays within reach of the main thread.
LEMMA ReaderWaits ==
    KeepsUp /\ StreamInv /\ Reader => Waiting' /\ Passing' /\ Stopping'
<1> SUFFICES ASSUME KeepsUp, SafeInv, Counted, Waiting, Passing, Stopping, Reader
             PROVE  Waiting' /\ Passing' /\ Stopping'
  BY DEF StreamInv
<1> USE Quarters DEF SafeInv, TypeOK, Counted, mainVars
<1>0. Len(out) \in Nat
  OBVIOUS
<1>1. CASE SubmitTransfer \/ TransferCompletes
  <2>1. UNCHANGED <<currIndex, lap, mainVars, thread_alive, polled>>
    BY <1>1 DEF SubmitTransfer, TransferCompletes
  <2>2. rpc \notin {"check", "done", "wrap"} /\ (got = 0 => got' = 0)
    BY <1>1 DEF SubmitTransfer, TransferCompletes
  <2> QED
    BY <2>1, <2>2, <1>0 DEF Waiting, Passing, Stopping
<1>2. CASE SampleArrives
  <2>1. UNCHANGED <<rpc, currIndex, lap, mainVars, thread_alive, polled>>
    BY <1>2 DEF SampleArrives
  <2>2. mpc = "write" => polled
    BY <1>2 DEF SampleArrives, PassKeepsUp, KeepsUp
  <2> QED
    BY <2>1, <2>2, <1>0 DEF Waiting, Passing, Stopping
<1>3. CASE TransferFallsShort \/ TransferRefused
  BY <1>3 DEF TransferFallsShort, TransferRefused, KeepsUp
<1>4. CASE AdvanceIndex
  <2>1. transferred \div 2 = Quarter /\ got = Quarter /\ currIndex < 4 * Quarter
    BY <1>4 DEF AdvanceIndex
  <2>2. /\ currIndex' = currIndex + Quarter
        /\ got' = 0
        /\ rpc' = "wrap"
        /\ ~polled'
        /\ UNCHANGED <<lap, mainVars, thread_alive>>
    BY <2>1, <1>4 DEF AdvanceIndex
  <2>3. polled \/ mpc \in {"join", "exit", "crash"}
    BY <1>4 DEF AdvanceIndex, Polled, KeepsUp
  <2>4. Waiting'
    BY <1>0, <2>1, <2>2, <2>3 DEF Waiting
  <2>5. Passing'
    BY <1>0, <2>1, <2>2, <2>3 DEF Passing
  <2>6. Stopping'
    BY <1>0, <1>4, <2>1, <2>2 DEF Stopping, AdvanceIndex
  <2> QED
    BY <2>4, <2>5, <2>6
<1>5. CASE WrapIndex
  <2>1. /\ rpc = "wrap"
        /\ rpc' = "check"
        /\ got = 0
        /\ UNCHANGED <<got, mainVars, thread_alive, polled>>
    BY <1>5 DEF WrapIndex
  <2>2. CASE currIndex = 4 * Quarter
    <3>1. currIndex' = 0 /\ lap' = lap + NumPoints
      BY <1>5, <2>2 DEF WrapIndex
    <3>2. Waiting'
      BY SMTT(30), <1>0, <2>1, <2>2, <3>1 DEF Waiting
    <3>3. Passing'
      <4>1. mpc = "write" => /\ start = 0
                             /\ lastHalfRead = "SECONDHALF"
                             /\ Len(out) = lap + currentData
                             /\ ~polled
        BY <2>2 DEF Passing
      <4>2. mpc' = "write" => /\ start' = 0
                              /\ lastHalfRead' = "SECONDHALF"
                              /\ Len(out') + NumPoints = lap' + currentData'
                              /\ currIndex' = 0
                              /\ got' = 0
                              /\ ~polled'
        BY <1>0, <2>1, <3>1, <4>1
      <4> QED
        BY <4>2 DEF Passing
    <3>4. Stopping'
      <4>1. mpc \in {"join", "exit", "crash"} =>
              /\ ~thread_alive
              /\ lastHalfRead = "SECONDHALF" => Len(out) = lap
              /\ lastHalfRead = "FIRSTHALF" => Len(out) = lap + Half
        BY <2>1, <2>2 DEF Stopping
      <4>2. mpc' \in {"join", "exit", "crash"} =>
              /\ ~thread_alive'
              /\ lastHalfRead' = "SECONDHALF" => Len(out') + NumPoints = lap'
              /\ lastHalfRead' = "FIRSTHALF" => Len(out') + Half = lap'
        BY <1>0, <2>1, <3>1, <4>1
      <4>3. lastHalfRead' \in {"FIRSTHALF", "SECONDHALF"}
        BY <2>1
      <4> QED
        BY <2>1, <3>1, <4>2, <4>3 DEF Stopping
    <3> QED
      BY <3>2, <3>3, <3>4
  <2>3. CASE currIndex # 4 * Quarter
    <3>1. UNCHANGED <<currIndex, lap>>
      BY <1>5, <2>3 DEF WrapIndex
    <3> QED
      BY <1>0, <2>1, <2>3, <3>1 DEF Waiting, Passing, Stopping
  <2> QED
    BY <2>2, <2>3
<1>6. CASE CheckAlive
  <2>1. /\ rpc = "check"
        /\ rpc' = IF thread_alive THEN "sleep" ELSE "done"
        /\ UNCHANGED <<currIndex, got, lap, mainVars, thread_alive, polled>>
    BY <1>6 DEF CheckAlive
  <2> QED
    BY <1>0, <2>1 DEF Waiting, Passing, Stopping
<1> QED
  BY <1>1, <1>2, <1>3, <1>4, <1>5, <1>6 DEF Reader

\* The reader leaves the output alone, the main thread the ring.
LEMMA ReaderColumns == StreamInv /\ Reader => InColumns'
<1> SUFFICES ASSUME InColumns, Reader PROVE InColumns'
  BY DEF StreamInv
<1>1. UNCHANGED mainVars
  BY DEF Reader, SubmitTransfer, SampleArrives, TransferCompletes,
         TransferFallsShort, TransferRefused, AdvanceIndex, WrapIndex, CheckAlive
<1> QED
  BY <1>1 DEF InColumns, mainVars

LEMMA MainRing == Main \/ Interrupt => UNCHANGED <<readerVars, faulted>>
  BY DEF Main, LoopTest, PollBuffer, WriteSample, StopContinuousTransfer,
         JoinThread, Interrupt, failVars

LEMMA MainCounts ==
    /\ StreamInv
    /\ UNCHANGED <<readerVars, faulted>>
    => Counted' /\ Contents'
  BY DEF StreamInv, Counted, Contents, readerVars

\* What displayAndWriteData is about to write is the oldest sample not written.
LEMMA ReadsNext ==
    StreamInv /\ mpc = "write" =>
        Len(out) < sent /\ data[start + currentData] = Len(out) + 1
<1> SUFFICES ASSUME SafeInv, Counted, Contents, InColumns, Passing, mpc = "write"
             PROVE  Len(out) < sent /\ data[start + currentData] = Len(out) + 1
  BY DEF StreamInv
<1> USE Quarters DEF SafeInv, TypeOK, Counted
<1>0. /\ Len(out) \in Nat
      /\ currentData \in Nat /\ currentData < Half
      /\ start + currentData \in 0 .. NumPoints - 1
  BY DEF InColumns
<1>1. /\ start + currentData < currIndex + got =>
            data[start + currentData] = lap + (start + currentData) + 1
      /\ start + currentData >= currIndex + got /\ lap > 0 =>
            data[start + currentData] = lap - NumPoints + (start + currentData) + 1
  BY <1>0 DEF Contents
<1>2. CASE start = 0
  <2>1. CASE Len(out) = lap + currentData /\ currIndex >= 3 * Quarter
    BY <1>0, <1>1, <1>2, <2>1
  <2>2. CASE Len(out) + NumPoints = lap + currentData /\ currIndex = 0 /\ got = 0
    <3>1. lap > 0 /\ start + currentData >= currIndex + got
      BY <1>0, <1>2, <2>2
    <3> QED
      BY <1>0, <1>1, <1>2, <2>2, <3>1
  <2> QED
    BY <1>2, <2>1, <2>2 DEF Passing
<1>3. CASE start = Half
  <2>1. Len(out) + Half = lap + currentData /\ currIndex + got <= Half
    BY <1>3 DEF Passing
  <2>2. lap > 0 /\ start + currentData >= currIndex + got
    BY <1>0, <1>3, <2>1
  <2> QED
    BY <1>0, <1>1, <1>3, <2>1, <2>2
<1> QED
  BY <1>2, <1>3

\* A write of one sample, in the terms the invariant is stated in.
LEMMA Writing ==
    ASSUME KeepsUp, StreamInv, WriteSample
    PROVE  /\ out' = Append(out, [chan |-> Len(out) % NumChannels,
                                  sample |-> Len(out) + 1])
           /\ Len(out') = Len(out) + 1
           /\ currentData' = currentData + 1
           /\ InColumns'
           /\ mpc' = "loop" => currentData' = Half
<1> USE Quarters DEF SafeInv, TypeOK
<1>0. /\ SafeInv
      /\ mpc = "write"
      /\ currentData \in Nat /\ currentData < Half
      /\ currentChan \in 0 .. NumChannels - 1
      /\ Len(out) \in Nat
      /\ Len(out) % NumChannels = currentChan
      /\ currentData % NumChannels = currentChan
  BY DEF StreamInv, InColumns, WriteSample
<1>1. out' = Append(out, [chan |-> currentChan, sample |-> Len(out) + 1])
  BY ReadsNext, <1>0 DEF WriteSample
<1>2. Len(out') = Len(out) + 1
  BY <1>0, <1>1
<1>3. currentData' = currentData + 1
  BY DEF WriteSample
<1>4. /\ Len(out') % NumChannels = currentChan'
      /\ currentData' % NumChannels = currentChan'
  BY <1>0, <1>2, <1>3, NextColumn DEF WriteSample
<1>5. CASE EndOfPass
  <2>1. currentChan' = 0 /\ mpc' = "loop" /\ currentData' = Half
    BY <1>0, <1>3, <1>5 DEF WriteSample, EndOfPass
  <2> QED
    BY <1>0, <1>1, <1>2, <1>3, <1>4, <2>1 DEF InColumns
<1>6. CASE ~EndOfPass
  <2>1. mpc' = "write"
    BY <1>0, <1>6 DEF WriteSample
  <2>2. Half % NumChannels = 0
    BY DEF KeepsUp
  <2>3. currentData + 1 < Half \/ currentChan + 1 # NumChannels
    BY <1>0, <1>6 DEF EndOfPass
  <2>4. currentData + 1 < Half
    BY <1>0, <2>2, <2>3, HalfIsLines
  <2> QED
    BY <1>0, <1>1, <1>2, <1>3, <1>4, <2>1, <2>4 DEF InColumns
<1> QED
  BY <1>5, <1>6

\* The main thread: it looks at the index, writes a half, and stops.
LEMMA MainWaits ==
    KeepsUp /\ StreamInv /\ Main =>
        InColumns' /\ Waiting' /\ Passing' /\ Stopping'
<1> SUFFICES ASSUME KeepsUp, StreamInv, Main
             PROVE  InColumns' /\ Waiting' /\ Passing' /\ Stopping'
  OBVIOUS
<1>0. /\ SafeInv /\ Counted /\ InColumns /\ Waiting /\ Passing /\ Stopping
      /\ Len(out) \in Nat
      /\ UNCHANGED <<rpc, currIndex, got, lap>>
  BY MainRing DEF StreamInv, SafeInv, TypeOK, readerVars
<1> USE Quarters DEF SafeInv, TypeOK, Counted
<1>1. CASE LoopTest
  <2>1. /\ mpc = "loop" /\ mpc' \in {"stop", "poll"}
        /\ UNCHANGED <<lastHalfRead, start, currentData, currentChan, out,
                       thread_alive, polled>>
    BY <1>1 DEF LoopTest
  <2> QED
    BY <1>0, <2>1 DEF InColumns, Waiting, Passing, Stopping
<1>2. CASE PollBuffer
  <2>1. mpc = "poll" /\ polled' /\ UNCHANGED <<lastHalfRead, out, thread_alive>>
    BY <1>2 DEF PollBuffer
  <2>2. CASE FirstHalfReady
    <3>1. /\ mpc' = "write" /\ start' = 0 /\ currentData' = 0 /\ currentChan' = 0
      BY <1>2, <2>2 DEF PollBuffer
    <3>2. Len(out) = lap /\ currIndex = 3 * Quarter /\ lastHalfRead = "SECONDHALF"
      BY <1>0, <2>1, <2>2 DEF Waiting, FirstHalfReady
    <3>3. Len(out) % NumChannels = 0
      BY <1>0, <2>1 DEF InColumns
    <3> QED
      BY <1>0, <2>1, <3>1, <3>2, <3>3 DEF InColumns, Waiting, Passing, Stopping
  <2>3. CASE ~FirstHalfReady /\ SecondHalfReady
    <3>1. mpc' = "write" /\ start' = Half /\ currentData' = 0 /\ currentChan' = 0
      BY <1>2, <2>3 DEF PollBuffer
    <3>2. /\ Len(out) + Half = lap
          /\ currIndex \in {0, Quarter}
          /\ lastHalfRead = "FIRSTHALF"
      BY <1>0, <2>1, <2>3 DEF Waiting, SecondHalfReady
    <3>3. Len(out) % NumChannels = 0
      BY <1>0, <2>1 DEF InColumns
    <3> QED
      BY <1>0, <2>1, <3>1, <3>2, <3>3 DEF InColumns, Waiting, Passing, Stopping
  <2>4. CASE ~FirstHalfReady /\ ~SecondHalfReady
    <3>1. mpc' = "loop"
      BY <1>2, <2>4 DEF PollBuffer
    <3>2. /\ lastHalfRead = "SECONDHALF" => currIndex # 3 * Quarter
          /\ lastHalfRead = "FIRSTHALF" => currIndex \notin {0, Quarter}
      BY <1>0, <2>4 DEF FirstHalfReady, SecondHalfReady
    <3> QED
      BY <1>0, <2>1, <3>1, <3>2 DEF InColumns, Waiting, Passing, Stopping
  <2> QED
    BY <2>2, <2>3, <2>4
<1>3. CASE WriteSample
  <2>1. /\ Len(out') = Len(out) + 1
        /\ currentData' = currentData + 1
        /\ InColumns'
        /\ mpc' = "loop" => currentData' = Half
    BY <1>3, Writing
  <2>2. /\ mpc = "write" /\ mpc' \in {"write", "loop"}
        /\ UNCHANGED <<start, thread_alive, polled>>
        /\ mpc' = "write" => UNCHANGED lastHalfRead
        /\ mpc' = "loop" => lastHalfRead' = IF start = 0 THEN "FIRSTHALF"
                                                         ELSE "SECONDHALF"
    BY <1>3 DEF WriteSample
  <2>3. Passing'
    <3>1. CASE mpc' = "write" /\ start = 0
      <4>1. /\ lastHalfRead = "SECONDHALF"
            /\ \/ Len(out) = lap + currentData /\ currIndex = 3 * Quarter
               \/ Len(out) = lap + currentData /\ currIndex = 4 * Quarter /\ ~polled
               \/ /\ Len(out) + NumPoints = lap + currentData
                  /\ currIndex = 0 /\ got = 0 /\ ~polled
        BY <1>0, <2>2, <3>1 DEF Passing
      <4>2. /\ lastHalfRead' = "SECONDHALF"
            /\ start' = 0
            /\ \/ Len(out') = lap' + currentData' /\ currIndex' = 3 * Quarter
               \/ Len(out') = lap' + currentData' /\ currIndex' = 4 * Quarter /\ ~polled'
               \/ /\ Len(out') + NumPoints = lap' + currentData'
                  /\ currIndex' = 0 /\ got' = 0 /\ ~polled'
        BY SMTT(30), <1>0, <2>1, <2>2, <3>1, <4>1
      <4>3. start' # Half
        BY <4>2
      <4> QED
        BY <4>2, <4>3 DEF Passing
    <3>2. CASE mpc' = "write" /\ start = Half
      BY <1>0, <2>1, <2>2, <3>2 DEF Passing
    <3>3. CASE mpc' # "write"
      BY <3>3 DEF Passing
    <3> QED
      BY <1>0, <3>1, <3>2, <3>3
  <2>4. Waiting'
    <3>1. CASE mpc' = "write"
      BY <3>1 DEF Waiting
    <3>2. CASE mpc' = "loop" /\ start = 0
      <4>1. /\ lastHalfRead' = "FIRSTHALF"
            /\ currentData + 1 = Half
        BY <2>1, <2>2, <3>2
      <4>2. \/ /\ Len(out) = lap + currentData
               /\ currIndex \in {3 * Quarter, 4 * Quarter}
            \/ Len(out) + NumPoints = lap + currentData /\ currIndex = 0
        BY <2>2, <3>2, <1>0 DEF Passing
      <4>3. \/ /\ Len(out') = lap' + Half
               /\ currIndex' \in {3 * Quarter, 4 * Quarter}
            \/ Len(out') + Half = lap' /\ currIndex' = 0
        <5>1. /\ Len(out') = Len(out) + 1
              /\ Len(out) \in Nat /\ lap \in Nat /\ currentData \in Nat
              /\ lap' = lap /\ currIndex' = currIndex
          BY <1>0, <2>1
        <5>2. CASE /\ Len(out) = lap + currentData
                   /\ currIndex \in {3 * Quarter, 4 * Quarter}
          BY ONLY <4>1, <5>1, <5>2, Quarters
        <5>3. CASE Len(out) + NumPoints = lap + currentData /\ currIndex = 0
          BY ONLY <4>1, <5>1, <5>3, Quarters
        <5> QED
          BY <4>2, <5>2, <5>3
      <4>4. Quarter # 0
        OBVIOUS
      <4> QED
        BY ONLY <4>1, <4>3, <4>4 DEF Waiting
    <3>3. CASE mpc' = "loop" /\ start = Half
      BY <1>0, <2>1, <2>2, <3>3 DEF Passing, Waiting
    <3> QED
      BY <1>0, <2>2, <3>1, <3>2, <3>3
  <2> QED
    BY <2>1, <2>2, <2>3, <2>4 DEF Stopping
<1>4. CASE StopContinuousTransfer
  <2>1. /\ mpc = "stop" /\ mpc' = "join" /\ ~thread_alive'
        /\ UNCHANGED <<lastHalfRead, out>>
    BY <1>4 DEF StopContinuousTransfer
  <2> QED
    BY <1>0, <2>1 DEF InColumns, Waiting, Passing, Stopping
<1>5. CASE JoinThread
  <2>1. /\ mpc = "join" /\ mpc' \in {"exit", "crash"}
        /\ UNCHANGED <<lastHalfRead, out, thread_alive>>
    BY <1>5 DEF JoinThread
  <2> QED
    BY <1>0, <2>1 DEF InColumns, Waiting, Passing, Stopping
<1> QED
  BY <1>1, <1>2, <1>3, <1>4, <1>5 DEF Main

LEMMA NextStream == KeepsUp /\ StreamInv /\ [Next]_vars => StreamInv'
<1> SUFFICES ASSUME KeepsUp, StreamInv, [Next]_vars PROVE StreamInv'
  OBVIOUS
<1>0. SafeInv'
  BY NextSafe DEF StreamInv
<1>1. CASE Reader
  BY <1>0, <1>1, ReaderCounts, ReaderStores, ReaderWaits, ReaderColumns DEF StreamInv
<1>2. CASE Main
  BY <1>0, <1>2, MainRing, MainCounts, MainWaits DEF StreamInv
<1>3. CASE Interrupt
  <2>1. Counted' /\ Contents'
    BY <1>3, MainRing, MainCounts
  <2>2. UNCHANGED <<readerVars, mainVars, thread_alive, polled>>
    BY <1>3 DEF Interrupt
  <2> QED
    BY <1>0, <2>1, <2>2
    DEF StreamInv, InColumns, Waiting, Passing, Stopping, readerVars, mainVars
<1>4. CASE UNCHANGED vars
  <2>1. UNCHANGED <<readerVars, mainVars, thread_alive, polled, faulted>>
    BY <1>4 DEF vars, failVars
  <2>2. Counted' /\ Contents'
    BY <2>1, MainCounts
  <2> QED
    BY <1>0, <2>1, <2>2
    DEF StreamInv, InColumns, Waiting, Passing, Stopping, readerVars, mainVars
<1> QED
  BY <1>1, <1>2, <1>3, <1>4 DEF Next, Finished

\* A sample that arrives finds a cell whose sample has been written.
LEMMA RoomToStore ==
    KeepsUp /\ StreamInv /\ SampleArrives => sent < Len(out) + NumPoints
<1> SUFFICES ASSUME KeepsUp, SafeInv, Counted, InColumns, Waiting, Passing, Stopping,
                    SampleArrives
             PROVE  sent < Len(out) + NumPoints
  BY DEF StreamInv
<1> USE Quarters DEF SafeInv, TypeOK, Counted
<1>1. /\ Len(out) \in Nat
      /\ rpc = "transfer" /\ got < Quarter
      /\ mpc = "write" => polled
  BY DEF SampleArrives, PassKeepsUp, KeepsUp
<1>2. CASE mpc \in {"loop", "poll", "stop"}
  BY <1>1, <1>2 DEF Waiting
<1>3. CASE mpc = "write" /\ start = 0
  BY <1>1, <1>3 DEF Passing
<1>4. CASE mpc = "write" /\ start = Half
  BY <1>1, <1>4 DEF Passing
<1>5. CASE mpc \in {"join", "exit", "crash"}
  BY <1>1, <1>5 DEF Stopping
<1> QED
  BY <1>2, <1>3, <1>4, <1>5

\* Every step of the capture is a step of the stream or none.
LEMMA StepSimulates ==
    KeepsUp /\ StreamInv /\ [Next]_vars => [Stream!Next]_<<sent, out>>
<1> SUFFICES ASSUME KeepsUp, StreamInv, [Next]_vars
             PROVE  Stream!Next \/ UNCHANGED <<sent, out>>
  OBVIOUS
<1>1. CASE SampleArrives
  <2>1. sent' = sent + 1 /\ UNCHANGED out
    BY <1>1 DEF SampleArrives, mainVars
  <2> QED
    BY <1>1, <2>1, RoomToStore DEF Stream!Next, Stream!Store
<1>2. CASE WriteSample
  <2>1. UNCHANGED sent /\ mpc = "write"
    BY <1>2 DEF WriteSample, readerVars
  <2> QED
    BY <1>2, <2>1, ReadsNext, Writing DEF Stream!Next, Stream!Write
<1>3. CASE Reader /\ ~SampleArrives
  BY <1>3 DEF Reader, SubmitTransfer, TransferCompletes, TransferFallsShort,
              TransferRefused, AdvanceIndex, WrapIndex, CheckAlive, mainVars
<1>4. CASE Main /\ ~WriteSample
  BY <1>4 DEF Main, LoopTest, PollBuffer, StopContinuousTransfer, JoinThread, readerVars
<1>5. CASE Interrupt \/ UNCHANGED vars
  BY <1>5 DEF Interrupt, vars, readerVars, mainVars
<1> QED
  BY <1>1, <1>2, <1>3, <1>4, <1>5 DEF Next, Finished

\* The capture implements the stream, for every ring, every number of channels
\* that divides half of it and every interleaving of threads that keep their
\* schedule: no sample is lost, repeated, torn or dealt to another column.
THEOREM ImplementsTheStream ==
    ASSUME KeepsUp
    PROVE  SafetySpec => ImplementsStream
<1>1. SafetySpec => []StreamInv
  <2>1. Init => StreamInv
    BY InitStream, KeepsUp
  <2>2. StreamInv /\ [Next]_vars => StreamInv'
    BY NextStream, KeepsUp
  <2> QED
    BY <2>1, <2>2, PTL DEF SafetySpec
<1>2. Init => Stream!Init
  BY DEF Init, Stream!Init
<1>3. StreamInv /\ [Next]_vars => [Stream!Next]_<<sent, out>>
  BY StepSimulates, KeepsUp
<1> QED
  BY <1>1, <1>2, <1>3, PTL DEF SafetySpec, ImplementsStream, Stream!Spec

\* The index comes back to zero at every wrap while no transfer falls short.
THEOREM WrapsExactly ==
    ASSUME KeepsUp
    PROVE  SafetySpec => []WrapsToZero
<1>1. SafetySpec => []StreamInv
  <2>1. Init => StreamInv
    BY InitStream, KeepsUp
  <2>2. StreamInv /\ [Next]_vars => StreamInv'
    BY NextStream, KeepsUp
  <2> QED
    BY <2>1, <2>2, PTL DEF SafetySpec
<1>2. StreamInv => WrapsToZero
  BY Quarters DEF StreamInv, SafeInv, TypeOK, Counted, WrapsToZero
<1> QED
  BY <1>1, <1>2, PTL
=============================================================================
