-------------------------- MODULE DaqColumnsProofs --------------------------
(***************************************************************************)
(* Theorems about the columns of the output of DaqCapture, at any speed of *)
(* the threads and with transfers that fall short.                         *)
(***************************************************************************)
EXTENDS DaqCaptureProofs

\* What the last cell of an extended output holds, and the cells before it.
LEMMA Appended ==
    ASSUME NEW S, NEW s \in Seq(S), NEW e \in S
    PROVE  /\ Len(Append(s, e)) = Len(s) + 1
           /\ Append(s, e)[Len(s) + 1] = e
           /\ \A i \in 1 .. Len(s) : Append(s, e)[i] = s[i]
  OBVIOUS

\* The step that writes a sample, as the columns see it.
LEMMA WrittenSample ==
    ASSUME SafeInv, WriteSample
    PROVE  /\ Len(out') = Len(out) + 1
           /\ out'[Len(out) + 1] = [chan |-> currentChan,
                                    sample |-> data[start + currentData]]
           /\ \A i \in 1 .. Len(out) : out'[i] = out[i]
           /\ data[start + currentData] \in Nat
<1> DEFINE e == [chan |-> currentChan, sample |-> data[start + currentData]]
           R == [chan : 0 .. NumChannels - 1, sample : Nat]
<1>1. start + currentData \in Cells
  BY Quarters DEF WriteSample, SafeInv, TypeOK, Confined, Cells
<1>2. data[start + currentData] \in Nat
  BY <1>1 DEF SafeInv, TypeOK
<1>3. e \in R /\ out \in Seq(R) /\ out' = Append(out, e)
  BY <1>2 DEF WriteSample, SafeInv, TypeOK
<1> HIDE DEF e, R
<1>4. /\ Len(out') = Len(out) + 1
      /\ out'[Len(out) + 1] = e
      /\ \A i \in 1 .. Len(out) : out'[i] = out[i]
  BY <1>3, Appended
<1> QED
  BY <1>2, <1>4 DEF e

-----------------------------------------------------------------------------
\* Inside a pass the output ends in the column of the sample before.
Lined ==
    /\ Len(out) % NumChannels = IF mpc = "write" THEN currentChan ELSE 0
    /\ \A i \in 1 .. Len(out) : out[i].chan = (i - 1) % NumChannels

\* ^C at any moment, and any loss of samples, leaves whole lines.
THEOREM LinesAreWhole == SafetySpec => []WholeLines
<1>1. Init => Lined
  BY Quarters DEF Init, Lined
<1>2. Lined /\ SafeInv /\ [Next]_vars => Lined'
  <2> SUFFICES ASSUME Lined, SafeInv, [Next]_vars PROVE Lined'
    OBVIOUS
  <2>1. CASE Reader \/ Interrupt
    <3>1. UNCHANGED mainVars
      BY <2>1 DEF Reader, Interrupt, SubmitTransfer, SampleArrives,
                  TransferCompletes, TransferFallsShort, TransferRefused,
                  AdvanceIndex, WrapIndex, CheckAlive
    <3> QED BY <3>1 DEF Lined, mainVars
  <2>2. CASE LoopTest \/ StopContinuousTransfer \/ JoinThread
    BY <2>2 DEF LoopTest, StopContinuousTransfer, JoinThread, Lined
  <2>3. CASE PollBuffer
    BY <2>3 DEF PollBuffer, Lined
  <2>4. CASE WriteSample
    <3>1. /\ Len(out') = Len(out) + 1
          /\ out'[Len(out) + 1].chan = currentChan
          /\ \A i \in 1 .. Len(out) : out'[i] = out[i]
      BY <2>4, WrittenSample
    <3>2. Len(out) \in Nat /\ mpc = "write"
      BY <2>4 DEF SafeInv, TypeOK, WriteSample
    <3>3. Len(out) % NumChannels = currentChan
      BY <3>2 DEF Lined
    <3>4. Len(out') % NumChannels = currentChan'
      BY <3>1, <3>2, <3>3, <2>4, NextColumn DEF WriteSample
    <3>5. mpc' # "write" => currentChan' = 0
      BY <2>4 DEF WriteSample, EndOfPass
    <3>6. \A i \in 1 .. Len(out') : out'[i].chan = (i - 1) % NumChannels
      BY <3>1, <3>2, <3>3 DEF Lined
    <3> QED BY <3>4, <3>5, <3>6 DEF Lined
  <2>5. CASE UNCHANGED vars
    BY <2>5 DEF vars, mainVars, Lined
  <2> QED
    BY <2>1, <2>2, <2>3, <2>4, <2>5 DEF Next, Main, Finished
<1>3. Lined => WholeLines
  BY DEF Lined, WholeLines
<1> QED
  BY <1>1, <1>2, <1>3, InitSafe, NextSafe, PTL DEF SafetySpec

-----------------------------------------------------------------------------
(* A sample keeps to the column of its channel: the cell it is stored in   *)
(* and its number agree modulo the channels, through short transfers and   *)
(* wraps, because a lap is a whole number of lines.                        *)

\* Adding or taking away lines does not change the column.
LEMMA HalfKeepsColumn ==
    ASSUME Half % NumChannels = 0, NEW x \in Nat
    PROVE  (x + Half) % NumChannels = x % NumChannels
<1> DEFINE q == x \div NumChannels
           r == x % NumChannels
           h == Half \div NumChannels
<1>1. x = NumChannels * q + r /\ r \in 0 .. NumChannels - 1 /\ q \in Nat
  BY Division
<1>2. Half \in Nat
  BY Quarters
<1>3. Half = NumChannels * h /\ h \in Nat
  BY <1>2, Division, Quarters
<1> HIDE DEF q, r, h
<1>4. x + Half = NumChannels * (q + h) + r
  BY <1>1, <1>3, Quarters
<1>5. (x + Half) % NumChannels = r
  BY <1>1, <1>2, <1>3, <1>4, Remainder
<1> QED BY <1>5 DEF r

LEMMA LapKeepsColumn ==
    ASSUME Half % NumChannels = 0, NEW x \in Nat
    PROVE  (x + NumPoints) % NumChannels = x % NumChannels
<1>1. x + Half \in Nat /\ x + NumPoints = (x + Half) + Half
  BY Quarters
<1> QED BY <1>1, HalfKeepsColumn

\* Numbers in the same column have successors in the same column.
LEMMA Successors ==
    ASSUME NEW x \in Nat, NEW y \in Nat, x % NumChannels = y % NumChannels
    PROVE  (x + 1) % NumChannels = (y + 1) % NumChannels
  BY NextColumn

Aligned ==
    /\ rpc = "advance" => transferred = 2 * got
    /\ rpc \notin {"transfer", "advance"} => got = 0
    /\ sent % NumChannels = (currIndex + got) % NumChannels
    /\ \A c \in Cells : data[c] > 0 => (data[c] - 1) % NumChannels = c % NumChannels

Dealt ==
    /\ mpc = "write" => currentData % NumChannels = currentChan
    /\ \A i \in 1 .. Len(out) :
          out[i].sample > 0 => out[i].chan = (out[i].sample - 1) % NumChannels

ColumnInv == "submit" \notin faulted => Aligned /\ Dealt

LEMMA ReaderAligns ==
    ASSUME Half % NumChannels = 0, SafeInv, Aligned, Reader, ~TransferRefused
    PROVE  Aligned'
<1>0. /\ got \in Nat /\ sent \in Nat /\ currIndex \in Nat /\ transferred \in Nat
      /\ data \in [Cells -> Nat]
  BY Quarters DEF SafeInv, TypeOK
<1>1. CASE SubmitTransfer
  BY <1>0, <1>1 DEF SubmitTransfer, Aligned
<1>2. CASE SampleArrives
  <2> DEFINE k == currIndex + got
  <2>1. /\ k \in Cells /\ k \in Nat
        /\ data' = [data EXCEPT ![k] = sent + 1]
        /\ got' = got + 1 /\ sent' = sent + 1
        /\ rpc' = "transfer" /\ currIndex' = currIndex
    BY <1>0, <1>2, Quarters DEF SampleArrives, SafeInv, TypeOK, Confined, Cells
  <2>2. sent' % NumChannels = (currIndex' + got') % NumChannels
    <3>1. (sent + 1) % NumChannels = (k + 1) % NumChannels
      BY <1>0, <2>1, Successors DEF Aligned
    <3>2. currIndex' + got' = k + 1
      BY <1>0, <2>1
    <3> QED BY <2>1, <3>1, <3>2
  <2> HIDE DEF k
  <2>3. ASSUME NEW c \in Cells, data'[c] > 0
        PROVE  (data'[c] - 1) % NumChannels = c % NumChannels
    <3>1. CASE c = k
      <4>1. data'[c] = sent + 1
        BY <1>0, <2>1, <3>1
      <4>2. sent % NumChannels = k % NumChannels
        BY DEF Aligned, k
      <4>3. data'[c] - 1 = sent
        BY <1>0, <4>1
      <4> QED BY <3>1, <4>2, <4>3
    <3>2. CASE c # k
      <4>1. data'[c] = data[c]
        BY <1>0, <2>1, <3>2
      <4> QED BY <2>3, <4>1 DEF Aligned
    <3> QED BY <3>1, <3>2
  <2> QED BY <2>1, <2>2, <2>3 DEF Aligned
<1>3. CASE TransferCompletes
  BY <1>3 DEF TransferCompletes, Aligned
<1>4. CASE TransferFallsShort
  BY <1>4 DEF TransferFallsShort, Aligned
<1>5. CASE AdvanceIndex
  <2>1. currIndex' + got' = currIndex + got
    BY <1>0, <1>5 DEF AdvanceIndex, Aligned
  <2> QED BY <1>5, <2>1 DEF AdvanceIndex, Aligned
<1>6. CASE WrapIndex
  <2>1. got = 0 /\ got' = 0 /\ rpc' = "check" /\ UNCHANGED <<sent, data>>
    BY <1>6 DEF WrapIndex, Aligned
  <2>2. CASE currIndex >= NumPoints
    <3> DEFINE k == currIndex' + got'
    <3>1. currIndex' = currIndex - NumPoints
      BY <1>6, <2>2 DEF WrapIndex
    <3>2. k \in Nat /\ currIndex + got = k + NumPoints
      BY <1>0, <2>1, <2>2, <3>1, Quarters
    <3> HIDE DEF k
    <3>3. (currIndex + got) % NumChannels = k % NumChannels
      BY <3>2, LapKeepsColumn
    <3> QED BY <2>1, <3>3 DEF Aligned, k
  <2>3. CASE ~(currIndex >= NumPoints)
    BY <1>6, <2>1, <2>3 DEF WrapIndex, Aligned
  <2> QED BY <2>2, <2>3
<1>7. CASE CheckAlive
  BY <1>7 DEF CheckAlive, Aligned
<1> QED
  BY <1>1, <1>2, <1>3, <1>4, <1>5, <1>6, <1>7 DEF Reader

LEMMA MainDeals ==
    ASSUME Half % NumChannels = 0, SafeInv, Aligned, Dealt, Main
    PROVE  Dealt'
<1>1. CASE LoopTest \/ StopContinuousTransfer \/ JoinThread
  BY <1>1 DEF LoopTest, StopContinuousTransfer, JoinThread, Dealt
<1>2. CASE PollBuffer
  <2>1. 0 % NumChannels = 0
    BY Quarters
  <2> QED BY <1>2, <2>1 DEF PollBuffer, Dealt
<1>3. CASE WriteSample
  <2>1. /\ Len(out') = Len(out) + 1
        /\ out'[Len(out) + 1] = [chan |-> currentChan,
                                 sample |-> data[start + currentData]]
        /\ \A i \in 1 .. Len(out) : out'[i] = out[i]
    BY <1>3, WrittenSample
  <2>2. Len(out) \in Nat /\ currentData \in Nat /\ start \in {0, Half} /\ Half \in Nat
    BY Quarters DEF SafeInv, TypeOK
  <2>3. currentData % NumChannels = currentChan
    BY <1>3 DEF WriteSample, Dealt
  <2>4. (start + currentData) % NumChannels = currentChan
    <3>1. CASE start = 0
      BY <2>2, <2>3, <3>1
    <3>2. CASE start = Half
      <4>1. start + currentData = currentData + Half
        BY <2>2, <3>2
      <4> QED BY <2>2, <2>3, <4>1, HalfKeepsColumn
    <3> QED BY <2>2, <3>1, <3>2
  <2>5. start + currentData \in Cells
    BY <1>3, Quarters DEF WriteSample, SafeInv, TypeOK, Confined, Cells
  <2>6. data[start + currentData] > 0
           => (data[start + currentData] - 1) % NumChannels = currentChan
    BY <2>4, <2>5 DEF Aligned
  <2>7. \A i \in 1 .. Len(out') :
            out'[i].sample > 0 => out'[i].chan = (out'[i].sample - 1) % NumChannels
    BY <2>1, <2>2, <2>6 DEF Dealt
  <2>8. currentData' % NumChannels = currentChan'
    BY <1>3, <2>2, <2>3, NextColumn DEF WriteSample
  <2> QED BY <2>7, <2>8 DEF Dealt
<1> QED BY <1>1, <1>2, <1>3 DEF Main

\* Late threads and short transfers lose and repeat samples, but never move one
\* to another column; the property excepts a refused transfer and a number of
\* channels that half the ring is no multiple of.
THEOREM ColumnsAreKept == SafetySpec => []ColumnsKeepTheirChannel
<1> SUFFICES ASSUME Half % NumChannels = 0
             PROVE  SafetySpec => []ColumnsKeepTheirChannel
  <2>1. CASE Half % NumChannels = 0
    BY <2>1
  <2>2. CASE Half % NumChannels # 0
    <3>1. ColumnsKeepTheirChannel
      BY <2>2 DEF ColumnsKeepTheirChannel
    <3> QED BY <3>1, PTL
  <2> QED BY <2>1, <2>2
<1>1. Init => ColumnInv
  <2> SUFFICES ASSUME Init PROVE Aligned /\ Dealt
    BY DEF ColumnInv
  <2>1. \A c \in Cells : data[c] = 0
    BY DEF Init
  <2>2. Len(out) = 0 /\ rpc \in {"none", "sleep"} /\ mpc = "loop"
        /\ sent = 0 /\ currIndex = 0 /\ got = 0
    BY DEF Init
  <2> QED BY <2>1, <2>2 DEF Aligned, Dealt
<1>2. ColumnInv /\ SafeInv /\ [Next]_vars => ColumnInv'
  <2> SUFFICES ASSUME ColumnInv, SafeInv, [Next]_vars, "submit" \notin faulted'
               PROVE  Aligned' /\ Dealt'
    BY DEF ColumnInv
  <2>1. CASE Reader
    <3>1. UNCHANGED mainVars /\ ~TransferRefused /\ "submit" \notin faulted
      BY <2>1 DEF Reader, SubmitTransfer, SampleArrives, TransferCompletes,
                  TransferFallsShort, TransferRefused, AdvanceIndex, WrapIndex,
                  CheckAlive, failVars
    <3>2. Aligned /\ Dealt
      BY <3>1 DEF ColumnInv
    <3>3. Dealt'
      BY <3>1, <3>2 DEF Dealt, mainVars
    <3> QED BY <2>1, <3>1, <3>2, <3>3, ReaderAligns
  <2>2. CASE Main \/ Interrupt
    <3>1. UNCHANGED readerVars /\ "submit" \notin faulted
      BY <2>2, MainRing
    <3>2. Aligned /\ Dealt
      BY <3>1 DEF ColumnInv
    <3>3. Aligned'
      BY <3>1, <3>2 DEF Aligned, readerVars
    <3>4. CASE Main
      BY <3>2, <3>3, <3>4, MainDeals
    <3>5. CASE Interrupt
      BY <3>2, <3>3, <3>5 DEF Interrupt, Dealt, mainVars
    <3> QED BY <2>2, <3>4, <3>5
  <2>3. CASE UNCHANGED vars
    BY <2>3 DEF vars, readerVars, mainVars, failVars, ColumnInv, Aligned, Dealt
  <2> QED BY <2>1, <2>2, <2>3 DEF Next, Finished
<1>3. ColumnInv => ColumnsKeepTheirChannel
  BY DEF ColumnInv, Dealt, ColumnsKeepTheirChannel
<1> QED
  BY <1>1, <1>2, <1>3, InitSafe, NextSafe, PTL DEF SafetySpec
=============================================================================
