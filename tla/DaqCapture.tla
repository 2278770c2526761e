----------------------------- MODULE DaqCapture -----------------------------
(***************************************************************************)
(* The continuous capture of daqflex (mc1208fs-plus): a reader thread      *)
(* (poll_thread.c, read_usb) stores the samples of bulk USB transfers in a *)
(* ring of NumPoints cells; the main thread (daqflex.c, the loop of main)  *)
(* polls the ring index without a lock and writes each half of the ring to *)
(* the output once the index has moved on to the other half; ^C ends both. *)
(*                                                                         *)
(* A sample is the number of its place in the stream the device produces   *)
(* (1, 2, 3, ...); 0 is a cell calloc cleared and nothing has been stored. *)
(***************************************************************************)
EXTENDS Integers, Sequences

CONSTANTS
    NumPoints,      \* buffer.numPoints: the samples one lap of the ring holds
    NumChannels,    \* num_channels: the samples of one output line
    MaxSamples,     \* bound: the samples the device sends before it is stopped
    MaxFailures,    \* bound: the transfers that fall short or are refused
    Timely,         \* TRUE: the polling thread keeps its schedule (see Polled)
    Faults          \* what may go wrong: members of FaultKinds

\* "short": a transfer that returns with part of the data, on a timeout or a
\* short packet; "submit": one that libusb refuses to start, which leaves the
\* caller's count as it was; "create": pthread_create fails.
FaultKinds == {"short", "submit", "create"}

ASSUME NumPointsAssumption ==
    /\ NumPoints \in Nat \ {0}
    /\ NumPoints % 4 = 0

ASSUME NumChannelsAssumption == NumChannels \in 1 .. (NumPoints \div 2)

ASSUME BoundsAssumption ==
    /\ MaxSamples \in Nat
    /\ MaxFailures \in Nat
    /\ Timely \in BOOLEAN
    /\ Faults \subseteq FaultKinds

VARIABLES
    rpc,            \* where the reader thread is
    currIndex,      \* buffer.currIndex
    transferred,    \* read_usb's local count of the last transfer, in bytes
    data,           \* buffer.data
    thread_alive,
    mpc,            \* where the main thread is
    lastHalfRead,
    start,          \* the cell the pass in progress started from
    currentData,    \* displayAndWriteData's count of samples in this pass
    currentChan,
    out,            \* the samples written, each with the column it went to
    done,           \* set by the SIGINT handler
    got,            \* samples of the transfer in flight that are in the ring
    sent,           \* samples the device has delivered
    lap,            \* history: cells the index passed in earlier laps
    polled,         \* history: main has polled since the index last advanced
    failures,       \* history: how many transfers fell short or were refused
    faulted         \* history: the members of Faults that have happened

readerVars == <<rpc, currIndex, transferred, data, got, sent, lap>>
mainVars == <<mpc, lastHalfRead, start, currentData, currentChan, out>>
failVars == <<failures, faulted>>
vars == <<readerVars, mainVars, thread_alive, done, polled, failVars>>

-----------------------------------------------------------------------------

\* startContinuousTransfer is given numPoints/2 as samps and read_usb passes
\* it to libusb as a length in BYTES: a transfer asks for a quarter of the ring.
Quarter == NumPoints \div 4
Half == NumPoints \div 2

\* Mutant: the ring is allocated without the second 2 ("and then double buffer").
AllocatedOnce == NumPoints

\* buffer_size bytes of calloc are 2 * NumPoints samples of two bytes.
Allocated == 2 * NumPoints
Cells == 0 .. Allocated - 1

Init ==
    /\ \/ rpc = "sleep" /\ faulted = {}
       \/ rpc = "none" /\ faulted = {"create"} /\ "create" \in Faults
    /\ currIndex = 0
    /\ transferred = 0
    /\ data = [c \in Cells |-> 0]
    /\ thread_alive = TRUE
    /\ mpc = "loop"
    /\ lastHalfRead = "SECONDHALF"
    /\ start = 0
    /\ currentData = 0
    /\ currentChan = 0
    /\ out = <<>>
    /\ done = FALSE
    /\ got = 0
    /\ sent = 0
    /\ lap = 0
    /\ polled = FALSE
    /\ failures = 0

-----------------------------------------------------------------------------
(* The schedule. Both threads sleep delay microseconds a turn, and delay is *)
(* at most two fifths of the time a quarter of the ring takes to fill       *)
(* (module DaqGeometry). A machine that keeps to that                       *)
(*   - polls at least once between two advances of the index, and           *)
(*   - ends a pass before the data of the next transfer arrives.            *)
(* The second is needed of both halves: a poll between lines 46 and 65 of   *)
(* poll_thread.c sees an index of NumPoints, which is no half, so that the  *)
(* pass over the second half may begin a quarter of the ring late.          *)
(* Nothing enforces either: with Timely = FALSE the threads run at any speed.   *)

Polled == ~Timely \/ polled \/ mpc \in {"join", "exit", "crash"}

PassKeepsUp == ~Timely \/ mpc # "write" \/ polled

-----------------------------------------------------------------------------
(* The reader thread: read_usb.                                            *)

\* usleep(args->delay), then libusb_bulk_transfer is called.
SubmitTransfer ==
    /\ rpc = "sleep"
    /\ rpc' = "transfer"
    /\ got' = 0
    /\ UNCHANGED <<currIndex, transferred, data, sent, lap, mainVars,
                   thread_alive, done, polled, failVars>>

\* The device's next sample lands behind those of this transfer. The device
\* scans until the reader has been joined.
SampleArrives ==
    /\ rpc = "transfer"
    /\ got < Quarter
    /\ sent < MaxSamples \/ ~thread_alive
    /\ PassKeepsUp
    /\ data' = [data EXCEPT ![currIndex + got] = sent + 1]
    /\ got' = got + 1
    /\ sent' = sent + 1
    /\ UNCHANGED <<rpc, currIndex, transferred, lap, mainVars, thread_alive,
                   done, polled, failVars>>

TransferCompletes ==
    /\ rpc = "transfer"
    /\ got = Quarter
    /\ transferred' = 2 * got
    /\ rpc' = "advance"
    /\ UNCHANGED <<currIndex, data, got, sent, lap, mainVars, thread_alive,
                   done, polled, failVars>>

\* A timeout with data is no error to read_usb (err = 0), and any other error
\* is only reported: in both cases the count is used.
TransferFallsShort ==
    /\ "short" \in Faults
    /\ rpc = "transfer"
    /\ got < Quarter
    /\ transferred' = 2 * got
    /\ rpc' = "advance"
    /\ failures < MaxFailures
    /\ failures' = failures + 1
    /\ faulted' = faulted \union {"short"}
    /\ UNCHANGED <<currIndex, data, got, sent, lap, mainVars, thread_alive,
                   done, polled>>

\* libusb writes the count only of a transfer it has submitted: the count of
\* the transfer before is still in transferred and is used again.
TransferRefused ==
    /\ "submit" \in Faults
    /\ rpc = "transfer"
    /\ got = 0
    /\ rpc' = "advance"
    /\ failures < MaxFailures
    /\ failures' = failures + 1
    /\ faulted' = faulted \union {"submit"}
    /\ UNCHANGED <<currIndex, transferred, data, got, sent, lap, mainVars,
                   thread_alive, done, polled>>

\* args->buffer->currIndex += (transferred/2)
AdvanceIndex ==
    /\ rpc = "advance"
    /\ Polled
    /\ currIndex' = currIndex + transferred \div 2
    /\ got' = 0
    /\ rpc' = "wrap"
    /\ polled' = FALSE
    /\ UNCHANGED <<transferred, data, sent, lap, mainVars, thread_alive, done,
                   failVars>>

\* Mutants: the wrap tested with > for >=; the index set to zero, which is the
\* same unless a transfer was short.
WrapOffByOne ==
    /\ rpc = "wrap"
    /\ IF currIndex > NumPoints
         THEN currIndex' = currIndex - NumPoints /\ lap' = lap + NumPoints
         ELSE UNCHANGED <<currIndex, lap>>
    /\ rpc' = "check"
    /\ UNCHANGED <<transferred, data, got, sent, mainVars, thread_alive, done,
                   polled, failVars>>

WrapToZero ==
    /\ rpc = "wrap"
    /\ IF currIndex >= NumPoints
         THEN currIndex' = 0 /\ lap' = lap + NumPoints
         ELSE UNCHANGED <<currIndex, lap>>
    /\ rpc' = "check"
    /\ UNCHANGED <<transferred, data, got, sent, mainVars, thread_alive, done,
                   polled, failVars>>

\* Until this step the main thread may see an index of NumPoints or more.
WrapIndex ==
    /\ rpc = "wrap"
    /\ IF currIndex >= NumPoints
         THEN currIndex' = currIndex - NumPoints /\ lap' = lap + NumPoints
         ELSE UNCHANGED <<currIndex, lap>>
    /\ rpc' = "check"
    /\ UNCHANGED <<transferred, data, got, sent, mainVars, thread_alive, done,
                   polled, failVars>>

\* if (!thread_alive) break
CheckAlive ==
    /\ rpc = "check"
    /\ rpc' = IF thread_alive THEN "sleep" ELSE "done"
    /\ UNCHANGED <<currIndex, transferred, data, got, sent, lap, mainVars,
                   thread_alive, done, polled, failVars>>

Reader ==
    \/ SubmitTransfer \/ SampleArrives \/ TransferCompletes
    \/ TransferFallsShort \/ TransferRefused
    \/ AdvanceIndex \/ WrapIndex \/ CheckAlive

-----------------------------------------------------------------------------
(* The main thread: the loop of main, displayAndWriteData and              *)
(* stopContinuousTransfer.                                                 *)

\* while(!done) usleep(delay)
LoopTest ==
    /\ mpc = "loop"
    /\ mpc' = IF done THEN "stop" ELSE "poll"
    /\ UNCHANGED <<lastHalfRead, start, currentData, currentChan, out,
                   readerVars, thread_alive, done, polled, failVars>>

\* Mutants: a half that is written at every poll; one that waits for a full ring.
FirstHalfAgain == currIndex > Half
FirstHalfWhenFull == currIndex >= NumPoints /\ lastHalfRead = "SECONDHALF"

\* The half that the index says is complete and that has not been written.
FirstHalfReady == currIndex > Half /\ lastHalfRead = "SECONDHALF"
SecondHalfReady == currIndex < Half /\ lastHalfRead = "FIRSTHALF"

PollBuffer ==
    /\ mpc = "poll"
    /\ polled' = TRUE
    /\ IF FirstHalfReady \/ SecondHalfReady
         THEN /\ mpc' = "write"
              /\ start' = IF FirstHalfReady THEN 0 ELSE Half
              /\ currentData' = 0
              /\ currentChan' = 0
         ELSE /\ mpc' = "loop"
              /\ UNCHANGED <<start, currentData, currentChan>>
    /\ UNCHANGED <<lastHalfRead, out, readerVars, thread_alive, done, failVars>>

\* Mutant: ^C is looked at within a line.
EndOfPassAtHalf == currentData + 1 >= Half \/ done

\* displayAndWriteData tests the end of the half only between lines: a line
\* begun inside the half is completed with what follows.
EndOfPass == currentData + 1 >= Half /\ currentChan + 1 = NumChannels

\* One turn of the inner loop of displayAndWriteData; the last one of a pass
\* also returns and sets lastHalfRead.
WriteSample ==
    /\ mpc = "write"
    /\ out' = Append(out, [chan |-> currentChan,
                           sample |-> data[start + currentData]])
    /\ currentData' = currentData + 1
    /\ currentChan' = IF currentChan + 1 = NumChannels THEN 0
                                                       ELSE currentChan + 1
    /\ IF EndOfPass
         THEN /\ mpc' = "loop"
              /\ lastHalfRead' = IF start = 0 THEN "FIRSTHALF" ELSE "SECONDHALF"
         ELSE UNCHANGED <<mpc, lastHalfRead>>
    /\ UNCHANGED <<start, readerVars, thread_alive, done, polled, failVars>>

\* Mutant: the reader has to have ended before thread_alive is cleared.
StopAfterReader ==
    /\ mpc = "stop"
    /\ rpc = "done"
    /\ thread_alive' = FALSE
    /\ mpc' = "join"
    /\ UNCHANGED <<lastHalfRead, start, currentData, currentChan, out,
                   readerVars, done, polled, failVars>>

\* stopContinuousTransfer: thread_alive = 0 ...
StopContinuousTransfer ==
    /\ mpc = "stop"
    /\ thread_alive' = FALSE
    /\ mpc' = "join"
    /\ UNCHANGED <<lastHalfRead, start, currentData, currentChan, out,
                   readerVars, done, polled, failVars>>

\* ... and pthread_join(our_thread). The result of pthread_create was not
\* looked at: a join on a thread that never was returns or crashes.
JoinThread ==
    /\ mpc = "join"
    /\ \/ rpc = "done" /\ mpc' = "exit"
       \/ rpc = "none" /\ mpc' \in {"exit", "crash"}
    /\ UNCHANGED <<lastHalfRead, start, currentData, currentChan, out,
                   readerVars, thread_alive, done, polled, failVars>>

Main ==
    LoopTest \/ PollBuffer \/ WriteSample \/ StopContinuousTransfer \/ JoinThread

\* ctrlc_handler, in whichever thread the signal is delivered to.
Interrupt ==
    /\ ~done
    /\ mpc \notin {"exit", "crash"}
    /\ done' = TRUE
    /\ UNCHANGED <<readerVars, mainVars, thread_alive, polled, failVars>>

Finished ==
    /\ mpc \in {"exit", "crash"}
    /\ UNCHANGED vars

Next == Reader \/ Main \/ Interrupt \/ Finished

SafetySpec == Init /\ [][Next]_vars

\* Each thread is scheduled for ever and the device keeps scanning. A signal,
\* a short transfer and a refused one are owed to nobody.
Fairness ==
    /\ WF_vars(Main)
    /\ WF_vars(SubmitTransfer \/ SampleArrives \/ TransferCompletes
               \/ AdvanceIndex \/ WrapIndex \/ CheckAlive)

Spec == SafetySpec /\ Fairness

-----------------------------------------------------------------------------
(* Properties.                                                             *)

\* Every variable keeps its type, whatever fails and however slow a thread is.
TypeOK ==
    /\ rpc \in {"none", "sleep", "transfer", "advance", "wrap", "check", "done"}
    /\ currIndex \in 0 .. NumPoints + Quarter - 1
    /\ transferred \in 0 .. 2 * Quarter
    /\ data \in [Cells -> Nat]
    /\ thread_alive \in BOOLEAN
    /\ mpc \in {"loop", "poll", "write", "stop", "join", "exit", "crash"}
    /\ lastHalfRead \in {"FIRSTHALF", "SECONDHALF"}
    /\ start \in {0, Half}
    /\ currentData \in 0 .. Half + NumChannels
    /\ currentChan \in 0 .. NumChannels - 1
    /\ out \in Seq([chan : 0 .. NumChannels - 1, sample : Nat])
    /\ done \in BOOLEAN
    /\ got \in 0 .. Quarter
    /\ sent \in Nat
    /\ lap \in Nat
    /\ polled \in BOOLEAN
    /\ failures \in 0 .. MaxFailures
    /\ faulted \subseteq FaultKinds

\* Neither thread leaves the block calloc returned, after any sequence of full,
\* short and refused transfers: not the transfer in flight, which starts where
\* the index is (poll_thread.c:42), nor the pass of displayAndWriteData, which
\* runs over the end of its half to complete a line (daqflex.c:89-90).
InBounds ==
    /\ rpc = "transfer" => currIndex + Quarter <= Allocated
    /\ mpc = "write" => start + currentData < Allocated

\* The index comes back to zero whenever it is wrapped, so that the halves main
\* reads are the halves the transfers fill; read_usb prints "Wrapping error!"
\* when it does not (poll_thread.c:67-69).
WrapsToZero == rpc = "wrap" /\ currIndex >= NumPoints => currIndex = NumPoints

\* A pass takes half the ring and no more (daqflex.c:398: "Only half the buffer
\* is read at a time to avoid collisions").
HalfAtATime == mpc = "write" => currentData < Half

\* Whatever is lost, repeated or read while it is being replaced when a thread
\* is late or a transfer short, a column of the output holds samples of its own
\* channel: the device sends the channels in turn, so a sample's number tells
\* the channel. Only a refused transfer may shift the columns, and a number of
\* channels that half the ring is no multiple of.
ColumnsKeepTheirChannel ==
    Half % NumChannels = 0 /\ "submit" \notin faulted =>
        \A i \in 1 .. Len(out) :
            out[i].sample > 0 => out[i].chan = (out[i].sample - 1) % NumChannels

\* ^C never tears a line: outside displayAndWriteData the output is whole lines,
\* each with its columns in order.
WholeLines ==
    /\ mpc # "write" => Len(out) % NumChannels = 0
    /\ \A i \in 1 .. Len(out) : out[i].chan = (i - 1) % NumChannels

\* ^C ends the program: the loop sees done, the reader sees thread_alive after
\* the transfer it is in, and the join returns.
Stops == done ~> mpc \in {"exit", "crash"}

\* The output follows the device: a sample with three quarters of the ring
\* stored after it reaches the output unless ^C comes first.
Drains ==
    \A n \in 0 .. MaxSamples :
        sent >= n + 3 * Quarter ~> (done \/ Len(out) > n)

\* The capture is a bounded first-in first-out stream: see DaqStream. No sample
\* is stored over one that is still to be written, and none is written before
\* it is stored, twice, out of order or in another column.
Stream == INSTANCE DaqStream WITH
    Capacity <- NumPoints, Columns <- NumChannels, stored <- sent, written <- out

ImplementsStream == Stream!Spec
=============================================================================
