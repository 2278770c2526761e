------------------------------ MODULE DaqSetup ------------------------------
(***************************************************************************)
(* What daqflex does before and after it captures: the sizes, the output   *)
(* file, the search for the device, the flush of what an earlier run left  *)
(* in it, the messages that configure, calibrate and start the scan, and   *)
(* those that stop it (daqflex.c, main and fillCalConstants; mccdevice.c). *)
(*                                                                         *)
(* The device is external: it takes a message and answers it, samples into *)
(* a queue of packets while it scans, and may be scanning already, for a   *)
(* run that crashed.                                                       *)
(***************************************************************************)
EXTENDS DaqGeometry, Sequences

CONSTANTS
    Requests,       \* the command lines: records [channels, rate, mode]
    NumDevices,     \* devices on the bus
    QueueSize,      \* bound: packets of samples the device can hold
    MaxLost,        \* bound: messages that are lost
    Faults          \* what may go wrong: members of FaultKinds

\* "message": a request or its answer is lost; "descriptor": the configuration
\* descriptor cannot be read; "flush": a transfer of the flush fails; "scanning":
\* the device is still scanning.
FaultKinds == {"message", "descriptor", "flush", "scanning"}

ASSUME RequestsAssumption ==
    Requests \subseteq [channels : Nat, rate : Int, mode : {"SE", "DIFF"}]

ASSUME LimitsAssumption ==
    /\ NumDevices \in Nat
    /\ QueueSize \in Nat \ {0}
    /\ MaxLost \in Nat
    /\ Faults \subseteq FaultKinds

\* A device on the bus: not the one, cannot be opened, cannot be claimed, good.
DeviceKinds == {"other", "denied", "busy", "good"}

VARIABLES
    pc,             \* where main is
    request,        \* the command line
    bus,            \* the devices, in the order libusb lists them
    i,              \* the loop counter of MCCDevice_init
    opened,         \* the devices that have been opened and not closed
    dev_handle,     \* dev->dev_handle: a device, or 0
    endpoint_in,    \* "known", or "garbage" off the stack
    next,           \* the message of Messages to send next
    response,       \* what fillCalConstants' buffer holds
    cal,            \* calSlope and calOffset: what each was converted from
    range,          \* minVoltage and maxVoltage: the range they stand for
    device,         \* the device: its settings and whether it is scanning
    queue,          \* the packets of an earlier scan the device holds
    lost            \* history: messages lost

searchVars == <<bus, i, opened, dev_handle, endpoint_in>>
talkVars == <<next, response, cal, range, lost>>
deviceVars == <<device, queue>>
vars == <<pc, request, searchVars, talkVars, deviceVars>>

-----------------------------------------------------------------------------
(* The messages, in the order main sends them.                             *)

RangeOf(mode) == IF mode = "SE" THEN "BIP10V" ELSE "BIP5V"

Set(item, value) == [kind |-> "set", item |-> item, value |-> value]
Ask(item, value) == [kind |-> "ask", item |-> item, value |-> value]

Configuration(r) ==
    << Set("scan", "stop"), Ask("res", 0), Set("xfrmode", "BLOCKIO"),
       Set("chmode", r.mode), Set("range", RangeOf(r.mode)),
       Set("lowchan", 0), Set("highchan", r.channels - 1),
       Set("rate", r.rate), Ask("rate", 0), Set("samples", 0) >>

\* fillCalConstants: the slope and the offset of each channel in turn.
Calibration(r) ==
    [n \in 1 .. 2 * r.channels |->
        Ask(IF n % 2 = 1 THEN "slope" ELSE "offset", (n - 1) \div 2)]

\* Mutants: the calibration is read before the range is set; the scan is started
\* before it is.
CalibrateFirst(r) ==
    Calibration(r) \o Configuration(r) \o << Set("scan", "start") >>
StartFirst(r) ==
    Configuration(r) \o << Set("scan", "start") >> \o Calibration(r)

Script(r) == Configuration(r) \o Calibration(r) \o << Set("scan", "start") >>

\* What is sent after the capture.
Shutdown == << Set("scan", "stop"), Ask("status", 0) >>
Messages(r) == Script(r) \o Shutdown

\* The settings of the device, as it has them before any message.
NamedItems == {"xfrmode", "chmode", "range"}
NumberedItems == {"lowchan", "highchan", "rate", "samples"}
PowerOn == [item \in NamedItems \union NumberedItems |->
               IF item \in NamedItems THEN "default" ELSE -1]

-----------------------------------------------------------------------------
Init ==
    /\ pc = "geometry"
    /\ request \in Requests
    /\ bus \in [1 .. NumDevices -> DeviceKinds]
    /\ i = 1
    /\ opened = {}
    /\ dev_handle = 0
    /\ endpoint_in = "garbage"
    /\ next = 1
    /\ response = [item |-> "garbage"]
    /\ cal = [what \in {"slope", "offset"} \X (0 .. request.channels - 1) |->
                 [item |-> "garbage"]]
    /\ range = "none"
    /\ \E scan \in IF "scanning" \in Faults THEN {"earlier", "stopped"}
                                            ELSE {"stopped"} :
          device = [scan |-> scan, setting |-> PowerOn]
    /\ queue = 0
    /\ lost = 0

\* buffer_size/num_channels and the quotient in delay, of which the program dies
\* when they divide by zero.
ComputeSizes ==
    /\ pc = "geometry"
    /\ pc' = IF DividesByZero(request.channels, request.rate) THEN "crash" ELSE "output"
    /\ UNCHANGED <<request, searchVars, talkVars, deviceVars>>

\* The output file, the signal handler and libusb, each of which may refuse.
OpenOutput ==
    /\ pc = "output"
    /\ pc' \in {"find", "failed"}
    /\ UNCHANGED <<request, searchVars, talkVars, deviceVars>>

-----------------------------------------------------------------------------
(* MCCDevice_init: the first device of the list that can be claimed.       *)

NotFound ==
    /\ pc = "find"
    /\ i > NumDevices
    /\ pc' = "failed"
    /\ UNCHANGED <<request, searchVars, talkVars, deviceVars>>

SkipDevice ==
    /\ pc = "find"
    /\ i <= NumDevices /\ bus[i] = "other"
    /\ i' = i + 1
    /\ UNCHANGED <<pc, request, bus, opened, dev_handle, endpoint_in, talkVars,
                   deviceVars>>

OpenDenied ==
    /\ pc = "find"
    /\ i <= NumDevices /\ bus[i] = "denied"
    /\ pc' = "failed"
    /\ UNCHANGED <<request, searchVars, talkVars, deviceVars>>

\* The handle stays open, and the next device's replaces it in dev_handle.
ClaimRefused ==
    /\ pc = "find"
    /\ i <= NumDevices /\ bus[i] = "busy"
    /\ opened' = opened \union {i}
    /\ dev_handle' = i
    /\ i' = i + 1
    /\ UNCHANGED <<pc, request, bus, endpoint_in, talkVars, deviceVars>>

Allocatable == BufferSize(request.channels, request.rate) >= 0

\* getScanParams: when the descriptor cannot be read its bytes are whatever the
\* stack held, and they are searched all the same, for the packet size without
\* an end. Then the ring is allocated, if there is memory: for a size that wrapped
\* below zero there is none.
ClaimDevice ==
    /\ pc = "find"
    /\ i <= NumDevices /\ bus[i] = "good"
    /\ opened' = opened \union {i}
    /\ dev_handle' = i
    /\ \/ endpoint_in' = "known" /\ pc' \in {"flush", "failed"}
       \/ /\ "descriptor" \in Faults
          /\ endpoint_in' = "garbage" /\ pc' \in {"flush", "failed", "crash"}
    /\ pc' = "flush" => Allocatable
    /\ i' = i + 1
    /\ UNCHANGED <<request, bus, talkVars, deviceVars>>

-----------------------------------------------------------------------------
(* flushInputData, before the earlier scan is stopped.                     *)

\* Mutant: a packet is taken whether one came or not.
FlushNothing ==
    /\ pc = "flush"
    /\ endpoint_in = "known"
    /\ queue' = queue - 1
    /\ UNCHANGED <<pc, request, searchVars, talkVars, device>>

\* while (bytesTransfered > 0 && status == 0)
FlushPacket ==
    /\ pc = "flush"
    /\ endpoint_in = "known"
    /\ queue > 0
    /\ queue' = queue - 1
    /\ UNCHANGED <<pc, request, searchVars, talkVars, device>>

\* Mutant: the end of the flush does not look at the status of a transfer.
FlushUntilEmpty ==
    /\ pc = "flush"
    /\ endpoint_in = "known" /\ queue = 0
    /\ pc' = "messages"
    /\ UNCHANGED <<request, searchVars, talkVars, deviceVars>>

\* Nothing for 200 ms, or a transfer that fails: on an endpoint that is none it
\* always does.
FlushEnds ==
    /\ pc = "flush"
    /\ endpoint_in = "known" => queue = 0 \/ "flush" \in Faults
    /\ pc' = "messages"
    /\ UNCHANGED <<request, searchVars, talkVars, deviceVars>>

-----------------------------------------------------------------------------
(* sendMessage, and what main and fillCalConstants do around it.           *)

Current == Messages(request)[next]

\* What the device does with a message.
Taken(m) ==
    CASE m.kind = "ask" -> device
      [] m.item = "scan" /\ m.value = "stop" -> [device EXCEPT !.scan = "stopped"]
      [] m.item = "scan" /\ m.value = "start" -> [device EXCEPT !.scan = "ours"]
      [] OTHER -> [device EXCEPT !.setting[m.item] = m.value]

\* The answer names the question; one about calibration is of the range set.
Answer(m) == [item |-> m.item, value |-> m.value, range |-> device.setting["range"]]

Calibrating == Current.item \in {"slope", "offset"}

\* minVoltage and maxVoltage follow the message, sent or not; a calibration
\* constant is converted from whatever the buffer holds then.
AfterMessage ==
    /\ range' = IF Current.item = "range" THEN Current.value ELSE range
    /\ cal' = IF Calibrating
                THEN [cal EXCEPT ![<<Current.item, Current.value>>] = response']
                ELSE cal
    /\ next' = next + 1
    /\ pc' = IF next = Len(Script(request)) THEN "started"
             ELSE IF next = Len(Messages(request)) THEN "closing" ELSE pc
    /\ UNCHANGED <<request, searchVars, queue>>

MessageAnswered ==
    /\ pc = "messages"
    /\ device' = Taken(Current)
    /\ response' = IF Calibrating THEN Answer(Current) ELSE response
    /\ AfterMessage
    /\ UNCHANGED lost

\* The request or its answer is lost: sendMessage returns NULL and nobody looks.
MessageLost ==
    /\ "message" \in Faults
    /\ pc = "messages"
    /\ lost < MaxLost
    /\ device' \in {device, Taken(Current)}
    /\ lost' = lost + 1
    /\ UNCHANGED response
    /\ AfterMessage

\* The capture (DaqCapture) is over: ^C came and the reader was joined.
CaptureEnds ==
    /\ pc = "started"
    /\ pc' = "messages"
    /\ UNCHANGED <<request, searchVars, talkVars, deviceVars>>

\* The output is closed, and MCCDevice_free closes the device it has a handle of.
MCCDevice_free ==
    /\ pc = "closing"
    /\ pc' = "closed"
    /\ opened' = opened \ {dev_handle}
    /\ UNCHANGED <<request, bus, i, dev_handle, endpoint_in, talkVars, deviceVars>>

-----------------------------------------------------------------------------
\* The device, scanning for the run that crashed.
EarlierScan ==
    /\ device.scan = "earlier"
    /\ queue < QueueSize
    /\ pc \notin {"started", "closed", "failed", "crash"}
    /\ queue' = queue + 1
    /\ UNCHANGED <<pc, request, searchVars, talkVars, device>>

Setup ==
    \/ ComputeSizes \/ OpenOutput
    \/ NotFound \/ SkipDevice \/ OpenDenied \/ ClaimRefused \/ ClaimDevice
    \/ FlushPacket \/ FlushEnds
    \/ MessageAnswered \/ MessageLost \/ MCCDevice_free

\* Main has returned or been killed.
Ended ==
    /\ pc \in {"closed", "failed", "crash"}
    /\ UNCHANGED vars

Next == Setup \/ CaptureEnds \/ EarlierScan \/ Ended

\* The program runs on and the device that scans goes on scanning; no message
\* has to be lost, and nobody has to press ^C.
Fairness == WF_vars(Setup) /\ WF_vars(EarlierScan)

Spec == Init /\ [][Next]_vars /\ Fairness

-----------------------------------------------------------------------------
(* Properties.                                                             *)

Text == [item : {"garbage"}]
        \union [item : {"slope", "offset"}, value : Nat,
                range : {"default", "BIP10V", "BIP5V"}]

\* Every variable keeps its type.
TypeOK ==
    /\ pc \in {"geometry", "output", "find", "flush", "messages", "started",
               "closing", "closed", "failed", "crash"}
    /\ request \in Requests
    /\ bus \in [1 .. NumDevices -> DeviceKinds]
    /\ i \in 1 .. NumDevices + 1
    /\ opened \subseteq 1 .. NumDevices
    /\ dev_handle \in 0 .. NumDevices
    /\ endpoint_in \in {"known", "garbage"}
    /\ next \in 1 .. Len(Messages(request)) + 1
    /\ response \in Text
    /\ cal \in [{"slope", "offset"} \X (0 .. request.channels - 1) -> Text]
    /\ range \in {"none", "BIP10V", "BIP5V"}
    /\ device.scan \in {"earlier", "stopped", "ours"}
    /\ DOMAIN device.setting = DOMAIN PowerOn
    /\ queue \in 0 .. QueueSize
    /\ lost \in 0 .. MaxLost

\* The sizes main computes: transfers of whole packets, memory for twice the ring
\* they fill, a delay that polls often enough and a ring that holds lines. Not for
\* a rate below zero or one whose second of samples the ints cannot hold, with
\* which main goes on as it does with any other.
SizesFit ==
    /\ pc \notin {"geometry", "crash"}
    /\ Representable(request.channels, request.rate)
    => /\ WholePackets(request.channels, request.rate)
       /\ PollsOftenEnough(request.channels, request.rate)
       /\ LineFits(request.channels, request.rate)

\* While the device scans for this run it has every setting that was asked for,
\* and the range the samples will be scaled with, unless a message was lost; and
\* a device that is closed does not scan for this run.
ScanIsAsRequested ==
    device.scan = "ours" /\ lost = 0 =>
        /\ next > Len(Script(request)) /\ pc # "closed"
        /\ device.setting["range"] = range
        /\ device.setting["chmode"] = request.mode
        /\ device.setting["rate"] = request.rate
        /\ device.setting["lowchan"] = 0
        /\ device.setting["highchan"] = request.channels - 1
        /\ device.setting["samples"] = 0

\* Every calibration constant was read from the device's answer about that
\* channel (daqflex.c:44-45: "Send the message and put the values into an array
\* containing all channel cal data") for the range in use (daqflex.c:27: "Cal
\* constants are only valid for the current set range").
CalibrationIsOwn ==
    pc = "started" =>
        \A what \in {"slope", "offset"}, c \in 0 .. request.channels - 1 :
            cal[<<what, c>>] = [item |-> what, value |-> c, range |-> range]

\* So it is when no message is lost.
CalibrationIsOwnIfAnswered == lost = 0 => CalibrationIsOwn

\* Setup comes to an end, whatever is lost and whatever is on the bus, once the
\* device does not scan for an earlier run; and the program after the capture,
\* with the device it used closed.
Ends ==
    /\ device.scan # "earlier" ~> pc \in {"started", "closed", "failed", "crash"}
    /\ pc = "messages" /\ next > Len(Script(request)) ~> pc = "closed" /\ dev_handle \notin opened

\* A scan left by a run that crashed is stopped (daqflex.c:278-279: "Stop
\* scanning, in case we crashed or otherwise Were still scanning from a previous
\* run").
StopsEarlierScan == pc = "flush" ~> device.scan # "earlier"
=============================================================================
