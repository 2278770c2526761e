# TLA+ models of uarch-configure

The repository is a collection of small C programs and kernel modules by one author for configuring and
measuring the microarchitecture and the power of a machine. They share no code and no state; what they share
is a shape: a program that talks to hardware (a USB data acquisition device, a serial power meter, model
specific registers, GPIO registers, performance counters) which goes on working while the program looks away.
The properties below are about that: what the program believes the hardware did against what it did.

## Inventory

| component | state it keeps | operations | hard behaviours | what makes it correct |
|---|---|---|---|---|
| **daqflex capture** (`mc1208fs-plus/poll_thread.c`, main loop of `daqflex.c`) | ring of samples with its index, the half written last, `thread_alive`, `done`, the output | bulk transfer, advance, wrap, poll, write a half, ^C, stop, join | two threads share the index without a lock; transfers time out, fall short or are refused; ^C at any moment | each sample once, in order, in its column; no access outside the ring; whole lines; it ends |
| **daqflex setup** (`daqflex.c`, `mccdevice.c`) | request, sizes, handle, endpoints, calibration, range; the device has settings, a scan, a queue | options, sizes, find and claim, flush, messages, start | sizes that wrap, messages lost, descriptor unreadable, device still scanning for a crashed run | the scan started is the one requested; constants belong to channel and range; it ends |
| **rasp-pi-pmu** (`rasp-pi-pmu.c`) | 32-bit hardware counters, last values, 64-bit totals, a timer | init, timer update, exit update and report | overflow without an interrupt; the timer interrupts the exit | totals exact, report right, nothing left behind |
| **DAQ trace tools** (`debounce_serial.c`, `dump_*.c`) | state of trace detection, time in it, energies; the last samples | one line of a capture | pulses about the threshold, cut captures, a filter in front that is late or killed | each trace found once and whole; a lone line repaired, a level kept |
| **wattsup** (`wattsup.c`, variant `wattsup-better.c`) | descriptor, options' values, retry count; the meter has settings and a log | open, read and write packets, log start/stop, clear, read loop, check/show/store options | lost, short, bad, late records; a line that breaks; a meter left logging; retry, reset, give up | prints the reply it asked for; counts kept; the log stopped; options set |
| **wattsup-simple** | the record being assembled, the flag of ^C | start, read, rest of a record, stop | records in pieces of any size, ^C in the middle | whole records, ends on ^C |
| **rapl-read, rapl-plot** | package map, method, energies before and after | detect, read by MSR, perf, sysfs | wrap of 32-bit energies, absent events, package numbers sparse or behind the map, ways of reading that fail | what is printed was used; every package; it ends |
| **amd-apm-read** | accumulator and time stamp before and after | init, start, stop, TDP test | rollover at two widths, a clock that cannot be read | difference right across one rollover |
| **intel-prefetch, core2-prefetch** | none; the register of each core | enable, disable, per core or all | a core missing in the middle, going off line or coming back; other bits of the register | the cores it says are changed; no other bit lost |
| **rasp-pi-serial** | terminal settings, control lines, GPIO function register | set RTS/CTS pins, toggle lines | read-modify-write shared with the kernel and each other | no update lost, settings restored |
| straight-line modules (cortex-a9-\*, rasp-pi-brpred, rasp-pi2-\*, r12k-brpred, rdpmc-bench, kmem, koops, rasp-pi-pmu-test, make_plot) | none, or one register | load, unload | none | - |

Components interact through what outlives a program or lies beside it. `daqflex` setup hands the device handle, the
sizes and the delay to the capture through `struct MCCDevice_t`, `struct dataBuffer_t` and
`startContinuousTransfer`; the trace tools read the binary file `daqflex` writes, at their end of a pipe behind
`debounce_serial`; the three drivers of the meter meet each other's leavings in it; and the programs that
change registers share them with each other and the kernel. Everything else is one program per component.

## Modules

| module | models | how |
|---|---|---|
| `DaqStream` | what a capture promises | abstract specification: a bounded FIFO from device to columns |
| `DaqCapture` | `poll_thread.c`, loop of `daqflex.c` main, `displayAndWriteData`, signal handler | one action per statement of `read_usb` that shares state; one per sample in a pass of `displayAndWriteData` |
| `DaqCaptureProofs` | - | theorems about `DaqCapture`: types, memory, refinement |
| `DaqColumnsProofs` | - | theorems about its columns and lines, without the schedule |
| `DaqGeometry` | `daqflex.c` 201-228, 359 | the size and delay formulas as operators, in the arithmetic of C: `int` and `unsigned int` that wrap (`Signed`, `Unsigned`), a quotient towards zero |
| `DaqSetup` | `daqflex.c` main before and after the capture, `fillCalConstants`; `mccdevice.c` | the main thread and the device; the messages are the sequence `Messages` |
| `MCDaqSetup` | - | command lines for model checking |
| `DaqSetupProofs` | - | theorems about the formulas of `DaqGeometry` and about `DaqSetup` |
| `PmuOverflow` | `rasp-pi-pmu.c` | timer atomic (an interrupt of the only processor), exit step by step |
| `PmuOverflowProofs` | - | theorems about `PmuOverflow` |
| `Wattsup`, `MCWattsup` | `wattsup.c`, `wattsup-better.c`, `wattsup-simple.c` | one program after another, and the meter |
| `WattsupProofs` | - | theorems about the drivers |
| `Rapl`, `MCRapl` | `rapl-read.c`, `rapl-plot.c`, `apm-read.c` | one program on one of the machines, which goes on consuming |
| `RaplProofs` | - | theorems about `Rapl` |
| `Registers`, `MCRegisters` | `intel-prefetch-disable.c`, `(dis\|en)able_core2_prefetch.c`, `rpirtscts.c`, `toggle_rts.c`, `toggle_dtr.c`, `pulse_rts.c` | two of them at once, the kernel, cores that go off line and come back |
| `RegistersProofs` | - | theorems about `Registers` |
| `Traces`, `MCTraces` | `debounce_serial.c`, `dump_binary.c`, `dump_watts.c`, `dump_watts_ddr3.c`, `dump_watts_ddr4.c` | the filter and a tool at the two ends of a pipe, or a tool alone |
| `TracesProofs` | - | theorems about `Traces` |

### DaqCapture

`currIndex`, `data`, `thread_alive`, `lastHalfRead`, `currentData`, `currentChan` and `done` are the variables of
the code; `rpc` and `mpc` say which statement a thread is at; `transferred` survives from transfer to transfer as
in the code. A sample is the number of its place in the stream of the device, so that a property can say which
sample is where. `got` counts the samples of the transfer in flight that are in memory: a transfer fills the ring
while it is in flight, not when it completes. `lap`, `polled`, `failures` and `faulted` are history.

| action | code |
|---|---|
| `SubmitTransfer`, `SampleArrives`, `TransferCompletes`, `TransferFallsShort`, `TransferRefused` | the `usleep` and the `libusb_bulk_transfer` of `read_usb`, and its ways to return |
| `AdvanceIndex`, `WrapIndex`, `CheckAlive` | the three statements of `read_usb` that touch shared state |
| `LoopTest`, `PollBuffer` | `while(!done)`, the conditions on `currIndex` and `lastHalfRead` |
| `WriteSample` | a turn of the inner loop of `displayAndWriteData`; the last of a pass also sets `lastHalfRead` |
| `StopContinuousTransfer`, `JoinThread`, `Interrupt` | the end of the program and ^C |

A length that is easily misread: `startContinuousTransfer` gets `numPoints/2` as a number of samples and passes it
to libusb as a number of *bytes*, so a transfer is a quarter of the ring (`Quarter`), and `calloc` gets twice the
bytes the ring uses (`Allocated`). Both are modelled as they are. The second is what keeps a transfer that starts
late in the ring inside the block (`InBounds`).

**The schedule.** Nothing in the code makes the threads keep up; it relies on a delay. With `Timely = FALSE` they
run at any speed. With `Timely = TRUE` two guards state what a machine that keeps to the delay does: it polls
between two advances of the index (`Polled`) and ends a pass before the transfer after next brings data
(`PassKeepsUp`). `DelayIsShort` is the arithmetic behind the first: the delay is at most two fifths of the time
a quarter of the ring takes to fill. The second is needed of the pass over the second half, which may begin a
quarter late: between the advance and the wrap the index equals `NumPoints`, for which main finds no half ready.

### DaqSetup

`pc` follows `main`. `bus` is what each device on the bus would answer; `device` is its settings and whether it
scans (`"earlier"`: for a run that crashed); `queue` the packets of that scan. `cal` records for each constant
which answer its text came from. A lost message (`MessageLost`) may or may not have reached the device, as either
of the two control transfers of `sendMessage` can fail. A division by zero ends in `"crash"`: no channels, no rate, or a
rate whose divisor wraps to zero; a buffer whose size wrapped below zero cannot be allocated (`Allocatable`). What the sizes
of the other requests are good for is asked of those an `int` can hold (`Representable`): a rate of at least one, and a
second of samples that takes less than 2^31 bytes in the doubled buffer. At `"started"` the capture of `DaqCapture` takes
place; `CaptureEnds` is its end, after which main sends `Shutdown` and `MCCDevice_free` closes the device.

### PmuOverflow

The three counters are handled alike and apart; the module follows one, and `overflows`, which the code sums over
all three, counts its share. `Event` is the counter in hardware. The update of the timer is one action, as nothing
runs between its statements on the one processor; that of the exit is read, add, store and keep, and where the
compiler may load the static `cycles` again or keep it in a register both values are possible.

### Wattsup

What `main` does with an option line is a straight sequence of exchanges with the meter, so a run of a program is
a `script`: `WattsupMain`, `BetterMain` and `SimpleMain` build it from the options, in the order of the code,
and `pc` says where in the first exchange of it the program is: at its `"write"`, the `"sleep"` after that, its
`"read"`. Each `wu_show_*`, `wu_write_*`, `wu_start_log`, `wu_stop_log` and `wu_clear` is a record that says what
is written, whether the function sleeps and reads, and whether main gives up when it fails. Stores that are not
valid are steps of their own (`StoreFails`): two of them read a text that is not there or go past its end.

| action | code |
|---|---|
| `parse_args*`, `open_device*`, `setup_serial_device` | the start of each driver, and the ways it does not get to the meter; `wattsup.c` may go on with descriptor 0 |
| `wu_write`, `WriteFails`, `Sleep`, `ReadReply` | one exchange; a short write is reported and not an error |
| `ReadRecord`, `ReadFails`, `SleepInterval` | the loop of `wu_read_data`: count, retry, reset (pushed in front of the script), give up |
| `wu_clear_better` | the endless loop of that variant |
| `ReadSimple`, `ReadRest`, `ReadBroken`, `SleepHalf`, `ctrlc_handler` | `wattsup-simple`: `string` is what it holds of the record, `got` what its `ret` is; reads of a broken line |
| `MeterObeys`, `MeterSamples`, `MeterSendsRest` | the meter (external): obeys in order or misses a command, sends records whole or in two pieces |
| `Breaks`, `Interrupt`, `RunAgain` | the line breaks, ^C without a handler, and the next program; the meter stays as it is |

A number that is stored is a text: whose number it is and whether a `d` follows it, as it does (`UD`): `wattsup.c:974` and 1039
format with `"%ud"`, which is `%u` and a letter. `fd` is `"broken"` once the line is gone: writes fail and reads find
nothing; `wattsup-simple` then repeats its read for ever. A reply is abstracted to its kind and whether a piece of it is the whole, the head or the tail; `"?"` is one that is
spoilt. `parse_packet` gives the outcomes a text of such pieces can have: a record cut in its last field passes as
whole. `calm` is history: no fault in this run, and the meter idle when it began; `reset`: this run has reset the log.

### Rapl

`machine` says what the hardware and the kernel offer: the package of each core, zones, events, MSRs and whether this
user may have them. `consumed` is what each package has used, and with `Clock` the time of AMD's counter; a counter
holds that plus `First`, modulo `Word` (`ClockWord` for the clock). Packages are read one at a time, with consumption in between. `taken`
is history, apart from the readings: what a package had used at each of the last two moments it was read. `Accurate` compares
what is printed with the difference of these, so that a reading paired with an older one, or kept from another round, shows.
An identity may be any number: one of 16 or more indexes `package_map` behind its end, where the program crashes or finds
a zero and passes the core over (`Overruns`, `"crashed"`); where none is below 16 nothing is read (`"empty"`). `rapl_sysfs`, `rapl_perf` and `rapl_msr` of each program are `Names`, `OpenEvents*`, `ListMsr*`,
`Before*`, `After*`; the two programs differ in what they do when one fails: `rapl-plot` goes on reading, with descriptor 0
where an event was not opened (`"stdin"`). `apm-read` is `main_apm` to `stop_apm_pwr_reporting`; a register that
cannot be read reads -1, and a difference of the clock that is zero is a division by zero (`"crashed"`).

### Registers

Each of two processes has a `job` and goes open, read, write (and verify or sleep) from register to register.
A register has two fields: the bits of the programs, `own`, and everybody else's, `other`; RTS is `own` and DTR
`other` on the lines of a port. `meant` is history: each field as whoever owns it wrote it last. `stale` and `raced`
say who read before somebody else wrote, and `late` the cores that came on line behind a process, so that `NoUpdateLost` excepts exactly the races the code has, and
the Nehalem functions, which write the whole register. Any read or write of a register, and the restore of a toggle, may
be refused. `Kill`, `CoreOff`, `CoreOn` and `KernelWrites` are external.

### Traces

`DebounceLine` is a turn of the loop of `debounce_serial`: it writes the line before, repaired if its sign was alone;
`TraceLine` is one of the loop of the dumps, with a step of trace detection. `out` is what went into the pipe,
`ticks` the lines the tool has taken from it. The energy of a line is abstracted to how often a total holds it
(`trace_joules`, `total_joules`). A capture may be cut anywhere, have no header, or lose its writer (`Kill`).

## Runs

| run | asks | bounds | result |
|---|---|---|---|
| `daq_prompt` | does a capture that keeps up lose, repeat or misplace a sample (`ImplementsStream`), drain (`Drains`), wrap to zero (`WrapsToZero`), end on ^C (`Stops`)? | ring of 8, 2 channels, 19 samples before ^C (more than two laps); `pthread_create` may fail | holds |
| `daq_faults` | threads of any speed, short and refused transfers: memory (`InBounds`), columns (`ColumnsKeepTheirChannel`), lines (`WholeLines`) | ring of 8, 12 samples, 2 failures, so that a short transfer is followed by another failure after a wrap | holds |
| `daq_channels` | `daqflex.c:398`: is only half the buffer read at a time? | 3 channels, half of 4 | violated |
| `daq_setup` | sizes, messages, calibration, end and closing, over a bus of two devices of any kind | 48 command lines, 1 lost message, a queue of 2 | holds |
| `daq_calibration` | is each constant the device's answer about its channel? | 1 lost message | violated |
| `daq_flush` | is a scan left by a crashed run stopped? | a queue of 2 | violated |
| `pmu` | totals, report, timer, events counted in the end | a word of 4, 14 events: three rounds | holds |
| `pmu_race` | the report, with the timer running in the exit | as `pmu` | violated |
| `wattsup` | is what is printed the reply asked for (`RepliesAreOwn`, `DataIsData`), a count kept (`CountIsPrinted`), the log stopped (`LogIsStopped`), settings sent (`SettingsTaken`); does it end (`Ends`)? | two programs one after the other, six command lines (one with a count below zero), 1 fault, 4 pieces in the line of which a read takes 2 | holds |
| `rapl` | is what is printed what was used (`Accurate`), of every package (`EveryPackageIsShown`); does it end (`Ends`)? | 15 machines, a word of 3, a clock of 4, 4 units each | holds |
| `registers` | is an update lost (`NoUpdateLost`), are the cores reached (`CoresReached`), settings restored (`SettingsRestored`); do they end (`Ends`)? | 11 pairs of programs, 3 cores, 1 write by the kernel | holds |
| `traces` | are lines repaired if and only if alone (`Debounced`, `BouncesStartNothing`), traces between pulses (`PulsesAreLong`), totals whole (`TracesAreWhole`); do the tools end (`Ends`)? | 11 lines, thresholds of 1 and 2, 1 line in the pipe | holds |

Why the bounds are enough. The ring has the four quarters the code distinguishes, and a quarter of two samples,
the least in which a transfer can fall short with some data; the theorems drop the bound for what they cover.
A word of 4 has a distance zero, one, two and three between two reads, and MaxEvents takes the counter round three
times; `CountsExactly` holds for every word. `DaqSetup` scales the word of the delay's product with the scale
(2^18 and 1000 for 2^32 and 100000) so that a rate of 1000 wraps it; in that word the points of three channels wrap at a
rate of 50000 and 90000, the buffer of one at both, and the divisor is zero at 131072. `MCRequests` has zero, one and several channels,
and rates below zero, zero and above.
`Wattsup`: a second program is enough to meet what a first left, as a third finds nothing a second could not have;
with a read of two pieces, a head and its tail can come in one read, in two, or behind a record; the retries
end after three failures, which the meter that never answers gives, without a fault, when descriptor 0 is read.
`Rapl`: a word of 3 comes round between two readings with 4 units; the machines have one package and two, with and without
holes, identities behind the map beside others and alone, a core off line, each way of reading absent and refused, and every branch on the model.
`Registers`: the last core tried (3) is past those there, and the tools try fewer than there are. One write by the
kernel suffices to make a process stale, in any of its steps. `Traces`: two traces, the second begun, need eleven lines at a threshold of
1; the first three lines have every level, the others those a trace distinguishes.

### What the violations show

- `daq_channels`: `displayAndWriteData` tests the end of its half between lines. When the number of channels does
  not divide half the ring (six channels at the default rate) the last line of each pass takes samples of the
  other half, which the reader is filling, and writes them again in the next pass, in other columns.
- `daq_calibration`: `fillCalConstants` ignores the `NULL` of `sendMessage`. One lost answer and a channel gets
  the constant of the answer before, or whatever the buffer on the stack held.
- `daq_flush`: `flushInputData` ends only when nothing arrives for 200 ms, and comes before `AISCAN:STOP`. While
  a scan of an earlier run goes on, main may flush for ever.
- `pmu_race`: `rasp_pi_pmu_exit` updates the counters with the timer armed and deletes it at the end. A timer
  between the store of the total and the copy to `old_cycles` adds the same events twice.

While modelling we also met one remark the code has outgrown: `rasp-pi-pmu/README:37` says that counters wrap
around at 4 billion; the printed totals do not (`CountsExactly`).

Some properties except a case by name, because the code is so there:

- `RepliesAreOwn` and `SettingsTaken`: `wu_write_user` (`wattsup.c:1108`) sends the packet that asks for the parameters,
  without a field, so the user's parameters are never set and the meter's answer is left for the next read.
- `LogIsStopped`, `RepliesAreOwn`: a driver killed while it logs leaves the meter logging, and the next prints its
  records as replies unless it clears the line first (`calm` excludes both).
- `DataIsData`: a run that resets the log (`wattsup.c:902`) sends three requests of which it reads two answers, into a
  line that may still hold what made it reset; what is left over is read as the next record. It takes four pieces in
  the line to see: with three the model holds without the exception.
- `SettingsTaken`: what is set is not what the help says (`wattsup.c:1468`, 1478: a number), but that number with a `d`
  behind it (`"%ud"`, 974, 1039); the property says this, and that the text is of this run and not of an earlier one.
- `Accurate`: counters that come round between the readings (`CameRound`): sysfs and the MSRs print the difference as it is, below
  zero (`rapl-read.c:587`; 621 warns of it), `apm-read` adds one round; and domains that are printed without having been
  read (`Guessed`): zones the user may not read, of which both programs print what was on the stack (`rapl-read.c:846`),
  the cores of the Knights, of which `rapl_msr` takes a second reading and no first (`rapl-read.c:591`), what `rapl-plot`
  prints whatever the model has (`rapl-plot.c:871-880`), and an accumulator that cannot be read.
- `EveryPackageIsShown`: identities of 16 and more, a core off line, at which `detect_packages` stops, and zones that
  may not be read, of which what is printed is no reading.
- `SizesFit`: requests whose sizes an `int` cannot hold.
- `NoUpdateLost`: two programs, or one and the kernel, that cross; and the Nehalem functions, which write 0 or 0xf
  to the whole register (`intel-prefetch-disable.c:252`).
- `CoresReached`: for all cores `intel-prefetch-disable` always ends at the first that is not there, with status 2; the
  tools leave a core as it was that comes on line behind them.
- `SettingsRestored`: toggles that overlap, are killed or cannot set the port back, which they do not look at
  (`toggle_rts.c:133`); `pulse_rts` never comes to its restore.
- `Ends`: a count below zero, which `strtol` takes (`wattsup.c:1247`), is compared for equality (918) and logs for ever; `wattsup-simple`
  repeats a read that fails and waits for a meter that does not log, also after ^C (`Starved`); a division by zero and a
  search past the descriptor count as ends; `wu_clear` of `wattsup-better` loops for ever, `rapl-plot` reads standard input when perf events cannot be
  opened, and a capture without a header may leave a dump with no channels in a loop without an end.

## Fairness

- `DaqCapture`: weak fairness of each thread as a whole (the scheduler runs both) and of the device's samples,
  because `AISCAN:STOP` is sent only after the join: `SampleArrives` is one of the reader's steps there. Failures and
  ^C have none: `Drains` does not assume that anybody presses it.
- `DaqSetup`: weak fairness of the program and of a device that scans. No message has to be lost.
- `Wattsup`: weak fairness of the program and of the meter, which obeys and samples by itself. No fault, ^C or next
  program has to come. A driver that logs for ever need not end, nor the variant that clears for ever. A meter
  that is not told to log sends nothing, and a read of a broken line (`ReadBroken`) is not among the fair steps: nothing
  makes it return.
- `Rapl`: weak fairness of the program. Nobody has to use any energy, or type what a read of descriptor 0 waits for.
- `Registers`: weak fairness of each process; of nothing external.
- `Traces`: weak fairness of the filter and of the tool, two processes.
- `PmuOverflow`: weak fairness of the timer, of the exit once begun and of the initialisation; none of `rmmod` and
  none of events.

## Proofs

All are checked by TLAPS to the last leaf, from the `ASSUME`s of the modules on their constants only; what a
theorem supposes beyond them is in its statement.

| theorem | says | argument |
|---|---|---|
| `DaqCaptureProofs!TypeCorrect`, `MemorySafe` | `TypeOK` and `InBounds` hold for every ring, channels, speed and faults | `SafeInv`: the index is below `NumPoints` except between advance and wrap, and a line is begun inside its half. A transfer then reaches at most 5/4 of the ring and a pass at most a half and a line, within the doubled allocation |
| `ImplementsTheStream`, `WrapsExactly` | with `KeepsUp` (schedule kept, no failing transfer, channels divide half the ring) the capture refines `DaqStream`, the index wraps to zero | `StreamInv`: `Counted` (samples sent = laps + index + in flight), `Contents` (which sample each cell holds), `InColumns`, and for main between passes (`Waiting`), in one (`Passing`), after ^C (`Stopping`) how far the output is behind the index. `SampleArrives` needs `Passing` not to store over a sample unwritten, `WriteSample` needs `Contents` to write the next one. |
| `DaqColumnsProofs!LinesAreWhole`, `ColumnsAreKept` | `WholeLines` and `ColumnsKeepTheirChannel` at any speed, with short transfers | `Lined`: the output ends in the column before `currentChan`. `Aligned`: a cell and the sample in it agree modulo the channels, since a transfer counts what it stored and a lap is whole lines; `Dealt` carries that to the output. A refused transfer breaks `Aligned`, as the count it leaves is not what was stored |
| `DaqSetupProofs!TransfersAreWhole`, `LinesFit`, `DelayIsShort` | the sizes, in 32-bit arithmetic, for all channels and rates that are `Representable` (`LinesFit`: at most 64 channels, or a rate of 2 or more) | such sizes are what they are in the integers, rounded up to 128; the product of the delay may wrap and is then only smaller. For requests that are not `Representable` each of the three fails somewhere, in the code as in the model |
| `SetupTypeCorrect`, `ScanHasItsSettings`, `ConstantsAreTheirOwn` | `TypeOK`, `ScanIsAsRequested`, `CalibrationIsOwnIfAnswered`, for every command line, bus and number of messages lost | `Placed`: which message is next at each `pc`. `RangeSent`, `Configured` and `Calibrated`: from the message that sets it on, each setting and constant is the one asked for. The order of the script is in it: the range comes before the first constant is asked for, the start last |
| `SizesAlwaysFit` | `SizesFit` (of requests that are `Representable`), if no request is of more than 64 channels at a rate of 1 | the theorems about the formulas; the hypothesis is `LinesFit`'s: at one sample a second the smallest ring has two halves of 64 |
| `PmuOverflowProofs!TypeCorrect`, `CountsExactly` | totals exact for every word | `InStep`: the total is whole words plus the value read last, the events are as many words plus the counter, or one word more when it is below. Remainders appear only in the last step |
| `ReportsTheCount` | the report is right when the timer stays out of the exit | `ReportInv`: at every step of the exit what it has in hand is a count of the time since it began; the hypothesis is what `pmu_race` refutes the absence of |
| `LeavesNothingBehind` | no timer or counter outlives the module | the order disable, delete |
| `RegistersProofs!TypeCorrect`, `UpdatesAreKept` | `TypeOK`, `NoUpdateLost`, for any pair of programs, any cores and writes of the kernel | `Fresh`: who is about to write and is not `stale` holds the register as it is |
| `EveryCoreIsReached` | `CoresReached`, with cores that go and come | `Swept`: what a process that goes over all cores has behind it, written, off line or `late` |
| `SettingsAreRestored` | `SettingsRestored` | `Taken`: while no toggle came between, one at most has the port, with the settings it found; it has them when none does |
| `TracesProofs!LinesAreDebounced` | `Debounced`, for captures of any length | `Remembered`: `last` and `prev` are the last two lines read, and one is not written yet |
| `PulsesAreCounted`, `TracesTypeCorrect` | `PulsesAreLong` for every threshold, `TypeOK` | `Paced` and `Counted`: the time in a state is no more than the lines that were up since it began (in a trace exactly), as cardinalities of sets of lines |
| `BouncesAreFiltered` | `BouncesStartNothing` | a line `debounce_serial` writes of a port that only bounces is never up, so that by `PulsesAreLong` no trace has a start |
| `EveryTraceIsWhole` | `TracesAreWhole` | `Added`: the totals hold the lines of the traces that ended, once each; the sum of the one that has not ended, those since its start |
| `RaplProofs!RaplTypeCorrect` | `TypeOK`, for any machine and any package identities: behind `detect_packages`, which an identity of 16 or more may crash, no index leaves the map | `Detected` and `Located`: the packages found, and what is known at each place of each program |
| `DifferencesAreAccurate` | `Accurate`, for counters of any width | `ReadSoFar`: each reading is what the counter showed at the moment `taken` keeps for it, of the package it is kept for, and the second is not before the first; two readings in the same round differ by what was used (`SameRound`), those of AMD also in the next (`LessThanARound`); `ClockIsSlow` and `Opened` for the clock and the events; `Reported` keeps it for what is printed |
| `PackagesAreShown` | `EveryPackageIsShown` (identities below 16, readable zones, no core off line) | `Swept`, and the map of packages names each identity once: how many there are below an identity (`Rank`) tells them apart |
| `WattsupProofs!WattsupTypeCorrect`, `CountsArePrinted` | `TypeOK`, `CountIsPrinted`, for any programs, command lines, runs, faults and sizes | `Followed`: `Scripted` (what may come in a script behind what; one that was reset ends otherwise), `AtStep` (where in its first step the program is), `Counted` (records and retries left while the loop is to come) |
| `LogsAreStopped`, `SettingsAreTaken` | `LogIsStopped`, `SettingsTaken`, for a read of two pieces or more | `Served`: in a calm run the meter is at most one command behind (`Obedient`), logs only between a start and the stop, and has the texts of the settings that are no more in the script (`Setting`) |
| `RepliesAreTheirOwn`, `RecordsAreData` | `RepliesAreOwn`, `DataIsData`, for a read of two pieces or more | `Replied`: the line is empty but for one tail a read left (`Settled`) when a request is written, then has the reply to it in front of all other pieces (`Answered`), and in the loop only data (`AllData`). Only the show of the mode does not wait before it reads; it comes once, and a tail it leaves is all that is ever left (`Spare`) |

The inductive invariants were checked by TLC on the instances of the runs, `StreamInv` on rings of 8 and 24.

What the theorems suppose beyond the constants' assumptions is what the code needs. `ReadMax >= 2`: the 256 bytes of a
read hold a record that came in two pieces. That `wattsup-simple` has no options and that some program is run is in
`WattsupAssumption`. None needs fairness, and none of the bounds of the runs (`MaxRuns`, `MaxFaults`, `LineMax`,
`MaxLines`, `MaxEnergy`, `MaxLost`...) has a value in them: they are any numbers.

Looking for the invariant of `RecordsAreData` showed that a run that resets its log can read a reply as a record; the
property holds of that program with the line of three pieces it was first checked with, and its exception, the
variable `reset` and the line of four pieces come from the proof.

Every safety invariant of the passing runs is proved. Only model-checked: the temporal properties `Drains`, `Stops`,
`Ends`, `StopsEarlierScan`, `CatchesUp` (liveness under fairness, which TLAPS does not do). What the violating runs
refute is shown by their counterexamples alone.

## Not modelled, and why

The values of samples (floating point, `scaleAndCalibrateData`); the binary header and footer; texts printed; the
bytes of USB descriptors (the outcome of the search is a choice of known, garbage or crash); more than sixteen
channels, for which `calSlope` has no place (the requests of the runs have at most three), and fewer than none.

Of the meter: the fields of a packet but the texts of the interval and the mode, units and delimiters; what the meter
makes of a `d` behind a number; sleeps of an interval that is very long or below zero, which are taken to end; a read that is interrupted in `wattsup.c`,
which only ^C does and ^C ends it. Of `wattsup-simple`: `missed_samples`, which compares with a local that is always zero.

Of the energies: units and their registers (each domain has one unit here), the limits and policies that are printed
once, `test_tdp_reporting` of `apm-read`, which decodes registers and prints. Of the registers: which bits they are (a
program's bits are one field), except where two programs' bits meet in one register; `dump_rts_cts`,
`dump_serial_regs` and `monitor_rts_cts`, which change nothing. Of the captures: reads that fail rather than end,
and the floating point of the energies.

Not modelled at all: `make_plot` (formats a log), the kernel modules `cortex-a9-*`, `rasp-pi-brpred`,
`rasp-pi2-*` and `r12k-brpred` (set or print a register of the core they are loaded on, once, and
keep nothing), `rdpmc-bench` (what it computes are times), `kmem` and `koops` (a dump, and a crash on purpose),
`rasp-pi-pmu-test` (a fixed sequence). They have no state between two calls and no second actor, so that a model
would repeat their lines. `PROJECT.json` gives the reason for each component.

## Plan

1. Done: all modules, model-checked: `DaqStream`, `DaqCapture`, `DaqGeometry`, `DaqSetup`, `PmuOverflow`, `Wattsup`,
   `Rapl`, `Registers`, `Traces`.
2. Done: theorems about every safety invariant of the passing runs.
3. Proofs still worth having: that the operators the models are built from do what is said of them where it takes no
   induction (`Points`, `FirstCore`, `Repair`), and weaker hypotheses where a theorem has one.
