------------------------------- MODULE Wattsup -------------------------------
(***************************************************************************)
(* The drivers of the Watts Up? power meter, wattsup.c, its variant         *)
(* wattsup-better.c and wattsup-simple.c, which only logs and puts records   *)
(* together itself, run one after the other against the one meter.  The     *)
(* meter is external: it answers reads, obeys writes, and sends a record of *)
(* data every interval while it logs.  Nothing in a reply is compared with  *)
(* the request, so what a program prints is whatever arrived first.         *)
(***************************************************************************)
EXTENDS Integers, Sequences, SequencesExt

CONSTANTS
  Programs,   \* the programs run, a subset of Drivers
  Requests,   \* the command lines of each, of wu_options
  MaxRuns,    \* bound: programs run one after the other
  MaxFaults,  \* bound: failed, short, lost, late and spoilt transmissions, broken lines
  LineMax,    \* bound: pieces of records waiting in the serial line
  ReadMax     \* pieces that fit in the 256 bytes of one read

Drivers == {"wattsup", "wattsup-better", "wattsup-simple"}
\* The options that change what is done, not only how it is printed: flags, values that
\* are absent (no flag), bare (a flag without value), junk or valued, and the count, which
\* strtol takes with a sign, unless what is given is no number (badCount, which is no count).
Value == {"absent", "bare", "junk", "valued"}
wu_options ==
  {r \in [interval : Value, mode : Value, user : Value, count : Int, badCount : BOOLEAN,
          all : BOOLEAN, cal : BOOLEAN, header : BOOLEAN,
          setOnly : BOOLEAN, noData : BOOLEAN, final : BOOLEAN] : r.badCount => r.count = 0}

\* No option on the command line; wattsup-simple has none.
NoOptions ==
  [interval |-> "absent", mode |-> "absent", user |-> "absent", count |-> 0, badCount |-> FALSE,
   all |-> FALSE, cal |-> FALSE, header |-> FALSE,
   setOnly |-> FALSE, noData |-> FALSE, final |-> FALSE]

ASSUME WattsupAssumption ==
  /\ Programs \subseteq Drivers
  /\ \A p \in Programs : Requests[p] \subseteq wu_options
  /\ "wattsup-simple" \in Programs => Requests["wattsup-simple"] \subseteq {NoOptions}
  /\ MaxRuns \in Nat \ {0} /\ MaxFaults \in Nat /\ LineMax \in Nat \ {0} /\ ReadMax \in Nat \ {0}

VARIABLES
  program, request,  \* the program running and its options
  pc, script,        \* the statement it is at, the exchanges still to come
  fd,                \* "meter", "broken" once it is gone, "stdin" when open_device leaves it zero
  retry, i, ret,     \* of wu_read_data and main
  done_running,      \* of wattsup-simple: ^C came,
  string, got,         \* the pieces of the record it is at, as many read last
  print,             \* the record just printed: its kind, and as what
  log, settings,     \* the meter: whether it logs, what is set
  pending, owed,     \* commands not obeyed yet, the record half sent
  line,              \* pieces of records that arrived and were not read
  runs, faults,      \* history: programs run, faults left
  reset,             \* history: the log was reset in this run
  calm               \* history: no fault in this run, no log running at its start

simple == <<done_running, string, got>>
meter == <<log, settings, pending, owed, line>>
past == <<runs, reset>>
vars == <<program, simple, request, pc, script, fd, retry, i, ret, print, meter, past, faults, calm>>

wu_max_retry == 2

(***************************************************************************)
(* Exchanges: the packet written, whether the function sleeps after it,      *)
(* reads a reply, and whether main closes when the write fails.  A packet    *)
(* that stores a number has it as a text: a number (of this run's command    *)
(* line, of an earlier run's, of the factory) and whether a 'd' follows it.  *)
(***************************************************************************)
NoText == [number |-> "none", d |-> FALSE]
\* snprintf with "%ud": the format is %u and the 'd' goes into the packet.
UD(number) == [number |-> number, d |-> TRUE]

Exchange(cmd, sub, sleeps, reads, strict) ==
  [cmd |-> cmd, sub |-> sub, field |-> NoText, sleeps |-> sleeps, reads |-> reads, strict |-> strict]

wu_show_header == Exchange("H", "R", TRUE, TRUE, FALSE)
wu_show_cal == Exchange("F", "R", TRUE, TRUE, FALSE)
wu_show_interval == Exchange("S", "R", TRUE, TRUE, FALSE)
wu_show_mode == Exchange("M", "R", FALSE, TRUE, FALSE)
wu_show_user == Exchange("U", "R", TRUE, TRUE, FALSE)
\* Mutants: a setting is read instead of written.
AskInterval == Exchange("S", "R", TRUE, FALSE, TRUE)
AskMode == Exchange("M", "R", TRUE, FALSE, TRUE)
wu_write_interval == [Exchange("S", "W", TRUE, FALSE, TRUE) EXCEPT !.field = UD("asked")]
wu_write_mode == [Exchange("M", "W", TRUE, FALSE, TRUE) EXCEPT !.field = UD("asked")]
\* It asks for the parameters instead of setting them: no field is sent.
wu_write_user == Exchange("U", "R", TRUE, FALSE, TRUE)
wu_start_log == Exchange("L", "W", TRUE, FALSE, TRUE)
wu_stop_log == Exchange("L", "R", TRUE, TRUE, FALSE)
\* Mutant: no dummy read after the memory is cleared.
ClearUnread == Exchange("R", "W", TRUE, FALSE, FALSE)
wu_clear == Exchange("R", "W", TRUE, TRUE, FALSE)

\* Steps of the script that exchange nothing: the loop, and ends by error.
wu_read_data == [step |-> "data"]
Invalid == [step |-> "EINVAL"]
NullValue == [step |-> "strtol(NULL)"]
Overrun == [step |-> "isdigit past the end"]

\* A store runs whenever the flag is set, with a value or without.
wu_check_store(value, bare, junk, valued) ==
  CASE value = "absent" -> <<>>
    [] value = "bare"   -> <<bare>>
    [] value = "junk"   -> junk
    [] value = "valued" -> valued

wu_store_interval(r) == wu_check_store(r.interval, NullValue, <<Invalid>>, <<wu_write_interval>>)
wu_store_mode(r) == wu_check_store(r.mode, NullValue, <<Invalid>>, <<wu_write_mode>>)
\* After the last number there is the search for a digit goes past the end of the text.
wu_store_user(r) ==
  wu_check_store(r.user, Invalid, <<Overrun, Invalid>>, <<Overrun, wu_write_user>>)

When(b, step) == IF b THEN <<step>> ELSE <<>>

\* The part of main that shows device information.
ShowInfo(r) ==
  LET read(v) == r.all \/ (~r.setOnly /\ v # "absent")
  IN  When(r.all \/ r.cal, wu_show_cal) \o When(r.all \/ r.header, wu_show_header)
        \o When(read(r.interval), wu_show_interval) \o When(read(r.mode), wu_show_mode)
        \o When(read(r.user), wu_show_user)

\* Mutant: the log is left running.
LogUnstopped(r) ==
  IF r.noData THEN <<>>
  ELSE IF r.badCount THEN <<Invalid>>
  ELSE <<wu_start_log, wu_read_data>>

\* The part of main that logs.
LogData(r) ==
  IF r.noData THEN <<>>
  ELSE IF r.badCount THEN <<Invalid>>
  ELSE <<wu_start_log, wu_read_data, wu_stop_log>>

\* main once the line is set up.  Options that change the output alone always
\* succeed and are left out.
WattsupMain(r) ==
  <<wu_clear>> \o wu_store_interval(r) \o wu_store_mode(r) \o wu_store_user(r)
    \o ShowInfo(r) \o LogData(r)

\* The variant does not clear the memory first.
BetterMain(r) == Tail(WattsupMain(r))

\* wattsup-simple stops the log without reading an answer.
wu_stop_external_log == [wu_stop_log EXCEPT !.reads = FALSE]
wu_read == [step |-> "simple"]
SimpleMain == <<wu_start_log, wu_read, wu_stop_external_log>>

Main(p, r) ==
  CASE p = "wattsup" -> WattsupMain(r) [] p = "wattsup-better" -> BetterMain(r) [] OTHER -> SimpleMain
-----------------------------------------------------------------------------
Ended == pc \in {"closed", "refused", "crashed", "killed"}
Op == Head(script)
Exchanging == "cmd" \in DOMAIN Op

\* Continue with the steps s.
Run(s) ==
  /\ script' = s
  /\ pc' = IF s = <<>> THEN "closed"
           ELSE IF Head(s) \in {wu_read_data, wu_read} THEN "read"
           ELSE "write"
Skip == Run(Tail(script))
\* The label Close of main, reached by an error.
CloseOnError == script' = <<>> /\ pc' = "closed" /\ ret' = -1

Fault == faults > 0 /\ faults' = faults - 1 /\ calm' = FALSE
NoFault == UNCHANGED <<faults, calm>>

Nothing == [as |-> "", kind |-> ""]

StartsAfresh ==
  /\ program' \in Programs /\ request' \in Requests[program']
  /\ done_running' = FALSE /\ string' = <<>> /\ got' = 0
  /\ pc' = "args" /\ script' = <<>> /\ fd' = "none" /\ retry' = 0 /\ i' = 0 /\ ret' = 0
  /\ print' = Nothing /\ reset' = FALSE

Init ==
  /\ program \in Programs /\ request \in Requests[program]
  /\ done_running = FALSE /\ string = <<>> /\ got = 0
  /\ pc = "args" /\ script = <<>> /\ fd = "none" /\ retry = 0 /\ i = 0 /\ ret = 0
  /\ print = Nothing /\ log = FALSE
  /\ settings = [c \in {"S", "M", "U"} |-> [NoText EXCEPT !.number = "factory"]]
  /\ pending = <<>> /\ owed = "" /\ line = <<>>
  /\ runs = 1 /\ faults = MaxFaults /\ calm = TRUE /\ reset = FALSE

\* Help, version, a bad option or no device end the program, the last two with an error
\* in the variant; the name of a field that is not among the first sixteen is compared
\* with a NULL name.
ParseArgs(p, errors) ==
  /\ pc = "args" /\ program = p
  /\ \/ pc' \in {"open", "crashed"} /\ ret' = 0
     \/ pc' = "refused" /\ ret' \in errors
  /\ NoFault
  /\ UNCHANGED <<program, simple, request, script, fd, retry, i, print, meter, past>>

parse_args == ParseArgs("wattsup", {0})
parse_args_better == ParseArgs("wattsup-better", {0, -1})

\* open_device of wattsup.c: a name in /sys/class/tty that is no directory is
\* reported and not refused, as ret still is the zero of stat.
open_device ==
  /\ pc = "open" /\ program = "wattsup"
  /\ \/ pc' = "setup" /\ fd' \in {"meter", "stdin"} /\ UNCHANGED ret
     \/ pc' = "refused" /\ ret' = -1 /\ UNCHANGED fd
  /\ NoFault
  /\ UNCHANGED <<program, simple, request, script, retry, i, print, meter, past>>

\* open_device of wattsup-better.c looks at /dev only.
open_device_better ==
  /\ pc = "open" /\ program = "wattsup-better"
  /\ \/ pc' = "setup" /\ fd' = "meter" /\ UNCHANGED ret
     \/ pc' = "refused" /\ ret' = -1 /\ UNCHANGED fd
  /\ NoFault
  /\ UNCHANGED <<program, simple, request, script, retry, i, print, meter, past>>

\* main of wattsup-simple up to there; its open does not look at /sys.
open_device_simple ==
  /\ pc = "args" /\ program = "wattsup-simple"
  /\ \/ pc' = "setup" /\ fd' = "meter" /\ UNCHANGED ret
     \/ pc' = "refused" /\ ret' = -1 /\ UNCHANGED fd
  /\ NoFault
  /\ UNCHANGED <<program, simple, request, script, retry, i, print, meter, past>>

\* It discards what arrived; the request decides what is done from here.
setup_serial_device ==
  /\ pc = "setup"
  /\ \/ Run(Main(program, request)) /\ UNCHANGED ret
     \/ CloseOnError
  /\ line' = IF fd = "meter" THEN <<>> ELSE line
  /\ NoFault
  /\ UNCHANGED <<program, simple, request, fd, retry, i, print, log, settings, pending, owed, past>>

\* A store that does not come to its write.
StoreFails ==
  /\ pc = "write"
  /\ \/ Op = Invalid /\ CloseOnError
     \/ Op \in {NullValue, Overrun} /\ pc' = "crashed" /\ UNCHANGED <<script, ret>>
     \/ Op = Overrun /\ Skip /\ UNCHANGED ret
  /\ NoFault
  /\ UNCHANGED <<program, simple, request, fd, retry, i, print, meter, past>>

\* wu_write and the sleep to come; a short write is reported and, but for wattsup-simple,
\* not an error.
wu_write ==
  /\ pc = "write" /\ Exchanging /\ ~(program = "wattsup-better" /\ Op = wu_clear)
  /\ fd # "broken"
  /\ \/ /\ pending' = IF fd = "meter" THEN Append(pending, Op) ELSE pending
        /\ calm' = (calm /\ Op # wu_write_user) /\ UNCHANGED faults
     \/ program # "wattsup-simple" /\ Fault /\ UNCHANGED pending
  /\ print' = Nothing
  /\ pc' = IF Op.sleeps THEN "sleep" ELSE "read"
  /\ UNCHANGED <<program, simple, request, script, fd, retry, i, ret, log, settings, owed, line, past>>

\* A write that fails; wu_clear reads its dummy all the same, and wattsup-simple exits well.
WriteFails ==
  /\ pc = "write" /\ Exchanging /\ ~(program = "wattsup-better" /\ Op = wu_clear)
  /\ (IF fd = "broken" THEN NoFault ELSE Fault) /\ print' = Nothing
  /\ IF Op = wu_clear THEN pc' = "read" /\ UNCHANGED <<script, ret>>
     ELSE IF program = "wattsup-simple" THEN Run(<<>>) /\ UNCHANGED ret
     ELSE IF Op.strict THEN CloseOnError
     ELSE Skip /\ UNCHANGED ret
  /\ UNCHANGED <<program, simple, request, fd, retry, i, meter, past>>

\* wu_clear of wattsup-better.c: an abort, a hard reset (which may end a log),
\* then reset packets and dummy reads for ever.
wu_clear_better ==
  /\ pc = "write" /\ program = "wattsup-better" /\ Exchanging /\ Op = wu_clear
  /\ line' = <<>> /\ log' \in {log, FALSE}
  /\ NoFault
  /\ UNCHANGED <<program, simple, request, pc, script, fd, retry, i, ret, print, settings, pending, owed, past>>

\* A second or two pass: the meter has answered, unless it is late.
Quiet == pending = <<>> /\ owed \in {"", "D", "?"}
Sleep ==
  /\ pc = "sleep"
  /\ \/ (fd = "meter" => Quiet) /\ NoFault
     \/ fd = "meter" /\ ~Quiet /\ Fault
  /\ IF Op.reads THEN pc' = "read" /\ UNCHANGED script ELSE Skip
  /\ UNCHANGED <<program, simple, request, fd, retry, i, ret, print, meter, past>>

-----------------------------------------------------------------------------
Arrived == IF fd = "meter" THEN line ELSE <<>>
Chunk == SubSeq(line, 1, IF Len(line) < ReadMax THEN Len(line) ELSE ReadMax)
TakeChunk == line' = SubSeq(line, Len(Chunk) + 1, Len(line))

\* What parse_packet may find in pieces c: the first record with a '#', the rest is
\* dropped.  "" is an error; a record cut in its last field passes as whole.
parse_packet(c) ==
  LET starts == {k \in 1..Len(c) : c[k].part # "tail"}
      first  == CHOOSE k \in starts : \A j \in starts : k <= j
  IN  IF starts = {} \/ (starts # {} /\ c[first].kind = "?") THEN {""}
      ELSE IF c[first].part = "head" /\ first = Len(c) THEN {"", c[first].kind}
      ELSE {c[first].kind}

\* wu_read fails: the line is broken, or two seconds pass, as nothing is to come or it is late.
TimesOut ==
  /\ Arrived = <<>>
  /\ IF fd = "meter" /\ (log \/ ~Quiet) THEN Fault ELSE NoFault
  /\ UNCHANGED line

\* The read of an exchange; the time stamp of the log is printed on request, the
\* dummy of wu_clear never, and no error is kept.
ReadReply ==
  /\ pc = "read" /\ Exchanging
  /\ \/ /\ Arrived # <<>> /\ TakeChunk /\ NoFault
        /\ \E k \in parse_packet(Chunk) :
             print' = IF k = "" \/ Op = wu_clear \/ (Op = wu_stop_log /\ ~request.final)
                      THEN print ELSE [as |-> Op.cmd, kind |-> k]
     \/ TimesOut /\ UNCHANGED print
  /\ Skip
  /\ UNCHANGED <<program, simple, request, fd, retry, i, ret, log, settings, pending, owed, past>>

\* Mutant: the count is compared after it was passed.
PastCount(n) == request.count # 0 /\ n > request.count
\* A count below zero is never met.
IsLast(n) == request.count # 0 /\ n = request.count

\* wu_read_data, a record that parses; i is not followed where it only goes away from the
\* count, which is below zero.
ReadRecord ==
  /\ pc = "read" /\ Op = wu_read_data /\ Arrived # <<>>
  /\ \E k \in parse_packet(Chunk) \ {""} : print' = [as |-> "D", kind |-> k]
  /\ TakeChunk /\ NoFault
  /\ retry' = 0
  /\ i' = IF request.count > 0 THEN i + 1 ELSE i
  /\ IF IsLast(i') THEN Skip
     ELSE pc' = "pause" /\ UNCHANGED script
  /\ UNCHANGED <<program, simple, request, fd, ret, log, settings, pending, owed, past>>

\* Mutant: the log is reset at every failure from the second on.
ResetsForEver ==
  /\ pc = "read" /\ Op = wu_read_data
  /\ \/ Arrived # <<>> /\ "" \in parse_packet(Chunk) /\ TakeChunk /\ NoFault
     \/ TimesOut
  /\ retry' = retry + 1 /\ reset' = (reset \/ retry' >= wu_max_retry)
  /\ IF retry' < wu_max_retry THEN pc' = "pause" /\ UNCHANGED script
     ELSE Run(<<wu_stop_log, wu_clear, [wu_start_log EXCEPT !.strict = FALSE]>> \o script)
  /\ UNCHANGED <<program, simple, request, fd, i, ret, print, log, settings, pending, owed, runs>>

\* Mutant: a log that was reset has all its retries again.
RetriesAfresh ==
  /\ pc = "read" /\ Op = wu_read_data
  /\ \/ Arrived # <<>> /\ "" \in parse_packet(Chunk) /\ TakeChunk /\ NoFault
     \/ TimesOut
  /\ reset' = (reset \/ retry + 1 >= wu_max_retry)
  /\ IF retry + 1 < wu_max_retry THEN retry' = retry + 1 /\ pc' = "pause" /\ UNCHANGED script
     ELSE retry' = 0 /\ Run(<<wu_stop_log, wu_clear, [wu_start_log EXCEPT !.strict = FALSE]>> \o script)
  /\ UNCHANGED <<program, simple, request, fd, i, ret, print, log, settings, pending, owed, runs>>

\* wu_read_data, a bad record or none: wait; then reset the log; then give up.
ReadFails ==
  /\ pc = "read" /\ Op = wu_read_data
  /\ \/ Arrived # <<>> /\ "" \in parse_packet(Chunk) /\ TakeChunk /\ NoFault
     \/ TimesOut
  /\ retry' = retry + 1 /\ reset' = (reset \/ retry' = wu_max_retry)
  /\ IF retry' < wu_max_retry THEN pc' = "pause" /\ UNCHANGED script
     ELSE IF retry' = wu_max_retry
     THEN Run(<<wu_stop_log, wu_clear, [wu_start_log EXCEPT !.strict = FALSE]>> \o script)
     ELSE Skip
  /\ UNCHANGED <<program, simple, request, fd, i, ret, print, log, settings, pending, owed, runs>>

SleepInterval ==
  /\ pc = "pause" /\ Op = wu_read_data /\ pc' = "read" /\ print' = Nothing
  /\ NoFault
  /\ UNCHANGED <<program, simple, request, script, fd, retry, i, ret, meter, past>>

-----------------------------------------------------------------------------
\* wu_read of wattsup-simple waits for data, for ever if none comes.  What does not start
\* with a '#' is dropped; only the first record read is printed.
PrintsSimple(s) ==
  IF Last(s).part = "head" THEN pc' = "rest" /\ string' = s /\ UNCHANGED print
  ELSE pc' = "pause" /\ string' = <<>> /\ print' = [as |-> "D", kind |-> s[1].kind]

ReadSimple ==
  /\ pc = "read" /\ Op = wu_read /\ Arrived # <<>>
  /\ TakeChunk /\ got' = Len(Chunk)
  /\ \/ Chunk[1].part # "tail" /\ PrintsSimple(Chunk)
     \/ (Chunk[1].part = "tail" \/ Chunk[1].kind = "?") /\ pc' = "pause" /\ UNCHANGED <<string, print>>
  /\ NoFault
  /\ UNCHANGED <<program, request, done_running, script, fd, retry, i, ret, log, settings, pending, owed, past>>

\* The rest of a record: it asks for as much as the last read left of the buffer, not for what
\* is left of it, and may go past its end.
ReadRest ==
  /\ pc = "rest"
  /\ IF got = ReadMax THEN got' = 0 /\ UNCHANGED <<pc, string, print, line>>
     ELSE /\ Arrived # <<>>
          /\ got' = IF Len(line) < ReadMax - got THEN Len(line) ELSE ReadMax - got
          /\ line' = SubSeq(line, got' + 1, Len(line))
          /\ LET s == string \o SubSeq(line, 1, got')
             IN  IF Len(s) > ReadMax THEN pc' = "crashed" /\ string' = <<>> /\ UNCHANGED print
                 ELSE PrintsSimple(s)
  /\ NoFault
  /\ UNCHANGED <<program, request, done_running, script, fd, retry, i, ret, log, settings, pending, owed, past>>

\* A line that is broken is read again and again: an error is repeated for ever, so is the
\* read of the rest that finds nothing.  A read that finds nothing ends wu_read; an error in
\* the rest goes back a byte, up to the end of a record or out of the buffer.
ReadBroken ==
  /\ fd = "broken"
  /\ \/ pc = "read" /\ Op = wu_read /\ pc' = "pause" /\ UNCHANGED <<string, print>>
     \/ /\ pc = "rest" /\ string' = <<>>
        /\ \/ pc' = "pause" /\ print' = [as |-> "D", kind |-> string[1].kind]
           \/ (\A k \in 1..Len(string) : string[k].part = "head") /\ pc' = "crashed" /\ UNCHANGED print
  /\ NoFault
  /\ UNCHANGED <<program, request, done_running, got, script, fd, retry, i, ret, meter, past>>

\* Half a second, and the end if ^C came.
SleepHalf ==
  /\ pc = "pause" /\ Op = wu_read /\ print' = Nothing
  /\ IF done_running THEN Skip ELSE pc' = "read" /\ UNCHANGED script
  /\ NoFault
  /\ UNCHANGED <<program, simple, request, fd, retry, i, ret, meter, past>>

\* ctrlc_handler of wattsup-simple: a sleep ends at once, and a read without data; in the
\* rest of a record that takes a byte back.
Disturbs == calm' = FALSE /\ UNCHANGED faults
ctrlc_handler ==
  /\ program = "wattsup-simple" /\ ~Ended /\ done_running' = TRUE
  /\ \/ pc = "sleep" /\ Skip /\ UNCHANGED <<string, got>> /\ (IF Quiet THEN NoFault ELSE Disturbs)
     \/ pc = "rest" /\ UNCHANGED <<pc, script>> /\ got' = 0 /\ Disturbs
        /\ \E k \in {string[1].kind, "?"} : string' = [string EXCEPT ![1].kind = k]
     \/ pc \notin {"sleep", "rest"} /\ UNCHANGED <<pc, script, string, got>> /\ NoFault
  /\ UNCHANGED <<program, request, fd, retry, i, ret, print, meter, past>>

\* Nothing else catches ^C: the program is gone, the meter keeps what it was told.
Interrupt ==
  /\ ~Ended /\ runs < MaxRuns /\ pc' = "killed"
  /\ done_running' = FALSE /\ string' = <<>> /\ got' = 0
  /\ script' = <<>> /\ fd' = "none" /\ retry' = 0 /\ i' = 0 /\ ret' = 0
  /\ print' = Nothing /\ line' = <<>>
  /\ NoFault
  /\ UNCHANGED <<program, request, log, settings, pending, owed, past>>

RunAgain ==
  /\ Ended /\ runs < MaxRuns /\ runs' = runs + 1
  /\ StartsAfresh /\ line' = <<>>
  /\ calm' = (~log /\ pending = <<>> /\ owed = "")
  /\ settings' = [c \in DOMAIN settings |-> IF settings[c].number = "asked" THEN UD("earlier") ELSE settings[c]]
  /\ UNCHANGED <<log, pending, owed, faults>>

\* External: the meter is unplugged, or its line breaks.
Breaks ==
  /\ fd = "meter" /\ pc \in {"write", "read", "rest"} /\ fd' = "broken" /\ Fault
  /\ UNCHANGED <<program, simple, request, pc, script, retry, i, ret, print, meter, past>>
-----------------------------------------------------------------------------
\* The meter (external).  It sends one record at a time, whole or in two pieces; what
\* finds the line full, or the port closed, is lost.
Arrives(piece) == line' = IF fd = "meter" /\ Len(line) < LineMax THEN Append(line, piece) ELSE line
Sends(kind) ==
  \/ Arrives([kind |-> kind, part |-> "whole"]) /\ UNCHANGED owed
  \/ Arrives([kind |-> kind, part |-> "head"]) /\ owed' = kind

\* It obeys a command, or the command is lost on the way.
MeterObeys ==
  /\ pending # <<>> /\ owed = ""
  /\ pending' = Tail(pending)
  /\ LET c == Head(pending)
     IN  \/ /\ log' = IF c.cmd = "L" THEN c.sub = "W" ELSE log
            /\ settings' = IF c.sub = "W" /\ c.cmd \in DOMAIN settings
                           THEN [settings EXCEPT ![c.cmd] = c.field] ELSE settings
            /\ \/ (c.sub = "R" \/ c.cmd = "R") /\ Sends(c.cmd) /\ NoFault
               \/ c.sub = "W" /\ UNCHANGED <<line, owed>> /\ NoFault
               \/ c.sub = "R" /\ UNCHANGED <<line, owed>> /\ Fault
         \/ UNCHANGED <<log, settings, line, owed>> /\ Fault
  /\ UNCHANGED <<program, simple, request, pc, script, fd, retry, i, ret, print, past>>

MeterSamples ==
  /\ log /\ pending = <<>> /\ owed = ""
  /\ \/ Sends("D") /\ NoFault
     \/ Sends("?") /\ Fault
  /\ UNCHANGED <<program, simple, request, pc, script, fd, retry, i, ret, print, log, settings, pending, past>>

MeterSendsRest ==
  /\ owed # "" /\ Arrives([kind |-> owed, part |-> "tail"]) /\ owed' = ""
  /\ NoFault
  /\ UNCHANGED <<program, simple, request, pc, script, fd, retry, i, ret, print, log, settings, pending, past>>

Program ==
  \/ parse_args \/ parse_args_better \/ open_device \/ open_device_better \/ setup_serial_device
  \/ StoreFails \/ wu_write \/ WriteFails \/ wu_clear_better \/ Sleep
  \/ ReadReply \/ ReadRecord \/ ReadFails \/ SleepInterval
  \/ open_device_simple \/ ReadSimple \/ ReadRest \/ SleepHalf

Meter == MeterObeys \/ MeterSamples \/ MeterSendsRest

Done == Ended /\ runs = MaxRuns /\ UNCHANGED vars

Next == Program \/ ReadBroken \/ Breaks \/ Meter \/ ctrlc_handler \/ Interrupt \/ RunAgain \/ Done

Spec == Init /\ [][Next]_vars
\* The program runs, and a meter that has something to send sends it; a broken line need
\* not let a read end.
FairSpec ==
  Spec /\ WF_vars(Program) /\ WF_vars(MeterObeys) /\ WF_vars(MeterSamples) /\ WF_vars(MeterSendsRest)
-----------------------------------------------------------------------------
Kinds == {"H", "F", "S", "M", "U", "L", "R", "D", "?"}
Pieces == [kind : Kinds, part : {"whole", "head", "tail"}]
Texts == [number : {"none", "factory", "asked", "earlier"}, d : BOOLEAN]

TypeOK ==
  /\ program \in Programs /\ request \in Requests[program]
  /\ done_running \in BOOLEAN /\ got \in 0..ReadMax
  /\ Len(string) <= ReadMax /\ \A k \in 1..Len(string) : string[k] \in Pieces
  /\ pc \in {"args", "open", "setup", "write", "sleep", "read", "rest", "pause",
             "closed", "refused", "crashed", "killed"}
  /\ pc \in {"write", "sleep", "read", "rest", "pause"} => script # <<>>
  /\ fd \in {"none", "meter", "broken", "stdin"}
  /\ retry \in 0..(wu_max_retry + 1) /\ i \in Nat /\ ret \in {0, -1}
  /\ print = Nothing \/ print \in [as : Kinds \ {"R", "?"}, kind : Kinds]
  /\ log \in BOOLEAN /\ settings \in [{"S", "M", "U"} -> Texts]
  /\ Len(line) <= LineMax /\ \A k \in 1..Len(line) : line[k] \in Pieces
  /\ owed \in Kinds \cup {""}
  /\ runs \in 1..MaxRuns /\ faults \in 0..MaxFaults /\ calm \in BOOLEAN /\ reset \in BOOLEAN

\* What is printed as the reply to a request is that reply, though nothing compares
\* them: in a run without a fault that found the meter idle and stores no user
\* parameters.  Only the last time stamp may be taken from a record of data
\* (wattsup.c:642-820).
RepliesAreOwn ==
  calm /\ print.as \notin {"L", "D"} => print.kind = print.as

\* The same of the records of data: no reply is printed as one (wattsup.c:860-925), unless
\* the log was reset: that leaves replies behind what the line held (wattsup.c:902).
DataIsData == calm /\ ~reset /\ print.as = "D" => print.kind = "D"

\* A run with a count prints as many records as asked or has reset the log once and
\* given up; never more (wattsup.c:896-920).
CountIsPrinted ==
  /\ request.count > 0 => i <= request.count
  /\ pc = "closed" /\ ret = 0 /\ ~request.noData /\ request.count > 0
       => i = request.count \/ retry > wu_max_retry

\* A run that ends by itself leaves no log running behind it (wattsup.c:1871-1878).
LogIsStopped == pc = "closed" /\ calm => ~log

\* When a calm run ends well the meter was sent, in this run, the interval and the mode the
\* run was asked for, each as the text "%ud" makes of it: with a 'd' behind the number
\* (wattsup.c:958-1060).
SettingsTaken ==
  pc = "closed" /\ ret = 0 /\ calm /\ fd = "meter" =>
    /\ request.interval = "valued" => settings["S"] = UD("asked")
    /\ request.mode = "valued" => settings["M"] = UD("asked")

\* wattsup-simple waits in a read that ^C does not end: the line is broken, or the meter
\* was never told to log (wattsup-simple.c:189-195, 220-224).
Starved ==
  /\ program = "wattsup-simple" /\ pc \in {"read", "rest"}
  /\ fd = "broken" \/ (~log /\ pending = <<>> /\ owed = "" /\ line = <<>>)

\* A run of wattsup with a count above zero or a bad one, or that reads no data, ends
\* whatever the meter does, and wattsup-simple after ^C unless it is starved; with a count
\* below zero wattsup logs for ever, like without one (wattsup.c:860-925;
\* wattsup-simple.c:309-314).
Ends ==
  (\/ program = "wattsup" /\ pc = "args" /\ (request.count > 0 \/ request.badCount \/ request.noData)
   \/ done_running) ~> (Ended \/ Starved)
=============================================================================
